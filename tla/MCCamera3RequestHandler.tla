----------------------- MODULE MCCamera3RequestHandler -----------------------
(* Camera3RequestHandler for TLC: configurations with and without batches.  *)
EXTENDS Camera3RequestHandler

Batches == {1, 2}
=============================================================================
