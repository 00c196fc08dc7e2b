--------------------------- MODULE MCCamera3Results ---------------------------
(* Camera3Results for TLC: two requests of the stream and one reprocess.    *)
EXTENDS Camera3Results

Limits == [normal |-> 2, input |-> 1]
\* The stream and its snapshot; a reprocess makes a snapshot of its input.
Outs == [normal |-> {1, 2}, input |-> {2}]
=============================================================================
