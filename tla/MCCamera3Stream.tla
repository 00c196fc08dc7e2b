--------------------------- MODULE MCCamera3Stream ---------------------------
EXTENDS Camera3Stream, TLC

\* Handles are only compared with each other.
HandleSymmetry == Permutations(Handles)
=============================================================================
