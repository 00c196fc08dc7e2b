---------------------------- MODULE MCAVCodec ----------------------------
(* The codec on two output buffers, for TLC. *)
EXTENDS AVCodec, TLC

CONSTANTS o1, o2

\* The encoder is started twice.
MCBuffers == [encoder |-> {o1, o2}, decoder |-> {o1, o2}]
MCStarts == [encoder |-> 2, decoder |-> 1]
====
