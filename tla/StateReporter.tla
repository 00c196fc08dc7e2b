---------------------------- MODULE StateReporter ----------------------------
(***************************************************************************)
(* What Camera3Monitor promises the device client: it is told every change *)
(* of one composite state, in order, each once, and nothing else.  How     *)
(* many monitors there are, who owns them and which locks are taken is     *)
(* left to the implementation (Camera3Monitor).                            *)
(***************************************************************************)
EXTENDS Sequences

CONSTANT States

VARIABLES actual,   \* the composite state
          told,     \* what the device client was told last
          backlog   \* the changes it has not been told yet

Init == actual \in States /\ told = actual /\ backlog = <<>>

Change(s) ==
  /\ s # actual
  /\ actual' = s
  /\ backlog' = Append(backlog, s)
  /\ UNCHANGED told

Tell ==
  /\ backlog # <<>>
  /\ told' = Head(backlog)
  /\ backlog' = Tail(backlog)
  /\ UNCHANGED actual

Next == Tell \/ \E s \in States : Change(s)

Spec == Init /\ [][Next]_<<actual, told, backlog>>
==============================================================================
