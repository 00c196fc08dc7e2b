-------------------------- MODULE MCCamera3Threads --------------------------
(***************************************************************************)
(* The two threads of the device client that need no HAL, for TLC:         *)
(* Camera3Monitor and Camera3PrepareHandler.  They share nothing, so a     *)
(* behaviour is one of the monitor or one of the prepare handler.          *)
(***************************************************************************)
EXTENDS Camera3Monitor, Camera3PrepareHandler

VARIABLE part

OfMonitor(A) == part = "monitor" /\ A /\ UNCHANGED <<part, allVars>>
OfPrepare(A) == part = "prepare" /\ A /\ UNCHANGED <<part, vars>>

ThreadsInit == part \in {"monitor", "prepare"} /\ Init /\ PrepareInit
ThreadsNext == OfMonitor(Next) \/ OfPrepare(PrepareNext)

\* The fairness of FairSpec and of PrepareFairSpec.
ThreadsSpec ==
  /\ ThreadsInit /\ [][ThreadsNext]_<<part, vars, allVars>>
  /\ WF_<<part, vars, allVars>>(OfMonitor(ThreadLoop))
  /\ WF_<<part, vars, allVars>>(OfMonitor(SignalUpdate))
  /\ WF_<<part, vars, allVars>>(OfPrepare(Thread))
  /\ WF_<<part, vars, allVars>>(OfPrepare(ClientGoesOn))
=============================================================================
