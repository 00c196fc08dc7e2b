---------------------------- MODULE ThreadHelper ----------------------------
(***************************************************************************)
(* ThreadHelper (common/utils/qmmf_thread.cc): the base of the monitor,    *)
(* request and prepare threads.  Run, RequestExit and RequestExitAndWait   *)
(* exclude each other by lock_, which they hold while they wait for or     *)
(* join the thread; state_ has a lock of its own, so MainLoop may change   *)
(* it between any two steps of the caller that holds lock_.                *)
(*                                                                         *)
(* calls[c] is what is left of the call caller c is in; its head is the    *)
(* next step.                                                              *)
(***************************************************************************)
EXTENDS Integers, Sequences

CONSTANT Callers   \* threads that call the three methods

VARIABLES
  state_,
  thread,      \* "none" (not joinable), "running", "returned", "finished"
  holder,      \* callers inside lock_ (one at most)
  calls

helperVars == <<state_, thread, holder, calls>>

ThreadHelperState == {"kActive", "kToIdle", "kIdle", "kInactive"}
Methods == {"Run", "RequestExit", "RequestExitAndWait"}

HelperInit ==
  /\ state_ = "kInactive"
  /\ thread = "none"
  /\ holder = {}
  /\ calls = [c \in Callers |-> <<>>]

\* What each method does once it holds lock_ and has called GetState; a step
\* named after a state is ChangeState to it.
Create == <<"create", "kActive", "unlock">>
Join == <<"join", "kInactive">>

Run ==
  [kActive   |-> <<"unlock">>,
   kToIdle   |-> <<"WaitState">> \o Join \o Create,
   kIdle     |-> Join \o Create,
   kInactive |-> Create]

RequestToExit ==
  [kActive   |-> <<"kToIdle", "unlock">>,
   kToIdle   |-> <<"unlock">>,
   kIdle     |-> <<"unlock">>,
   kInactive |-> <<"unlock">>]

RequestExitAndWait ==
  [kActive   |-> <<"kToIdle">> \o Join \o <<"unlock">>,
   kToIdle   |-> <<"WaitState">> \o Join \o <<"unlock">>,
   kIdle     |-> Join \o <<"unlock">>,
   kInactive |-> <<"unlock">>]

Body(method) ==
  CASE method = "Run" -> Run
    [] method = "RequestExit" -> RequestToExit
    [] method = "RequestExitAndWait" -> RequestExitAndWait

\* lock_ acquired and state_ read.
Enter(c) ==
  /\ calls[c] # <<>> /\ Head(calls[c]) \in Methods
  /\ holder = {}
  /\ holder' = holder \cup {c}
  /\ calls' = [calls EXCEPT ![c] = Body(Head(calls[c]))[state_] \o Tail(calls[c])]
  /\ UNCHANGED <<state_, thread>>

At(c, step) == calls[c] # <<>> /\ Head(calls[c]) = step
Done(c) == calls' = [calls EXCEPT ![c] = Tail(calls[c])]

ChangesState(c, s) ==
  /\ At(c, s)
  /\ Done(c)
  /\ state_' = s
  /\ UNCHANGED <<thread, holder>>

WaitState(c) ==
  /\ At(c, "WaitState")
  /\ state_ = "kIdle"
  /\ Done(c)
  /\ UNCHANGED <<state_, thread, holder>>

JoinThread(c) ==
  /\ At(c, "join")
  /\ thread = "finished"
  /\ Done(c)
  /\ thread' = "none"
  /\ UNCHANGED <<state_, holder>>

CreateThread(c) ==
  /\ At(c, "create")
  /\ Done(c)
  /\ thread' = "running"
  /\ UNCHANGED <<state_, holder>>

Unlock(c) ==
  /\ At(c, "unlock")
  /\ Done(c)
  /\ holder' = holder \ {c}
  /\ UNCHANGED <<state_, thread>>

\* ThreadLoop has returned false: the subclasses do so when ExitPending(), the
\* prepare handler also on its own account.
MainLoopEnds ==
  /\ thread = "returned"
  /\ thread' = "finished"
  /\ state_' = "kIdle"
  /\ UNCHANGED <<holder, calls>>

-----------------------------------------------------------------------------
\* thread_ is never assigned while it is joinable (std::terminate) and never
\* joined when it is not (std::system_error).
StdThreadRespected ==
  \A c \in Callers :
    /\ At(c, "create") => thread = "none"
    /\ At(c, "join") => thread # "none"
=============================================================================
