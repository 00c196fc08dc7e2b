--------------------------- MODULE Camera3Monitor ---------------------------
(***************************************************************************)
(* Camera3Monitor (common/cameraadaptor/qmmf_camera3_monitor.cc): every    *)
(* stream and the request handler own a monitor that is IDLE or ACTIVE;    *)
(* a thread folds them into one composite state and reports each change of *)
(* it to the device client (idle_notify_).                                 *)
(*                                                                         *)
(* Two mutexes are at work: lock_ guards monitor_states_, input_lock_      *)
(* guards input_queue_ and monitor_updated_.  The thread holds both from   *)
(* the moment it looks at the states until it has cleared the queue, so    *)
(* pc = "apply" excludes every caller.                                     *)
(***************************************************************************)
EXTENDS Integers, Sequences

CONSTANTS MaxMonitors,   \* bound: ids handed out by next_monitor_
          MaxQueue       \* bound: length of input_queue_

ASSUME BoundsAssumption == MaxMonitors \in Nat /\ MaxQueue \in Nat

VARIABLES
  monitor_states_,   \* KeyedVector id -> state, as a partial function
  next_monitor_,     \* next id to hand out
  input_queue_,      \* transitions asked for and not applied yet
  monitor_updated_,  \* a monitor was added or removed since the last pass
  composite_state_,  \* composite state at the end of the last pass
  updated_states_,   \* composite states still to be reported
  oldState,          \* local of ThreadLoop: composite state so far
  pc,                \* where ThreadLoop is
  exit_pending,      \* ThreadHelper state is kToIdle
  signalling,        \* callers between their lock_ and input_lock_ sections
  notified,          \* history: last value passed to idle_notify_
  requested          \* history: last state asked for by the owner of an id

lockVars == <<monitor_states_, next_monitor_>>
inputVars == <<input_queue_, monitor_updated_>>
threadVars == <<composite_state_, updated_states_, oldState, pc>>
vars == <<lockVars, inputVars, threadVars, exit_pending, signalling, notified,
          requested>>

IDLE == "IDLE"
ACTIVE == "ACTIVE"
State == {IDLE, ACTIVE}

Ids == 0 .. MaxMonitors - 1
NoMonitor == -1              \* Camera3Monitor::INVALID_ID, held after a release
Transition == [id : Ids \cup {NoMonitor}, state : State]

\* Slip: ACTIVE only when every monitor is.
BuildCompositeStateAll(ms) ==
  IF \A i \in DOMAIN ms : ms[i] = ACTIVE THEN ACTIVE ELSE IDLE

BuildCompositeState(ms) ==
  IF \E i \in DOMAIN ms : ms[i] = ACTIVE THEN ACTIVE ELSE IDLE

Init ==
  /\ monitor_states_ = [i \in {} |-> IDLE]
  /\ next_monitor_ = 0
  /\ input_queue_ = <<>>
  /\ monitor_updated_ = FALSE
  /\ composite_state_ = IDLE
  /\ updated_states_ = <<>>
  /\ oldState = IDLE
  /\ pc = "top"
  /\ exit_pending = FALSE
  /\ signalling = 0
  /\ notified = IDLE
  /\ requested = [i \in Ids |-> IDLE]

-----------------------------------------------------------------------------
(* The callers: streams and the request handler.                           *)

NewId == next_monitor_

\* First critical section of AcquireMonitor: a fresh id, born IDLE.
AcquireMonitor ==
  /\ pc # "apply"
  /\ next_monitor_ < MaxMonitors
  /\ monitor_states_' = [i \in DOMAIN monitor_states_ \cup {NewId} |->
                           IF i = NewId THEN IDLE ELSE monitor_states_[i]]
  /\ next_monitor_' = next_monitor_ + 1
  /\ signalling' = signalling + 1
  /\ UNCHANGED <<inputVars, threadVars, exit_pending, notified, requested>>

\* First critical section of ReleaseMonitor; transitions already queued for
\* the id stay in the queue.
ReleaseMonitor(id) ==
  /\ pc # "apply"
  /\ id \in DOMAIN monitor_states_
  /\ monitor_states_' = [i \in DOMAIN monitor_states_ \ {id} |->
                           monitor_states_[i]]
  /\ signalling' = signalling + 1
  /\ UNCHANGED <<next_monitor_, inputVars, threadVars, exit_pending, notified,
                 requested>>

\* Slip: the condition variable is signalled, the flag is forgotten.
SignalUpdateNoFlag ==
  /\ pc # "apply"
  /\ signalling > 0
  /\ signalling' = signalling - 1
  /\ UNCHANGED <<lockVars, inputVars, threadVars, exit_pending, notified,
                 requested>>

\* Second critical section of both.
SignalUpdate ==
  /\ pc # "apply"
  /\ signalling > 0
  /\ signalling' = signalling - 1
  /\ monitor_updated_' = TRUE
  /\ UNCHANGED <<lockVars, input_queue_, threadVars, exit_pending, notified,
                 requested>>

\* An owner asks for a state with the id it holds: a live one, or the
\* NoMonitor left in the stream by an aborted configuration.
ChangeState(id, state) ==
  /\ pc # "apply"
  /\ id \in DOMAIN monitor_states_ \cup {NoMonitor}
  /\ Len(input_queue_) < MaxQueue
  /\ input_queue_' = Append(input_queue_, [id |-> id, state |-> state])
  /\ requested' = [i \in Ids |-> IF i = id THEN state ELSE requested[i]]
  /\ UNCHANGED <<lockVars, monitor_updated_, threadVars, exit_pending,
                 signalling, notified>>

RequestExit ==
  /\ ~exit_pending
  /\ exit_pending' = TRUE
  /\ UNCHANGED <<lockVars, inputVars, threadVars, signalling, notified,
                 requested>>

-----------------------------------------------------------------------------
(* ThreadLoop, called again and again by ThreadHelper::MainLoop.           *)

\* Slip: every composite state seen is reported.
ReportAlways(now, before) == Append(updated_states_, now)

Report(now, before) ==
  IF now # before THEN Append(updated_states_, now) ELSE updated_states_

\* Both locks taken: the composite state may already differ from the last
\* pass, because monitors came and went.
StartPass ==
  /\ pc' = "apply"
  /\ oldState' = BuildCompositeState(monitor_states_)
  /\ updated_states_' = Report(oldState', composite_state_)
  /\ UNCHANGED <<lockVars, inputVars, composite_state_, exit_pending,
                 signalling, notified, requested>>

\* The condition of the while loop.
HasInput == input_queue_ # <<>> \/ monitor_updated_

Proceed == pc = "top" /\ HasInput /\ StartPass

\* A step of the thread from one place to another that touches nothing else.
Goto(from, to) ==
  /\ pc = from
  /\ pc' = to
  /\ UNCHANGED <<lockVars, inputVars, composite_state_, updated_states_,
                 oldState, exit_pending, signalling, notified, requested>>

Sleep == ~HasInput /\ Goto("top", "wait")

\* The wait ends and the exit request is looked at before the queue is.
Exit == exit_pending /\ Goto("wait", "exited")

\* The wait ends by a signal (or spuriously): the condition is evaluated again.
Woken == ~exit_pending /\ Goto("wait", "top")

\* The wait ends by WAIT_TIMEOUT: a pass is made whether or not there is input.
TimedOut == pc = "wait" /\ ~exit_pending /\ StartPass

Drained == input_queue_ = <<>>

\* One round of the for loop over input_queue_; an unknown id is skipped.
ApplyTransition ==
  /\ pc = "apply"
  /\ ~Drained
  /\ input_queue_' = Tail(input_queue_)
  /\ LET t == Head(input_queue_)
     IN  IF t.id \in DOMAIN monitor_states_
         THEN /\ monitor_states_' = [monitor_states_ EXCEPT ![t.id] = t.state]
              /\ oldState' = BuildCompositeState(monitor_states_')
              /\ updated_states_' = Report(oldState', oldState)
         ELSE UNCHANGED <<monitor_states_, updated_states_, oldState>>
  /\ UNCHANGED <<next_monitor_, monitor_updated_, composite_state_, pc,
                 exit_pending, signalling, notified, requested>>

\* End of the pass: both locks are released.
FinishPass ==
  /\ pc = "apply"
  /\ Drained
  /\ input_queue_' = <<>>
  /\ monitor_updated_' = FALSE
  /\ composite_state_' = oldState
  /\ pc' = "notify"
  /\ UNCHANGED <<lockVars, updated_states_, oldState, exit_pending, signalling,
                 notified, requested>>

\* One call of idle_notify_, no lock held.
Notify ==
  /\ pc = "notify"
  /\ updated_states_ # <<>>
  /\ notified' = Head(updated_states_)
  /\ updated_states_' = Tail(updated_states_)
  /\ UNCHANGED <<lockVars, inputVars, composite_state_, oldState, pc,
                 exit_pending, signalling, requested>>

\* updated_states_.clear(), return true: MainLoop calls ThreadLoop again.
Return == updated_states_ = <<>> /\ Goto("notify", "top")

ThreadLoop ==
  \/ Proceed \/ Sleep \/ Exit \/ Woken \/ TimedOut
  \/ ApplyTransition \/ FinishPass \/ Notify \/ Return

Next ==
  \/ AcquireMonitor
  \/ \E id \in Ids : ReleaseMonitor(id)
  \/ SignalUpdate
  \/ \E id \in Ids \cup {NoMonitor}, s \in State : ChangeState(id, s)
  \/ RequestExit
  \/ ThreadLoop

Spec == Init /\ [][Next]_vars

\* The scheduler runs the monitor thread and lets a caller that is between
\* its two critical sections take the second one.
FairSpec == Spec /\ WF_vars(ThreadLoop) /\ WF_vars(SignalUpdate)

-----------------------------------------------------------------------------
\* The variables keep their C++ types; ids in use were handed out before.
TypeOK ==
  /\ next_monitor_ \in 0 .. MaxMonitors
  /\ DOMAIN monitor_states_ \subseteq 0 .. next_monitor_ - 1
  /\ monitor_states_ \in [DOMAIN monitor_states_ -> State]
  /\ input_queue_ \in Seq(Transition)
  /\ monitor_updated_ \in BOOLEAN
  /\ composite_state_ \in State
  /\ updated_states_ \in Seq(State)
  /\ oldState \in State
  /\ pc \in {"top", "wait", "apply", "notify", "exited"}
  /\ exit_pending \in BOOLEAN
  /\ signalling \in Nat
  /\ notified \in State
  /\ requested \in [Ids -> State]

\* The client of idle_notify_ never hears the same composite state twice in a
\* row: ThreadLoop reports changes only, across passes and within one.
NoRepeatedNotification ==
  [][ Len(updated_states_') < Len(updated_states_)
        => Head(updated_states_) # notified ]_vars

\* The composite state as far as ThreadLoop has followed it.
Followed == IF pc = "apply" THEN oldState ELSE composite_state_

Reporter ==
  INSTANCE StateReporter WITH States <- State, actual <- Followed, told <- notified,
                              backlog <- updated_states_

\* Camera3Monitor implements StateReporter: through passes, queued transitions and
\* monitors that come and go, idle_notify_ is called for every change of the composite
\* state ThreadLoop sees, in order, once each, and for nothing else.
ReportsEveryChange == Reporter!Spec

\* The thread never goes to sleep on a change it has not reported: when it
\* waits with nothing queued and no caller is about to raise monitor_updated_,
\* the last notification is the composite of the monitors as they are now.
SleepsOnlyWhenReported ==
  pc = "wait" /\ ~HasInput /\ signalling = 0
    => notified = BuildCompositeState(monitor_states_)

\* No transition is lost or overtaken: the last request of a live monitor's
\* owner is in the queue with nothing for that id behind it, or has been
\* applied and nothing for that id is queued.
LastRequestWins ==
  \A id \in DOMAIN monitor_states_ :
    \/ /\ monitor_states_[id] = requested[id]
       /\ \A i \in 1 .. Len(input_queue_) : input_queue_[i].id # id
    \/ \E i \in 1 .. Len(input_queue_) :
         /\ input_queue_[i] = [id |-> id, state |-> requested[id]]
         /\ \A j \in i + 1 .. Len(input_queue_) : input_queue_[j].id # id

\* What the owners have asked for, as one state.
RequestedComposite ==
  IF \E i \in DOMAIN monitor_states_ : requested[i] = ACTIVE THEN ACTIVE ELSE IDLE

\* When the owners settle on a composite state and no exit is requested, the
\* client is eventually told that state and nothing else afterwards.
EventuallyReported ==
  \A s \in State :
    <>[](RequestedComposite = s /\ ~exit_pending) => <>[](notified = s)
=============================================================================
