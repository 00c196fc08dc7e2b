------------------------ MODULE Camera3Threads_proofs ------------------------
(***************************************************************************)
(* Proofs about the two threads of the device client that need no HAL:     *)
(* Camera3Monitor, for any number of monitors and any queue length, and    *)
(* Camera3PrepareHandler with its ThreadHelper, for any number of streams  *)
(* and of buffers.                                                         *)
(***************************************************************************)
EXTENDS Camera3Monitor, Camera3PrepareHandler, SequenceTheorems, TLAPS

(* Camera3Monitor.                                                         *)

\* The state the client will know once updated_states_ has been delivered.
LastReported ==
  IF updated_states_ = <<>> THEN notified
                            ELSE updated_states_[Len(updated_states_)]

\* updated_states_ continues the notifications without repeating a state.
Alternates ==
  /\ updated_states_ # <<>> => updated_states_[1] # notified
  /\ \A i \in 1 .. Len(updated_states_) - 1 :
       updated_states_[i] # updated_states_[i + 1]

\* How far the thread's copies of the composite state have got.
Progress ==
  /\ pc \in {"top", "wait", "exited"} => updated_states_ = <<>>
  /\ pc = "apply" => /\ LastReported = oldState
                     /\ oldState = BuildCompositeState(monitor_states_)
  /\ pc # "apply" => LastReported = composite_state_
  /\ pc # "apply" /\ ~monitor_updated_ /\ signalling = 0
       => composite_state_ = BuildCompositeState(monitor_states_)

\* Ids not handed out yet have left no trace.
FreshIds ==
  /\ \A id \in Ids : id >= next_monitor_ => requested[id] = IDLE
  /\ \A i \in 1 .. Len(input_queue_) : input_queue_[i].id < next_monitor_

IInv == TypeOK /\ Alternates /\ Progress
RInv == TypeOK /\ FreshIds /\ LastRequestWins

\* The composite state of any set of monitors is IDLE or ACTIVE.
LEMMA CompositeType == \A ms : BuildCompositeState(ms) \in State
BY DEF BuildCompositeState, State, IDLE, ACTIVE

\* Initially nothing is registered, queued or reported.
LEMMA InitTypeOK == Init => TypeOK
<1> SUFFICES ASSUME Init PROVE TypeOK
  OBVIOUS
<1>1. DOMAIN monitor_states_ = {}
  BY DEF Init
<1>2. monitor_states_ \in [DOMAIN monitor_states_ -> State]
  BY <1>1 DEF Init
<1>3. <<>> \in Seq(Transition) /\ <<>> \in Seq(State)
  OBVIOUS
<1>4. DOMAIN monitor_states_ \subseteq 0 .. next_monitor_ - 1
  BY <1>1
<1>5. requested \in [Ids -> State]
  BY DEF Init, State
<1>6. next_monitor_ \in 0 .. MaxMonitors /\ signalling \in Nat
  BY BoundsAssumption DEF Init
<1> QED
  BY <1>2, <1>3, <1>4, <1>5, <1>6 DEF Init, TypeOK, State

\* Every step of the callers and of ThreadLoop preserves the types.
LEMMA TypeOKStep == TypeOK /\ [Next]_vars => TypeOK'
<1> SUFFICES ASSUME TypeOK, [Next]_vars PROVE TypeOK'
  OBVIOUS
<1> USE BoundsAssumption DEF TypeOK, lockVars, inputVars, threadVars
<1>1. CASE AcquireMonitor
  BY <1>1 DEF AcquireMonitor, NewId, State, IDLE
<1>2. ASSUME NEW id \in Ids, ReleaseMonitor(id) PROVE TypeOK'
  BY <1>2 DEF ReleaseMonitor
<1>3. CASE SignalUpdate
  BY <1>3 DEF SignalUpdate
<1>4. ASSUME NEW id \in Ids \cup {NoMonitor}, NEW s \in State, ChangeState(id, s)
      PROVE TypeOK'
  <2>1. [id |-> id, state |-> s] \in Transition
    BY DEF Transition
  <2>2. input_queue_' \in Seq(Transition)
    BY <1>4, <2>1 DEF ChangeState
  <2>3. requested' \in [Ids -> State]
    BY <1>4 DEF ChangeState
  <2> QED
    BY <1>4, <2>2, <2>3 DEF ChangeState
<1>5. CASE RequestExit
  BY <1>5 DEF RequestExit
<1>6. CASE StartPass
  BY <1>6, CompositeType DEF StartPass, Report
<1>7. ASSUME NEW p, NEW q \in {"top", "wait", "apply", "notify", "exited"},
             Goto(p, q)
      PROVE TypeOK'
  BY <1>7 DEF Goto
<1>8. CASE ApplyTransition
  <2>1. Head(input_queue_) \in Transition /\ input_queue_' \in Seq(Transition)
    BY <1>8 DEF ApplyTransition, Drained
  <2>2. CASE Head(input_queue_).id \in DOMAIN monitor_states_
    <3>1. monitor_states_' = [monitor_states_ EXCEPT
                  ![Head(input_queue_).id] = Head(input_queue_).state]
      BY <1>8, <2>2 DEF ApplyTransition
    <3>2. /\ DOMAIN monitor_states_' = DOMAIN monitor_states_
          /\ monitor_states_' \in [DOMAIN monitor_states_ -> State]
      BY <2>1, <3>1 DEF Transition
    <3>3. oldState' \in State /\ updated_states_' \in Seq(State)
      <4>1. /\ oldState' = BuildCompositeState(monitor_states_')
            /\ updated_states_' = Report(oldState', oldState)
        BY <1>8, <2>2 DEF ApplyTransition
      <4> QED
        BY <4>1, CompositeType DEF Report
    <3> QED
      BY <1>8, <2>1, <3>2, <3>3 DEF ApplyTransition
  <2>3. CASE Head(input_queue_).id \notin DOMAIN monitor_states_
    BY <1>8, <2>1, <2>3 DEF ApplyTransition
  <2> QED
    BY <2>2, <2>3
<1>9. CASE FinishPass
  <2>1. <<>> \in Seq(Transition)
    OBVIOUS
  <2> QED
    BY <1>9, <2>1 DEF FinishPass
<1>10. CASE Notify
  BY <1>10 DEF Notify
<1>11. CASE UNCHANGED vars
  BY <1>11 DEF vars
<1> QED
  BY <1>1, <1>2, <1>3, <1>4, <1>5, <1>6, <1>7, <1>8, <1>9, <1>10, <1>11
     DEF Next, ThreadLoop, Proceed, Sleep, Exit, Woken, TimedOut, Return

\* Type correctness of the monitor, for every bound.
THEOREM TypeCorrect == Spec => []TypeOK
BY InitTypeOK, TypeOKStep, PTL DEF Spec

-----------------------------------------------------------------------------
\* Reporting only changes keeps updated_states_ alternating, and its end is the
\* composite state just computed.
LEMMA ReportKeepsChain ==
  ASSUME TypeOK, Alternates, NEW now \in State, NEW before \in State,
         LastReported = before, notified' = notified,
         updated_states_' = Report(now, before)
  PROVE  Alternates' /\ LastReported' = now
<1>1. CASE now = before
  BY <1>1 DEF Report, Alternates, LastReported
<1>2. CASE now # before
  <2>1. updated_states_' = Append(updated_states_, now)
    BY <1>2 DEF Report
  <2>2. /\ Len(updated_states_') = Len(updated_states_) + 1
        /\ \A i \in 1 .. Len(updated_states_) :
             updated_states_'[i] = updated_states_[i]
        /\ updated_states_'[Len(updated_states_) + 1] = now
        /\ updated_states_' # <<>>
        /\ updated_states_ \in Seq(State)
        /\ updated_states_ = <<>> <=> Len(updated_states_) = 0
    BY <2>1 DEF TypeOK
  <2>3. LastReported' = now
    BY <2>2 DEF LastReported
  <2>4. updated_states_'[1] # notified'
    BY <2>2, <1>2 DEF Alternates, LastReported
  <2>5. \A i \in 1 .. Len(updated_states_') - 1 :
          updated_states_'[i] # updated_states_'[i + 1]
    BY <2>2, <1>2 DEF Alternates, LastReported
  <2> QED
    BY <2>3, <2>4, <2>5 DEF Alternates
<1> QED
  BY <1>1, <1>2

\* The chain and the thread's copies are right initially.
LEMMA InitIInv == Init => Alternates /\ Progress
<1> SUFFICES ASSUME Init PROVE Alternates /\ Progress
  OBVIOUS
<1>1. updated_states_ = <<>> /\ Len(updated_states_) = 0
  BY DEF Init
<1>2. BuildCompositeState(monitor_states_) = IDLE
  BY DEF Init, BuildCompositeState
<1> QED
  BY <1>1, <1>2 DEF Init, Alternates, Progress, LastReported

\* The inductive step for the chain of notifications.
LEMMA IInvStep == IInv /\ [Next]_vars => Alternates' /\ Progress'
<1> SUFFICES ASSUME IInv, [Next]_vars PROVE Alternates' /\ Progress'
  OBVIOUS
<1> USE DEF IInv, lockVars, inputVars, threadVars
<1>1. CASE AcquireMonitor
  BY <1>1 DEF AcquireMonitor, TypeOK, Alternates, Progress, LastReported
<1>2. ASSUME NEW id \in Ids, ReleaseMonitor(id) PROVE Alternates' /\ Progress'
  BY <1>2 DEF ReleaseMonitor, TypeOK, Alternates, Progress, LastReported
<1>3. CASE SignalUpdate
  BY <1>3 DEF SignalUpdate, TypeOK, Alternates, Progress, LastReported
<1>4. ASSUME NEW id \in Ids \cup {NoMonitor}, NEW s \in State, ChangeState(id, s)
      PROVE Alternates' /\ Progress'
  BY <1>4 DEF ChangeState, Alternates, Progress, LastReported
<1>5. CASE RequestExit
  BY <1>5 DEF RequestExit, Alternates, Progress, LastReported
<1>6. CASE pc # "apply" /\ StartPass
  <2>1. /\ pc' = "apply"
        /\ oldState' = BuildCompositeState(monitor_states_')
        /\ updated_states_' = Report(oldState', composite_state_)
        /\ notified' = notified
    BY <1>6 DEF StartPass
  <2>2. oldState' \in State /\ composite_state_ \in State
    BY <2>1, CompositeType DEF TypeOK
  <2>3. LastReported = composite_state_
    BY <1>6 DEF Progress
  <2>4. Alternates' /\ LastReported' = oldState'
    BY <2>1, <2>2, <2>3, ReportKeepsChain
  <2> QED
    BY <2>1, <2>4 DEF Progress
<1>7. CASE Sleep \/ Exit \/ Woken \/ Return
  BY <1>7 DEF Sleep, Exit, Woken, Return, Goto, Alternates, Progress, LastReported
<1>8. CASE ApplyTransition
  <2>1. CASE Head(input_queue_).id \in DOMAIN monitor_states_
    <3>1. /\ pc = "apply" /\ pc' = "apply"
          /\ oldState' = BuildCompositeState(monitor_states_')
          /\ updated_states_' = Report(oldState', oldState)
          /\ notified' = notified
      BY <1>8, <2>1 DEF ApplyTransition
    <3>2. oldState' \in State /\ oldState \in State
      BY <3>1, CompositeType DEF TypeOK
    <3>3. LastReported = oldState
      BY <3>1 DEF Progress
    <3>4. Alternates' /\ LastReported' = oldState'
      BY <3>1, <3>2, <3>3, ReportKeepsChain
    <3> QED
      BY <3>1, <3>4 DEF Progress
  <2>2. CASE Head(input_queue_).id \notin DOMAIN monitor_states_
    BY <1>8, <2>2 DEF ApplyTransition, Alternates, Progress, LastReported
  <2> QED
    BY <2>1, <2>2
<1>9. CASE FinishPass
  BY <1>9 DEF FinishPass, Alternates, Progress, LastReported
<1>10. CASE Notify
  <2>1. /\ updated_states_' = Tail(updated_states_)
        /\ updated_states_ # <<>> /\ notified' = updated_states_[1]
        /\ pc = "notify" /\ pc' = pc /\ composite_state_' = composite_state_
        /\ UNCHANGED <<monitor_updated_, signalling, monitor_states_>>
    BY <1>10 DEF Notify
  <2>2. /\ Len(updated_states_') = Len(updated_states_) - 1
        /\ Len(updated_states_) \in Nat \ {0}
        /\ \A i \in 1 .. Len(updated_states_') :
             updated_states_'[i] = updated_states_[i + 1]
    BY <2>1 DEF TypeOK
  <2>3. updated_states_' \in Seq(State)
    BY <2>1 DEF TypeOK
  <2>4. updated_states_' = <<>> <=> Len(updated_states_') = 0
    BY <2>3
  <2>5. Alternates'
    BY <2>1, <2>2, <2>4 DEF Alternates
  <2>6. LastReported' = LastReported
    BY <2>1, <2>2, <2>4 DEF LastReported
  <2> QED
    BY <2>1, <2>5, <2>6 DEF Progress
<1>11. CASE UNCHANGED vars
  BY <1>11 DEF vars, Alternates, Progress, LastReported
<1> QED
  BY <1>1, <1>2, <1>3, <1>4, <1>5, <1>6, <1>7, <1>8, <1>9, <1>10, <1>11
     DEF Next, ThreadLoop, Proceed, TimedOut

\* Spec keeps the inductive invariant.
LEMMA IInvariant == Spec => []IInv
BY InitTypeOK, TypeOKStep, InitIInv, IInvStep, PTL DEF Spec, IInv

\* The thread never sleeps on an unreported change, however many monitors.
THEOREM NoMissedReport == Spec => []SleepsOnlyWhenReported
<1>1. IInv => SleepsOnlyWhenReported
  BY DEF IInv, Progress, LastReported, SleepsOnlyWhenReported, HasInput
<1> QED
  BY <1>1, IInvariant, PTL

\* idle_notify_ is never called twice in a row with the same state.
THEOREM NotificationsAlternate == Spec => NoRepeatedNotification
<1> DEFINE Differs == Len(updated_states_') < Len(updated_states_)
                        => Head(updated_states_) # notified
<1>1. IInv /\ [Next]_vars => [Differs]_vars
  <2> SUFFICES ASSUME IInv, [Next]_vars, Len(updated_states_') < Len(updated_states_)
               PROVE  Head(updated_states_) # notified
    BY DEF vars
  <2>1. updated_states_ \in Seq(State) /\ updated_states_' \in Seq(State)
    BY TypeOKStep DEF IInv, TypeOK
  <2>2. updated_states_ # <<>>
    BY <2>1
  <2> QED
    BY <2>1, <2>2 DEF IInv, Alternates
<1> QED
  BY <1>1, IInvariant, PTL DEF Spec, NoRepeatedNotification

-----------------------------------------------------------------------------
\* No request is lost or overtaken before any was made.
LEMMA InitRInv == Init => FreshIds /\ LastRequestWins
<1> SUFFICES ASSUME Init PROVE FreshIds /\ LastRequestWins
  OBVIOUS
<1>1. DOMAIN monitor_states_ = {} /\ Len(input_queue_) = 0
  BY DEF Init
<1> QED
  BY <1>1 DEF Init, FreshIds, LastRequestWins

\* The inductive step for the requests: an id that is handed out has never
\* been asked for anything, and the queue is applied from its front.
LEMMA RInvStep == RInv /\ [Next]_vars => FreshIds' /\ LastRequestWins'
<1> SUFFICES ASSUME RInv, [Next]_vars PROVE FreshIds' /\ LastRequestWins'
  OBVIOUS
<1> USE BoundsAssumption DEF RInv, lockVars, inputVars, threadVars
<1>1. CASE AcquireMonitor
  <2>1. /\ DOMAIN monitor_states_' = DOMAIN monitor_states_ \cup {next_monitor_}
        /\ next_monitor_ \in Ids /\ next_monitor_' = next_monitor_ + 1
        /\ monitor_states_'[next_monitor_] = IDLE
        /\ \A i \in DOMAIN monitor_states_ : monitor_states_'[i] = monitor_states_[i]
        /\ input_queue_' = input_queue_ /\ requested' = requested
    BY <1>1 DEF AcquireMonitor, NewId, TypeOK, Ids
  <2>2. \A i \in 1 .. Len(input_queue_) : input_queue_[i].id \in Int
    <3>1. \A i \in 1 .. Len(input_queue_) : input_queue_[i] \in Transition
      BY DEF TypeOK
    <3> QED
      BY <3>1 DEF Transition, Ids, NoMonitor
  <2>3. FreshIds'
    BY <2>1, <2>2 DEF FreshIds, TypeOK, Ids
  <2>4. \A i \in 1 .. Len(input_queue_) : input_queue_[i].id # next_monitor_
    BY <2>2 DEF FreshIds, TypeOK
  <2>5. next_monitor_ \notin DOMAIN monitor_states_ /\ requested[next_monitor_] = IDLE
    BY <2>1 DEF FreshIds, TypeOK
  <2>6. LastRequestWins'
    BY <2>1, <2>4, <2>5 DEF LastRequestWins
  <2> QED
    BY <2>3, <2>6
<1>2. ASSUME NEW id \in Ids, ReleaseMonitor(id) PROVE FreshIds' /\ LastRequestWins'
  BY <1>2 DEF ReleaseMonitor, FreshIds, LastRequestWins
<1>3. ASSUME NEW id \in Ids \cup {NoMonitor}, NEW s \in State, ChangeState(id, s)
      PROVE FreshIds' /\ LastRequestWins'
  <2> DEFINE t == [id |-> id, state |-> s]
  <2>1. /\ input_queue_ \in Seq(Transition)
        /\ input_queue_' = Append(input_queue_, t)
        /\ requested' = [i \in Ids |-> IF i = id THEN s ELSE requested[i]]
        /\ id < next_monitor_ /\ next_monitor_' = next_monitor_
        /\ monitor_states_' = monitor_states_
    BY <1>3 DEF ChangeState, TypeOK, NoMonitor
  <2>2. /\ Len(input_queue_') = Len(input_queue_) + 1
        /\ \A i \in 1 .. Len(input_queue_) : input_queue_'[i] = input_queue_[i]
        /\ input_queue_'[Len(input_queue_) + 1] = t
        /\ Len(input_queue_) \in Nat
    BY <2>1
  <2>3. FreshIds'
    BY <2>1, <2>2 DEF FreshIds, TypeOK, Ids
  <2>4. ASSUME NEW k \in DOMAIN monitor_states_
        PROVE  \/ /\ monitor_states_[k] = requested'[k]
                  /\ \A i \in 1 .. Len(input_queue_') : input_queue_'[i].id # k
               \/ \E i \in 1 .. Len(input_queue_') :
                    /\ input_queue_'[i] = [id |-> k, state |-> requested'[k]]
                    /\ \A j \in i + 1 .. Len(input_queue_') : input_queue_'[j].id # k
    <3>1. k \in Ids
      BY DEF TypeOK, Ids
    <3>2. CASE k = id
      <4>1. input_queue_'[Len(input_queue_) + 1] = [id |-> k, state |-> requested'[k]]
        BY <2>1, <2>2, <3>1, <3>2
      <4> QED
        BY <2>2, <4>1
    <3>3. CASE k # id
      <4>1. requested'[k] = requested[k]
        BY <2>1, <3>1, <3>3
      <4>2. CASE /\ monitor_states_[k] = requested[k]
                 /\ \A i \in 1 .. Len(input_queue_) : input_queue_[i].id # k
        BY <2>2, <3>3, <4>1, <4>2
      <4>3. ASSUME NEW i \in 1 .. Len(input_queue_),
                   input_queue_[i] = [id |-> k, state |-> requested[k]],
                   \A j \in i + 1 .. Len(input_queue_) : input_queue_[j].id # k
            PROVE  /\ i \in 1 .. Len(input_queue_')
                   /\ input_queue_'[i] = [id |-> k, state |-> requested'[k]]
                   /\ \A j \in i + 1 .. Len(input_queue_') : input_queue_'[j].id # k
        BY <2>2, <3>3, <4>1, <4>3
      <4> QED
        BY <4>2, <4>3 DEF LastRequestWins
    <3> QED
      BY <3>2, <3>3
  <2> QED
    BY <2>1, <2>3, <2>4 DEF LastRequestWins
<1>4. CASE ApplyTransition
  <2> DEFINE t == Head(input_queue_)
  <2>1. /\ input_queue_ \in Seq(Transition) /\ input_queue_ # <<>>
        /\ input_queue_' = Tail(input_queue_)
        /\ next_monitor_' = next_monitor_ /\ requested' = requested
    BY <1>4 DEF ApplyTransition, Drained, TypeOK
  <2>2. /\ Len(input_queue_') = Len(input_queue_) - 1
        /\ Len(input_queue_) \in Nat \ {0}
        /\ \A i \in 1 .. Len(input_queue_') : input_queue_'[i] = input_queue_[i + 1]
        /\ t = input_queue_[1]
    BY <2>1
  <2>3. /\ DOMAIN monitor_states_' = DOMAIN monitor_states_
        /\ \A k \in DOMAIN monitor_states_ :
             monitor_states_'[k] = IF k = t.id THEN t.state ELSE monitor_states_[k]
    BY <1>4 DEF ApplyTransition, TypeOK
  <2>4. FreshIds'
    BY <2>1, <2>2 DEF FreshIds
  <2>5. ASSUME NEW k \in DOMAIN monitor_states_
        PROVE  \/ /\ monitor_states_'[k] = requested[k]
                  /\ \A i \in 1 .. Len(input_queue_') : input_queue_'[i].id # k
               \/ \E i \in 1 .. Len(input_queue_') :
                    /\ input_queue_'[i] = [id |-> k, state |-> requested[k]]
                    /\ \A j \in i + 1 .. Len(input_queue_') : input_queue_'[j].id # k
    <3>1. CASE /\ monitor_states_[k] = requested[k]
               /\ \A i \in 1 .. Len(input_queue_) : input_queue_[i].id # k
      <4>1. monitor_states_'[k] = requested[k]
        BY <2>2, <2>3, <3>1
      <4>2. \A i \in 1 .. Len(input_queue_') : input_queue_'[i].id # k
        BY <2>2, <3>1
      <4> QED
        BY <4>1, <4>2
    <3>2. ASSUME NEW i \in 1 .. Len(input_queue_),
                 input_queue_[i] = [id |-> k, state |-> requested[k]],
                 \A j \in i + 1 .. Len(input_queue_) : input_queue_[j].id # k
          PROVE  \/ /\ monitor_states_'[k] = requested[k]
                    /\ \A n \in 1 .. Len(input_queue_') : input_queue_'[n].id # k
                 \/ /\ i - 1 \in 1 .. Len(input_queue_')
                    /\ input_queue_'[i - 1] = [id |-> k, state |-> requested[k]]
                    /\ \A j \in i .. Len(input_queue_') : input_queue_'[j].id # k
      <4>1. CASE i = 1
        <5>1. monitor_states_'[k] = requested[k]
          BY <2>2, <2>3, <3>2, <4>1
        <5>2. \A n \in 1 .. Len(input_queue_') : input_queue_'[n].id # k
          BY <2>2, <3>2, <4>1
        <5> QED
          BY <5>1, <5>2
      <4>2. CASE i # 1
        BY <2>2, <3>2, <4>2
      <4> QED
        BY <4>1, <4>2
    <3>3. CASE \E i \in 1 .. Len(input_queue_) :
                 /\ input_queue_[i] = [id |-> k, state |-> requested[k]]
                 /\ \A j \in i + 1 .. Len(input_queue_) : input_queue_[j].id # k
      BY <3>2, <3>3, <2>2
    <3> QED
      BY <3>1, <3>3 DEF LastRequestWins
  <2> QED
    BY <2>1, <2>3, <2>4, <2>5 DEF LastRequestWins
<1>5. CASE FinishPass
  BY <1>5 DEF FinishPass, Drained, FreshIds, LastRequestWins
<1>6. CASE UNCHANGED <<monitor_states_, next_monitor_, input_queue_, requested>>
  BY <1>6 DEF FreshIds, LastRequestWins
<1> QED
  BY <1>1, <1>2, <1>3, <1>4, <1>5, <1>6
     DEF Next, ThreadLoop, SignalUpdate, RequestExit, Proceed, Sleep, Exit, Woken,
         TimedOut, Return, Notify, StartPass, Goto, vars

\* The last state a monitor's owner asked for is what will be, or is, in force.
THEOREM RequestsApplyInOrder == Spec => []LastRequestWins
<1>1. Init => RInv
  BY InitTypeOK, InitRInv DEF RInv
<1>2. RInv /\ [Next]_vars => RInv'
  BY TypeOKStep, RInvStep DEF RInv
<1>3. RInv => LastRequestWins
  BY DEF RInv
<1> QED
  BY <1>1, <1>2, <1>3, PTL DEF Spec
-----------------------------------------------------------------------------
\* One pass over the monitors, or one transition of it, is a change that is put in
\* the backlog or none at all.
LEMMA FollowStep ==
  ASSUME TypeOK, TypeOK', UNCHANGED notified,
         updated_states_' = Report(Followed', Followed)
  PROVE  [Reporter!Next]_<<Followed, notified, updated_states_>>
<1>1. Followed' \in State
  BY DEF TypeOK, Followed
<1>2. CASE Followed' = Followed
  BY <1>2 DEF Report
<1>3. CASE Followed' # Followed
  <2>1. Reporter!Change(Followed')
    BY <1>3 DEF Report, Reporter!Change
  <2> QED
    BY <1>1, <2>1 DEF Reporter!Next
<1> QED
  BY <1>2, <1>3

\* The monitor implements StateReporter: every call of idle_notify_ tells the oldest
\* change not told yet, and every change ThreadLoop sees is told.
THEOREM MonitorReportsEveryChange == Spec => ReportsEveryChange
<1>1. Init => Reporter!Init
  BY DEF Init, Reporter!Init, Followed, State
<1>2. TypeOK /\ TypeOK' /\ [Next]_vars
        => [Reporter!Next]_<<Followed, notified, updated_states_>>
  <2> SUFFICES ASSUME TypeOK, TypeOK', [Next]_vars
               PROVE  [Reporter!Next]_<<Followed, notified, updated_states_>>
    OBVIOUS
  <2>1. CASE Proceed \/ TimedOut
    <3>1. Followed = composite_state_ /\ Followed' = oldState'
      BY <2>1 DEF Proceed, TimedOut, StartPass, Followed
    <3>2. UNCHANGED notified /\ updated_states_' = Report(Followed', Followed)
      BY <2>1, <3>1 DEF Proceed, TimedOut, StartPass
    <3> QED
      BY <3>2, FollowStep
  <2>2. CASE ApplyTransition
    <3>1. Followed = oldState /\ Followed' = oldState'
      BY <2>2 DEF ApplyTransition, Followed
    <3>2. UNCHANGED notified /\ updated_states_' = Report(Followed', Followed)
      BY <2>2, <3>1 DEF ApplyTransition, Report
    <3> QED
      BY <3>2, FollowStep
  <2>3. CASE FinishPass
    BY <2>3 DEF FinishPass, Followed
  <2>4. CASE Notify
    BY <2>4 DEF Notify, Followed, Reporter!Next, Reporter!Tell
  <2>5. CASE Sleep \/ Exit \/ Woken \/ Return
    BY <2>5 DEF Sleep, Exit, Woken, Return, Goto, Followed
  <2>6. CASE UNCHANGED <<pc, oldState, composite_state_, notified, updated_states_>>
    BY <2>6 DEF Followed
  <2> QED
    BY <2>1, <2>2, <2>3, <2>4, <2>5, <2>6
       DEF Next, ThreadLoop, AcquireMonitor, ReleaseMonitor, SignalUpdate, ChangeState,
           RequestExit, threadVars, vars
<1> QED
  BY <1>1, <1>2, TypeCorrect, PTL DEF Spec, ReportsEveryChange, Reporter!Spec

-----------------------------------------------------------------------------
(* Camera3PrepareHandler.                                                  *)

\* What is left of a call of Prepare that starts the thread again, from its beginning
\* to its end: RequestExitAndWait, Run and the rest of Prepare.
Ask == <<"RequestExitAndWait", "Run", "started">>
Tell == <<"kToIdle", "join", "kInactive", "unlock", "Run", "started">>
Joins == <<"join", "kInactive", "unlock", "Run", "started">>
Joined == <<"kInactive", "unlock", "Run", "started">>
Release == <<"unlock", "Run", "started">>
Runs == <<"Run", "started">>
Creates == <<"create", "kActive", "unlock", "started">>
Created == <<"kActive", "unlock", "started">>
Leave == <<"unlock", "started">>
Starts == <<"started">>

\* And of the two calls by which the handler is destroyed.
Exits == <<"RequestExit", "RequestExitAndWait">>
ExitTell == <<"kToIdle", "unlock", "RequestExitAndWait">>
ExitLeave == <<"unlock", "RequestExitAndWait">>
Await == <<"RequestExitAndWait">>
AwaitIdle == <<"WaitState", "join", "kInactive", "unlock">>
AwaitJoin == <<"join", "kInactive", "unlock">>
AwaitJoined == <<"kInactive", "unlock">>
AwaitLeave == <<"unlock">>

\* Between calls state_ says where the thread is, but for its way from ThreadLoop to
\* the end of MainLoop.
Settled ==
  \/ thread = "none" /\ state_ = "kInactive"
  \/ thread \in {"running", "returned"} /\ state_ = "kActive"
  \/ thread = "finished" /\ state_ = "kIdle"

\* With p left of Prepare the thread is out of ThreadLoop, then joined, then started;
\* it may end MainLoop behind the back of the caller that is about to tell it to.
InPrepare(p) ==
  \/ p = Ask /\ Settled /\ thread # "running"
  \/ p \in {Tell, Joins} /\ thread \in {"returned", "finished"}
  \/ p = Joined /\ thread = "none"
  \/ p \in {Release, Runs, Creates} /\ thread = "none" /\ state_ = "kInactive"
  \/ p = Created /\ thread = "running"
  \/ p \in {Leave, Starts} /\ thread = "running" /\ state_ = "kActive"

InDestroy(p) ==
  \/ p = Exits /\ Settled
  \/ p = ExitTell /\ thread # "none"
  \/ p \in {ExitLeave, Await} /\ thread = "none" /\ state_ = "kInactive"
  \/ p \in {ExitLeave, Await} /\ thread # "none" /\ state_ \in {"kToIdle", "kIdle"}
  \/ p \in {AwaitIdle, AwaitJoin} /\ thread # "none"
  \/ p = AwaitJoined /\ thread = "none"
  \/ p = AwaitLeave /\ thread = "none" /\ state_ = "kInactive"

\* The client is in one of the two calls or in none, and the others never call.
Calling ==
  /\ calls = [c \in Callers |-> IF c = Client THEN calls[Client] ELSE <<>>]
  /\ \/ calls[Client] = <<>> /\ Settled /\ ~lock_
     \/ InPrepare(calls[Client]) /\ lock_ /\ ~prepare_running_
     \/ InDestroy(calls[Client]) /\ ~lock_

\* A thread runs for prepare_running_, which says so, or is just being started; else
\* there is nothing in the queue or in its hands.
Working ==
  /\ thread \in {"none", "running", "returned", "finished"}
  /\ thread = "running" => prepare_running_ \/ calls[Client] \in {Created, Leave, Starts}
  /\ prepare_running_ => thread = "running"
  /\ ~prepare_running_ => streams_ = <<>> /\ prepared_stream_ = None /\ at = "top"

Stream == [status : {"CONFIGURED", "PREPARE_ACTIVE"}, allocated : Nat, prepared : Nat]
Active(s) == stream[s].status = "PREPARE_ACTIVE"

\* What is queued or being prepared is PREPARE_ACTIVE, once.
Queueing ==
  /\ streams_ \in Seq(Streams) /\ stream \in [Streams -> Stream]
  /\ prepared_stream_ \in Streams \cup {None} /\ at \in {"top", "prepare", "finish"}
  /\ at # "top" => prepared_stream_ # None
  /\ \A i, j \in 1 .. Len(streams_) : i # j => streams_[i] # streams_[j]
  /\ \A i \in 1 .. Len(streams_) :
       Active(streams_[i]) /\ (at # "finish" => streams_[i] # prepared_stream_)
  /\ prepared_stream_ # None /\ at # "finish" => Active(prepared_stream_)
  /\ lock_ => argument \in Streams /\ Active(argument)

PrepareInv == Calling /\ Working /\ Queueing

-----------------------------------------------------------------------------
LEMMA Heads ==
  /\ Ask # <<>> /\ Head(Ask) = "RequestExitAndWait"
  /\ Tell # <<>> /\ Head(Tell) = "kToIdle"
  /\ Joins # <<>> /\ Head(Joins) = "join"
  /\ Joined # <<>> /\ Head(Joined) = "kInactive"
  /\ Release # <<>> /\ Head(Release) = "unlock"
  /\ Runs # <<>> /\ Head(Runs) = "Run"
  /\ Creates # <<>> /\ Head(Creates) = "create"
  /\ Created # <<>> /\ Head(Created) = "kActive"
  /\ Leave # <<>> /\ Head(Leave) = "unlock"
  /\ Starts # <<>> /\ Head(Starts) = "started"
  /\ Exits # <<>> /\ Head(Exits) = "RequestExit"
  /\ ExitTell # <<>> /\ Head(ExitTell) = "kToIdle"
  /\ ExitLeave # <<>> /\ Head(ExitLeave) = "unlock"
  /\ Await # <<>> /\ Head(Await) = "RequestExitAndWait"
  /\ AwaitIdle # <<>> /\ Head(AwaitIdle) = "WaitState"
  /\ AwaitJoin # <<>> /\ Head(AwaitJoin) = "join"
  /\ AwaitJoined # <<>> /\ Head(AwaitJoined) = "kInactive"
  /\ AwaitLeave # <<>> /\ Head(AwaitLeave) = "unlock"
BY DEF Ask, Tell, Joins, Joined, Release, Runs, Creates, Created, Leave, Starts, Exits,
       ExitTell, ExitLeave, Await, AwaitIdle, AwaitJoin, AwaitJoined, AwaitLeave

LEMMA Differ ==
  /\ Ask # Await /\ Tell # ExitTell /\ Joins # AwaitJoin /\ Joined # AwaitJoined
  /\ Release # Leave /\ Release # ExitLeave /\ Release # AwaitLeave
  /\ Leave # ExitLeave /\ Leave # AwaitLeave /\ ExitLeave # AwaitLeave
<1>1. Ask # Await
  BY DEF Ask, Await
<1>2. Tell # ExitTell
  BY DEF Tell, ExitTell
<1>3. Joins # AwaitJoin
  BY DEF Joins, AwaitJoin
<1>4. Joined # AwaitJoined
  BY DEF Joined, AwaitJoined
<1>5. /\ Release # Leave /\ Release # ExitLeave /\ Release # AwaitLeave
      /\ Leave # ExitLeave /\ Leave # AwaitLeave /\ ExitLeave # AwaitLeave
  BY DEF Release, Leave, ExitLeave, AwaitLeave
<1> QED
  BY <1>1, <1>2, <1>3, <1>4, <1>5

LEMMA Tails ==
  /\ Tail(Tell) = Joins /\ Tail(Joins) = Joined /\ Tail(Joined) = Release
  /\ Tail(Release) = Runs /\ Tail(Creates) = Created /\ Tail(Created) = Leave
  /\ Tail(Leave) = Starts /\ Tail(Starts) = <<>>
  /\ Tail(ExitTell) = ExitLeave /\ Tail(ExitLeave) = Await
  /\ Tail(AwaitIdle) = AwaitJoin /\ Tail(AwaitJoin) = AwaitJoined
  /\ Tail(AwaitJoined) = AwaitLeave /\ Tail(AwaitLeave) = <<>>
<1>1. /\ Tail(Tell) = Joins /\ Tail(Joins) = Joined /\ Tail(Joined) = Release
      /\ Tail(Release) = Runs
  BY DEF Tell, Joins, Joined, Release, Runs
<1>2. /\ Tail(Creates) = Created /\ Tail(Created) = Leave
      /\ Tail(Leave) = Starts /\ Tail(Starts) = <<>>
  BY DEF Creates, Created, Leave, Starts
<1>3. Tail(ExitTell) = ExitLeave /\ Tail(ExitLeave) = Await
  BY DEF ExitTell, ExitLeave, Await
<1>4. /\ Tail(AwaitIdle) = AwaitJoin /\ Tail(AwaitJoin) = AwaitJoined
      /\ Tail(AwaitJoined) = AwaitLeave /\ Tail(AwaitLeave) = <<>>
  BY DEF AwaitIdle, AwaitJoin, AwaitJoined, AwaitLeave
<1> QED
  BY <1>1, <1>2, <1>3, <1>4

\* What the sequences of ThreadHelper's methods come to.
LEMMA Onto ==
  ASSUME NEW S, NEW s \in Seq(S), NEW t \in Seq(S), NEW u \in Seq(S),
         Len(u) = Len(s) + Len(t),
         \A i \in 1 .. Len(u) : u[i] = IF i <= Len(s) THEN s[i] ELSE t[i - Len(s)]
  PROVE  s \o t = u
<1>1. s \o t \in Seq(S) /\ Len(s \o t) = Len(u)
  BY ConcatProperties
<1>2. \A i \in 1 .. Len(s \o t) : (s \o t)[i] = u[i]
  BY <1>1, ConcatProperties
<1> QED
  BY <1>1, <1>2, SeqEqual

LEMMA Glue11 ==
  ASSUME NEW S, NEW a \in S, NEW b \in S
  PROVE  <<a>> \o <<b>> = <<a, b>>
<1>1. PICK s, t, u : s = <<a>> /\ t = <<b>> /\ u = <<a, b>>
  OBVIOUS
<1>2. s \in Seq(S) /\ t \in Seq(S) /\ u \in Seq(S) /\ Len(u) = Len(s) + Len(t)
  BY <1>1
<1>3. \A i \in 1 .. Len(u) : u[i] = IF i <= Len(s) THEN s[i] ELSE t[i - Len(s)]
  BY <1>1
<1>4. s \o t = u
  BY <1>2, <1>3, Onto, Zenon
<1> QED
  BY <1>1, <1>4

LEMMA Glue12 ==
  ASSUME NEW S, NEW a \in S, NEW b \in S, NEW c \in S
  PROVE  <<a>> \o <<b, c>> = <<a, b, c>>
<1>1. PICK s, t, u : s = <<a>> /\ t = <<b, c>> /\ u = <<a, b, c>>
  OBVIOUS
<1>2. s \in Seq(S) /\ t \in Seq(S) /\ u \in Seq(S) /\ Len(u) = Len(s) + Len(t)
  BY <1>1
<1>3. \A i \in 1 .. Len(u) : u[i] = IF i <= Len(s) THEN s[i] ELSE t[i - Len(s)]
  BY <1>1
<1>4. s \o t = u
  BY <1>2, <1>3, Onto, Zenon
<1> QED
  BY <1>1, <1>4

LEMMA Glue21 ==
  ASSUME NEW S, NEW a \in S, NEW b \in S, NEW c \in S
  PROVE  <<a, b>> \o <<c>> = <<a, b, c>>
<1>1. PICK s, t, u : s = <<a, b>> /\ t = <<c>> /\ u = <<a, b, c>>
  OBVIOUS
<1>2. s \in Seq(S) /\ t \in Seq(S) /\ u \in Seq(S) /\ Len(u) = Len(s) + Len(t)
  BY <1>1
<1>3. \A i \in 1 .. Len(u) : u[i] = IF i <= Len(s) THEN s[i] ELSE t[i - Len(s)]
  BY <1>1
<1>4. s \o t = u
  BY <1>2, <1>3, Onto, Zenon
<1> QED
  BY <1>1, <1>4

LEMMA Glue31 ==
  ASSUME NEW S, NEW a \in S, NEW b \in S, NEW c \in S, NEW d \in S
  PROVE  <<a, b, c>> \o <<d>> = <<a, b, c, d>>
<1>1. PICK s, t, u : s = <<a, b, c>> /\ t = <<d>> /\ u = <<a, b, c, d>>
  OBVIOUS
<1>2. s \in Seq(S) /\ t \in Seq(S) /\ u \in Seq(S) /\ Len(u) = Len(s) + Len(t)
  BY <1>1
<1>3. \A i \in 1 .. Len(u) : u[i] = IF i <= Len(s) THEN s[i] ELSE t[i - Len(s)]
  BY <1>1
<1>4. s \o t = u
  BY <1>2, <1>3, Onto, Zenon
<1> QED
  BY <1>1, <1>4

LEMMA Glue32 ==
  ASSUME NEW S, NEW a \in S, NEW b \in S, NEW c \in S, NEW d \in S,
         NEW e \in S
  PROVE  <<a, b, c>> \o <<d, e>> = <<a, b, c, d, e>>
<1>1. PICK s, t, u : s = <<a, b, c>> /\ t = <<d, e>> /\ u = <<a, b, c, d, e>>
  OBVIOUS
<1>2. s \in Seq(S) /\ t \in Seq(S) /\ u \in Seq(S) /\ Len(u) = Len(s) + Len(t)
  BY <1>1
<1>3. \A i \in 1 .. Len(u) : u[i] = IF i <= Len(s) THEN s[i] ELSE t[i - Len(s)]
  BY <1>1
<1>4. s \o t = u
  BY <1>2, <1>3, Onto, Zenon
<1> QED
  BY <1>1, <1>4

LEMMA Glue42 ==
  ASSUME NEW S, NEW a \in S, NEW b \in S, NEW c \in S, NEW d \in S,
         NEW e \in S, NEW f \in S
  PROVE  <<a, b, c, d>> \o <<e, f>> = <<a, b, c, d, e, f>>
<1>1. PICK s, t, u : s = <<a, b, c, d>> /\ t = <<e, f>> /\ u = <<a, b, c, d, e, f>>
  OBVIOUS
<1>2. s \in Seq(S) /\ t \in Seq(S) /\ u \in Seq(S) /\ Len(u) = Len(s) + Len(t)
  BY <1>1
<1>3. \A i \in 1 .. Len(u) : u[i] = IF i <= Len(s) THEN s[i] ELSE t[i - Len(s)]
  BY <1>1
<1>4. s \o t = u
  BY <1>2, <1>3, Onto, Zenon
<1> QED
  BY <1>1, <1>4

Words == {"RequestExitAndWait", "Run", "started", "kToIdle", "join", "kInactive", "unlock",
          "create", "kActive", "WaitState"}

\* What Enter makes of a call, where the methods find state_ as it may be there.
LEMMA Entered ==
  /\ Body("RequestExitAndWait")["kActive"] \o Tail(Ask) = Tell
  /\ Body("RequestExitAndWait")["kIdle"] \o Tail(Ask) = Joins
  /\ Body("RequestExitAndWait")["kInactive"] \o Tail(Ask) = Release
  /\ Body("Run")["kInactive"] \o Tail(Runs) = Creates
  /\ Body("RequestExit")["kActive"] \o Tail(Exits) = ExitTell
  /\ Body("RequestExit")["kIdle"] \o Tail(Exits) = ExitLeave
  /\ Body("RequestExit")["kInactive"] \o Tail(Exits) = ExitLeave
  /\ Body("RequestExitAndWait")["kToIdle"] \o Tail(Await) = AwaitIdle
  /\ Body("RequestExitAndWait")["kIdle"] \o Tail(Await) = AwaitJoin
  /\ Body("RequestExitAndWait")["kInactive"] \o Tail(Await) = AwaitLeave
<1>1. /\ "RequestExitAndWait" \in Words /\ "Run" \in Words /\ "started" \in Words
      /\ "kToIdle" \in Words /\ "join" \in Words /\ "kInactive" \in Words
      /\ "unlock" \in Words /\ "create" \in Words /\ "kActive" \in Words
      /\ "WaitState" \in Words
  BY DEF Words
<1>2. /\ Tail(Ask) = <<"Run", "started">> /\ Tail(Runs) = <<"started">>
      /\ Tail(Exits) = <<"RequestExitAndWait">> /\ Tail(Await) = <<>>
  BY DEF Ask, Runs, Exits, Await
<1>3. /\ Body("Run") = Run /\ Body("RequestExit") = RequestToExit
      /\ Body("RequestExitAndWait") = RequestExitAndWait
  BY DEF Body
<1>4. /\ RequestToExit["kActive"] = <<"kToIdle", "unlock">>
      /\ RequestToExit["kIdle"] = <<"unlock">> /\ RequestToExit["kInactive"] = <<"unlock">>
  BY DEF RequestToExit
<1>5. Run["kInactive"] = <<"create", "kActive", "unlock">>
  BY DEF Run, Create
<1>6. RequestExitAndWait["kIdle"] = <<"join", "kInactive", "unlock">>
  <2>1. RequestExitAndWait["kIdle"] = <<"join", "kInactive">> \o <<"unlock">>
    BY DEF RequestExitAndWait, Join
  <2> QED
    BY <1>1, <2>1, Glue21
<1>7. RequestExitAndWait["kInactive"] = <<"unlock">>
  BY DEF RequestExitAndWait
<1>8. RequestExitAndWait["kActive"] = <<"kToIdle", "join", "kInactive", "unlock">>
  <2>1. RequestExitAndWait["kActive"]
          = (<<"kToIdle">> \o <<"join", "kInactive">>) \o <<"unlock">>
    BY DEF RequestExitAndWait, Join
  <2>2. <<"kToIdle">> \o <<"join", "kInactive">> = <<"kToIdle", "join", "kInactive">>
    BY <1>1, Glue12
  <2>3. <<"kToIdle", "join", "kInactive">> \o <<"unlock">>
          = <<"kToIdle", "join", "kInactive", "unlock">>
    BY <1>1, Glue31
  <2> QED
    BY <2>1, <2>2, <2>3
<1>9. RequestExitAndWait["kToIdle"] = <<"WaitState", "join", "kInactive", "unlock">>
  <2>1. RequestExitAndWait["kToIdle"]
          = (<<"WaitState">> \o <<"join", "kInactive">>) \o <<"unlock">>
    BY DEF RequestExitAndWait, Join
  <2>2. <<"WaitState">> \o <<"join", "kInactive">> = <<"WaitState", "join", "kInactive">>
    BY <1>1, Glue12
  <2>3. <<"WaitState", "join", "kInactive">> \o <<"unlock">>
          = <<"WaitState", "join", "kInactive", "unlock">>
    BY <1>1, Glue31
  <2> QED
    BY <2>1, <2>2, <2>3
<1>10. Body("RequestExitAndWait")["kActive"] \o Tail(Ask) = Tell
  <2>1. <<"kToIdle", "join", "kInactive", "unlock">> \o <<"Run", "started">> = Tell
    BY <1>1, Glue42 DEF Tell
  <2> QED
    BY Zenon, <1>2, <1>3, <1>8, <2>1
<1>11. Body("RequestExitAndWait")["kIdle"] \o Tail(Ask) = Joins
  <2>1. <<"join", "kInactive", "unlock">> \o <<"Run", "started">> = Joins
    BY <1>1, Glue32 DEF Joins
  <2> QED
    BY Zenon, <1>2, <1>3, <1>6, <2>1
<1>12. Body("RequestExitAndWait")["kInactive"] \o Tail(Ask) = Release
  <2>1. <<"unlock">> \o <<"Run", "started">> = Release
    BY <1>1, Glue12 DEF Release
  <2> QED
    BY Zenon, <1>2, <1>3, <1>7, <2>1
<1>13. Body("Run")["kInactive"] \o Tail(Runs) = Creates
  <2>1. <<"create", "kActive", "unlock">> \o <<"started">> = Creates
    BY <1>1, Glue31 DEF Creates
  <2> QED
    BY Zenon, <1>2, <1>3, <1>5, <2>1
<1>14. Body("RequestExit")["kActive"] \o Tail(Exits) = ExitTell
  <2>1. <<"kToIdle", "unlock">> \o <<"RequestExitAndWait">> = ExitTell
    BY <1>1, Glue21 DEF ExitTell
  <2> QED
    BY Zenon, <1>2, <1>3, <1>4, <2>1
<1>15. /\ Body("RequestExit")["kIdle"] \o Tail(Exits) = ExitLeave
       /\ Body("RequestExit")["kInactive"] \o Tail(Exits) = ExitLeave
  <2>1. <<"unlock">> \o <<"RequestExitAndWait">> = ExitLeave
    BY <1>1, Glue11 DEF ExitLeave
  <2> QED
    BY Zenon, <1>2, <1>3, <1>4, <2>1
<1>16. /\ AwaitIdle \o <<>> = AwaitIdle /\ AwaitJoin \o <<>> = AwaitJoin
       /\ AwaitLeave \o <<>> = AwaitLeave
  <2>1. AwaitIdle \in Seq(Words) /\ AwaitJoin \in Seq(Words) /\ AwaitLeave \in Seq(Words)
    BY <1>1 DEF AwaitIdle, AwaitJoin, AwaitLeave
  <2> QED
    BY <2>1, ConcatEmptySeq
<1>17. /\ Body("RequestExitAndWait")["kToIdle"] \o Tail(Await) = AwaitIdle
       /\ Body("RequestExitAndWait")["kIdle"] \o Tail(Await) = AwaitJoin
       /\ Body("RequestExitAndWait")["kInactive"] \o Tail(Await) = AwaitLeave
  BY <1>2, <1>3, <1>6, <1>7, <1>9, <1>16 DEF AwaitIdle, AwaitJoin, AwaitLeave
<1> QED
  BY <1>10, <1>11, <1>12, <1>13, <1>14, <1>15, <1>17
-----------------------------------------------------------------------------
LEMMA CallsOn ==
  ASSUME Calling, NEW x, calls' = [calls EXCEPT ![Client] = x]
  PROVE  /\ calls'[Client] = x
         /\ calls' = [c \in Callers |-> IF c = Client THEN calls'[Client] ELSE <<>>]
<1>1. calls = [c \in Callers |-> IF c = Client THEN calls[Client] ELSE <<>>]
  BY DEF Calling
<1>2. calls'[Client] = x
  BY <1>1, PrepareAssumption
<1>3. \A c \in Callers : c # Client => calls'[c] = <<>>
  BY <1>1
<1>4. calls' = [c \in Callers |-> calls'[c]]
  BY <1>1
<1> QED
  BY <1>2, <1>3, <1>4

\* A step of the client's call: what is left of it, and where the thread is.
LEMMA Goes ==
  ASSUME PrepareInv, NEW x, calls' = [calls EXCEPT ![Client] = x],
         UNCHANGED <<handlerVars, at, stream>>, Working',
         \/ x = <<>> /\ Settled' /\ ~lock_
         \/ InPrepare(x)' /\ lock_ /\ ~prepare_running_
         \/ InDestroy(x)' /\ ~lock_
  PROVE  PrepareInv'
<1>1. /\ calls'[Client] = x
      /\ calls' = [c \in Callers |-> IF c = Client THEN calls'[Client] ELSE <<>>]
  BY CallsOn DEF PrepareInv
<1>2. Calling'
  BY <1>1 DEF Calling, handlerVars, InPrepare, InDestroy
<1>3. Queueing'
  BY DEF PrepareInv, Queueing, Active, handlerVars
<1> QED
  BY <1>2, <1>3 DEF PrepareInv

\* Where a call is says where the thread is.
LEMMA Place ==
  ASSUME Calling, NEW p, p = calls[Client]
  PROVE  /\ p = Ask => Settled /\ thread # "running" /\ lock_ /\ ~prepare_running_
         /\ p = Tell => thread \in {"returned", "finished"} /\ lock_ /\ ~prepare_running_
         /\ p = Joined => thread = "none" /\ lock_ /\ ~prepare_running_
         /\ p = Release \/ p = Runs =>
              thread = "none" /\ state_ = "kInactive" /\ lock_ /\ ~prepare_running_
         /\ p = Created => thread = "running" /\ lock_ /\ ~prepare_running_
         /\ p = Leave \/ p = Starts =>
              thread = "running" /\ state_ = "kActive" /\ lock_ /\ ~prepare_running_
         /\ p = Exits => Settled /\ ~lock_
         /\ p = ExitTell => thread # "none" /\ ~lock_
         /\ p = ExitLeave \/ p = Await =>
              /\ \/ thread = "none" /\ state_ = "kInactive"
                 \/ thread # "none" /\ state_ \in {"kToIdle", "kIdle"}
              /\ ~lock_
         /\ p = AwaitIdle => thread # "none" /\ ~lock_
         /\ p = AwaitJoined => thread = "none" /\ ~lock_
         /\ p = AwaitLeave => thread = "none" /\ state_ = "kInactive" /\ ~lock_
<1>1. CASE p = <<>>
  BY <1>1, Heads
<1>2. CASE InPrepare(p) /\ lock_ /\ ~prepare_running_
  BY <1>2, Heads, Differ DEF InPrepare
<1>3. CASE InDestroy(p) /\ ~lock_
  BY <1>3, Heads, Differ DEF InDestroy
<1> QED
  BY <1>1, <1>2, <1>3 DEF Calling

LEMMA EnterKeeps ==
  ASSUME PrepareInv, Enter(Client), UNCHANGED <<handlerVars, at, stream>>
  PROVE  PrepareInv'
<1>1. PICK p, q : p = calls[Client] /\ q = Body(Head(p))[state_] \o Tail(p)
  OBVIOUS
<1>2. calls' = [calls EXCEPT ![Client] = q] /\ state_' = state_ /\ thread' = thread
  BY <1>1 DEF Enter
<1>3. p \in {Ask, Runs, Exits, Await}
  BY <1>1, Heads DEF Enter, Methods, PrepareInv, Calling, InPrepare, InDestroy
<1>4. calls'[Client] = q
  BY <1>2, CallsOn DEF PrepareInv
<1>5. Working'
  BY <1>1, <1>2, <1>3, <1>4, Heads DEF PrepareInv, Working, handlerVars
<1>6. CASE p = Ask
  <2>1. Settled /\ thread # "running" /\ lock_ /\ ~prepare_running_
    BY <1>1, <1>6, Place DEF PrepareInv
  <2>2. Head(p) = "RequestExitAndWait"
    BY <1>6, Heads
  <2>3. \/ q = Tell /\ thread = "returned"
        \/ q = Joins /\ thread = "finished"
        \/ q = Release /\ thread = "none" /\ state_ = "kInactive"
    BY <1>1, <1>6, <2>1, <2>2, Entered DEF Settled
  <2>4. InPrepare(q)'
    BY <1>2, <2>3 DEF InPrepare
  <2> QED
    BY <1>2, <1>5, <2>1, <2>4, Goes
<1>7. CASE p = Runs
  <2>1. thread = "none" /\ state_ = "kInactive" /\ lock_ /\ ~prepare_running_
    BY <1>1, <1>7, Heads DEF PrepareInv, Calling, InPrepare, InDestroy
  <2>2. q = Creates
    BY <1>1, <1>7, <2>1, Heads, Entered
  <2>3. InPrepare(q)'
    BY <1>2, <2>1, <2>2 DEF InPrepare
  <2> QED
    BY <1>2, <1>5, <2>1, <2>3, Goes
<1>8. CASE p = Exits
  <2>1. Settled /\ ~lock_
    BY <1>1, <1>8, Heads DEF PrepareInv, Calling, InPrepare, InDestroy
  <2>2. \/ q = ExitTell /\ thread \in {"running", "returned"}
        \/ q = ExitLeave /\ thread = "finished" /\ state_ = "kIdle"
        \/ q = ExitLeave /\ thread = "none" /\ state_ = "kInactive"
    BY <1>1, <1>8, <2>1, Heads, Entered DEF Settled
  <2>3. InDestroy(q)'
    BY <1>2, <2>2 DEF InDestroy
  <2> QED
    BY <1>2, <1>5, <2>1, <2>3, Goes
<1>9. CASE p = Await
  <2>1. /\ \/ thread = "none" /\ state_ = "kInactive"
           \/ thread # "none" /\ state_ \in {"kToIdle", "kIdle"}
        /\ ~lock_
    BY <1>1, <1>9, Place DEF PrepareInv
  <2>2. \/ q \in {AwaitIdle, AwaitJoin} /\ thread # "none"
        \/ q = AwaitLeave /\ thread = "none" /\ state_ = "kInactive"
    BY <1>1, <1>9, <2>1, Heads, Entered
  <2>3. InDestroy(q)'
    BY <1>2, <2>2 DEF InDestroy
  <2> QED
    BY <1>2, <1>5, <2>1, <2>3, Goes
<1> QED
  BY <1>3, <1>6, <1>7, <1>8, <1>9

LEMMA ChangesStateKeeps ==
  ASSUME PrepareInv, NEW st \in ThreadHelperState, ChangesState(Client, st),
         UNCHANGED <<handlerVars, at, stream>>
  PROVE  PrepareInv'
<1>1. PICK p, q : p = calls[Client] /\ q = Tail(p)
  OBVIOUS
<1>2. /\ calls' = [calls EXCEPT ![Client] = q] /\ state_' = st /\ thread' = thread
      /\ p # <<>> /\ Head(p) = st
  BY <1>1 DEF ChangesState, At, Done
<1>3. calls'[Client] = q
  BY <1>2, CallsOn DEF PrepareInv
<1>4. p \in {Tell, Joined, Created, ExitTell, AwaitJoined}
  BY <1>1, <1>2, Heads DEF ThreadHelperState, PrepareInv, Calling, InPrepare, InDestroy
<1>5. CASE p = Tell
  <2>1. thread \in {"returned", "finished"} /\ lock_ /\ ~prepare_running_ /\ q = Joins
    BY <1>1, <1>5, Tails, Place DEF PrepareInv
  <2>2. InPrepare(q)' /\ Working'
    BY <1>2, <2>1 DEF InPrepare, PrepareInv, Working, handlerVars
  <2> QED
    BY <1>2, <2>1, <2>2, Goes
<1>6. CASE p = Joined
  <2>1. thread = "none" /\ lock_ /\ ~prepare_running_ /\ q = Release /\ st = "kInactive"
    BY <1>1, <1>2, <1>6, Heads, Tails, Place DEF PrepareInv
  <2>2. InPrepare(q)' /\ Working'
    BY <1>2, <2>1 DEF InPrepare, PrepareInv, Working, handlerVars
  <2> QED
    BY <1>2, <2>1, <2>2, Goes
<1>7. CASE p = Created
  <2>1. thread = "running" /\ lock_ /\ ~prepare_running_ /\ q = Leave /\ st = "kActive"
    BY <1>1, <1>2, <1>7, Heads, Tails, Place DEF PrepareInv
  <2>2. InPrepare(q)' /\ Working'
    BY <1>2, <1>3, <2>1 DEF InPrepare, PrepareInv, Working, handlerVars
  <2> QED
    BY <1>2, <2>1, <2>2, Goes
<1>8. CASE p = ExitTell
  <2>1. thread # "none" /\ ~lock_ /\ q = ExitLeave /\ st = "kToIdle"
    BY <1>1, <1>2, <1>8, Heads, Tails, Place DEF PrepareInv
  <2>2. InDestroy(q)' /\ Working'
    BY <1>1, <1>2, <1>8, <2>1, Heads DEF InDestroy, PrepareInv, Working, handlerVars
  <2> QED
    BY <1>2, <2>1, <2>2, Goes
<1>9. CASE p = AwaitJoined
  <2>1. q = AwaitLeave /\ st = "kInactive"
    BY <1>1, <1>2, <1>9, Heads, Tails
  <2>2. thread = "none" /\ ~lock_
    BY <1>1, <1>9, Place DEF PrepareInv
  <2>3. InDestroy(q)'
    BY <1>2, <2>1, <2>2 DEF InDestroy
  <2>4. Working'
    BY <1>2, <2>2 DEF PrepareInv, Working, handlerVars
  <2> QED
    BY <1>2, <2>2, <2>3, <2>4, Goes
<1> QED
  BY <1>4, <1>5, <1>6, <1>7, <1>8, <1>9

LEMMA WaitStateKeeps ==
  ASSUME PrepareInv, WaitState(Client), UNCHANGED <<handlerVars, at, stream>>
  PROVE  PrepareInv'
<1>1. PICK p : p = calls[Client]
  OBVIOUS
<1>2. p = AwaitIdle
  BY <1>1, Heads DEF WaitState, At, PrepareInv, Calling, InPrepare, InDestroy
<1>3. /\ calls' = [calls EXCEPT ![Client] = AwaitJoin]
      /\ state_' = state_ /\ thread' = thread
  BY <1>1, <1>2, Tails DEF WaitState, Done
<1>4. thread # "none" /\ ~lock_
  BY <1>1, <1>2, Heads DEF PrepareInv, Calling, InPrepare, InDestroy
<1>5. InDestroy(AwaitJoin)' /\ Working'
  BY <1>1, <1>2, <1>3, <1>4, Heads DEF InDestroy, PrepareInv, Working, handlerVars
<1> QED
  BY <1>3, <1>4, <1>5, Goes

LEMMA JoinThreadKeeps ==
  ASSUME PrepareInv, JoinThread(Client), UNCHANGED <<handlerVars, at, stream>>
  PROVE  PrepareInv'
<1>1. PICK p, q : p = calls[Client] /\ q = Tail(p)
  OBVIOUS
<1>2. /\ calls' = [calls EXCEPT ![Client] = q] /\ thread = "finished" /\ thread' = "none"
  BY <1>1 DEF JoinThread, Done
<1>3. (p = Joins /\ lock_ /\ ~prepare_running_) \/ (p = AwaitJoin /\ ~lock_)
  <2>1. p # <<>> /\ Head(p) = "join"
    BY <1>1 DEF JoinThread, At
  <2>2. InPrepare(p) => p = Joins
    BY <2>1, Heads DEF InPrepare
  <2>3. InDestroy(p) => p = AwaitJoin
    BY <2>1, Heads DEF InDestroy
  <2> QED
    BY <1>1, <2>1, <2>2, <2>3 DEF PrepareInv, Calling
<1>4. Working'
  BY <1>2 DEF PrepareInv, Working, handlerVars
<1>5. CASE p = Joins /\ lock_ /\ ~prepare_running_
  <2>1. InPrepare(q)'
    BY <1>1, <1>2, <1>5, Tails DEF InPrepare
  <2> QED
    BY <1>2, <1>4, <1>5, <2>1, Goes
<1>6. CASE p = AwaitJoin /\ ~lock_
  <2>1. InDestroy(q)'
    BY <1>1, <1>2, <1>6, Tails DEF InDestroy
  <2> QED
    BY <1>2, <1>4, <1>6, <2>1, Goes
<1> QED
  BY <1>3, <1>5, <1>6

LEMMA CreateThreadKeeps ==
  ASSUME PrepareInv, CreateThread(Client), UNCHANGED <<handlerVars, at, stream>>
  PROVE  PrepareInv'
<1>1. PICK p : p = calls[Client]
  OBVIOUS
<1>2. p = Creates /\ lock_ /\ ~prepare_running_ /\ thread = "none"
  BY <1>1, Heads DEF CreateThread, At, PrepareInv, Calling, InPrepare, InDestroy
<1>3. calls' = [calls EXCEPT ![Client] = Created] /\ thread' = "running"
  BY <1>1, <1>2, Tails DEF CreateThread, Done
<1>4. calls'[Client] = Created
  BY <1>3, CallsOn DEF PrepareInv
<1>5. InPrepare(Created)' /\ Working'
  BY <1>2, <1>3, <1>4 DEF InPrepare, PrepareInv, Working, handlerVars
<1> QED
  BY <1>2, <1>3, <1>5, Goes

LEMMA UnlockKeeps ==
  ASSUME PrepareInv, Unlock(Client), UNCHANGED <<handlerVars, at, stream>>
  PROVE  PrepareInv'
<1>1. PICK p, q : p = calls[Client] /\ q = Tail(p)
  OBVIOUS
<1>2. calls' = [calls EXCEPT ![Client] = q] /\ state_' = state_ /\ thread' = thread
  BY <1>1 DEF Unlock, Done
<1>3. calls'[Client] = q
  BY <1>2, CallsOn DEF PrepareInv
<1>4. p \in {Release, Leave, ExitLeave, AwaitLeave}
  BY <1>1, Heads DEF Unlock, At, PrepareInv, Calling, InPrepare, InDestroy
<1>5. CASE p = Release
  <2>1. /\ thread = "none" /\ state_ = "kInactive" /\ lock_ /\ ~prepare_running_ /\ q = Runs
    BY <1>1, <1>5, Tails, Place DEF PrepareInv
  <2>2. InPrepare(q)' /\ Working'
    BY <1>2, <2>1 DEF InPrepare, PrepareInv, Working, handlerVars
  <2> QED
    BY <1>2, <2>1, <2>2, Goes
<1>6. CASE p = Leave
  <2>1. /\ thread = "running" /\ state_ = "kActive" /\ lock_ /\ ~prepare_running_ /\ q = Starts
    BY <1>1, <1>6, Tails, Place DEF PrepareInv
  <2>2. InPrepare(q)' /\ Working'
    BY <1>2, <1>3, <2>1 DEF InPrepare, PrepareInv, Working, handlerVars
  <2> QED
    BY <1>2, <2>1, <2>2, Goes
<1>7. CASE p = ExitLeave
  <2>1. /\ \/ thread = "none" /\ state_ = "kInactive"
           \/ thread # "none" /\ state_ \in {"kToIdle", "kIdle"}
        /\ ~lock_ /\ q = Await
    BY <1>1, <1>7, Tails, Place DEF PrepareInv
  <2>2. InDestroy(q)' /\ Working'
    BY <1>1, <1>2, <1>7, <2>1, Heads, Differ DEF InDestroy, PrepareInv, Working, handlerVars
  <2> QED
    BY <1>2, <2>1, <2>2, Goes
<1>8. CASE p = AwaitLeave
  <2>1. thread = "none" /\ state_ = "kInactive" /\ ~lock_ /\ q = <<>>
    BY <1>1, <1>8, Tails, Place DEF PrepareInv
  <2>2. Settled' /\ Working'
    BY <1>2, <2>1 DEF Settled, PrepareInv, Working, handlerVars
  <2> QED
    BY <1>2, <2>1, <2>2, Goes
<1> QED
  BY <1>4, <1>5, <1>6, <1>7, <1>8

LEMMA HelperKeeps ==
  ASSUME PrepareInv, Helper
  PROVE  PrepareInv'
BY EnterKeeps, WaitStateKeeps, JoinThreadKeeps, CreateThreadKeeps, UnlockKeeps,
   ChangesStateKeeps DEF Helper

-----------------------------------------------------------------------------
\* A step of the thread inside ThreadLoop.
LEMMA ThreadGoes ==
  ASSUME PrepareInv, UNCHANGED <<helperVars, lock_, prepare_running_>>, prepare_running_,
         Queueing'
  PROVE  PrepareInv'
<1>1. Calling'
  BY DEF PrepareInv, Calling, InPrepare, InDestroy, Settled, helperVars
<1>2. Working'
  BY DEF PrepareInv, Working, helperVars
<1> QED
  BY <1>1, <1>2 DEF PrepareInv

\* A thread that is not at the top of ThreadLoop, or there without the client's lock
\* or with a stream in its hands, is one that prepare_running_ tells of.
LEMMA AtWork ==
  ASSUME PrepareInv, at # "top" \/ prepared_stream_ # None \/ (thread = "running" /\ ~lock_)
  PROVE  prepare_running_ /\ ~lock_
<1>1. ASSUME thread = "running", ~lock_ PROVE prepare_running_
  <2>1. calls[Client] \notin {Created, Leave, Starts}
    BY <1>1, Place DEF PrepareInv
  <2> QED
    BY <1>1, <2>1 DEF PrepareInv, Working
<1>2. prepare_running_
  BY <1>1 DEF PrepareInv, Working
<1>3. prepare_running_ => ~lock_
  BY DEF PrepareInv, Calling
<1> QED
  BY <1>2, <1>3

LEMMA PickKeeps ==
  ASSUME PrepareInv, thread = "running", at = "top", ~lock_, Pick
  PROVE  PrepareInv'
<1>1. prepare_running_ /\ ~lock_
  BY AtWork
<1>2. PICK n \in Nat : n = Len(streams_) /\ n > 0
  BY DEF Pick, PrepareInv, Queueing
<1>3. /\ streams_' \in Seq(Streams) /\ Len(streams_') = n - 1
      /\ \A i \in 1 .. n - 1 : streams_'[i] = streams_[i + 1]
      /\ prepared_stream_' = streams_[1] /\ streams_[1] \in Streams
  BY <1>2 DEF Pick, PrepareInv, Queueing
<1>4. at' = "prepare" /\ stream' = stream /\ lock_' = lock_
  BY DEF Pick
<1>5. \A i, j \in 1 .. Len(streams_') : i # j => streams_'[i] # streams_'[j]
  BY <1>2, <1>3 DEF PrepareInv, Queueing
<1>6. \A i \in 1 .. Len(streams_') : (Active(streams_[i]) /\ streams_[i] # prepared_stream_)'
  <2> SUFFICES ASSUME NEW i \in 1 .. n - 1
               PROVE  Active(streams_[i + 1]) /\ streams_[i + 1] # streams_[1]
    BY <1>3, <1>4 DEF Active
  <2>1. i + 1 \in 1 .. Len(streams_) /\ 1 \in 1 .. Len(streams_) /\ i + 1 # 1
    BY <1>2
  <2> QED
    BY <2>1 DEF PrepareInv, Queueing
<1>7. Active(prepared_stream_)'
  BY <1>2, <1>3, <1>4 DEF PrepareInv, Queueing, Active
<1>8. Queueing'
  BY <1>3, <1>4, <1>5, <1>6, <1>7, PrepareAssumption DEF PrepareInv, Queueing, Active
<1> QED
  BY <1>1, <1>8, ThreadGoes DEF Pick

\* What EndPrepare and BeginPrepare leave of the streams.
LEMMA Ended ==
  ASSUME PrepareInv, NEW S, stream' = EndPrepare(S)
  PROVE  stream' \in [Streams -> Stream] /\ \A s \in Streams : s \notin S /\ Active(s) => Active(s)'
BY DEF EndPrepare, PrepareInv, Queueing, Stream, Active

LEMMA AbortKeeps ==
  ASSUME PrepareInv, thread = "running", at = "top", ~lock_, Abort
  PROVE  PrepareInv'
<1>1. prepare_running_ /\ ~lock_
  BY AtWork
<1>2. /\ stream' \in [Streams -> Stream]
      /\ \A s \in Streams : s # prepared_stream_ /\ Active(s) => Active(s)'
  BY Ended DEF Abort
<1>3. \A i \in 1 .. Len(streams_) : streams_[i] \in Streams
  BY DEF PrepareInv, Queueing
<1>4. Queueing'
  <2>1. \A i \in 1 .. Len(streams_) : Active(streams_[i])' /\ streams_[i] \in Streams
    BY <1>2, <1>3 DEF Abort, PrepareInv, Queueing
  <2>2. /\ streams_' = streams_ /\ prepared_stream_' = None /\ at' = at /\ lock_' = lock_
    BY DEF Abort
  <2> QED
    BY <1>1, <1>2, <2>1, <2>2, PrepareAssumption DEF PrepareInv, Queueing, Active
<1> QED
  BY <1>1, <1>4, ThreadGoes DEF Abort

LEMMA PrepareFailsKeeps ==
  ASSUME PrepareInv, PrepareFails
  PROVE  PrepareInv'
<1>1. prepare_running_ /\ ~lock_
  BY AtWork DEF PrepareFails
<1>2. /\ stream' \in [Streams -> Stream]
      /\ \A s \in Streams : s # prepared_stream_ /\ Active(s) => Active(s)'
  BY Ended DEF PrepareFails
<1>3. \A i \in 1 .. Len(streams_) : streams_[i] \in Streams
  BY DEF PrepareInv, Queueing
<1>4. Queueing'
  <2>1. \A i \in 1 .. Len(streams_) : Active(streams_[i])'
    BY <1>2, <1>3 DEF PrepareFails, PrepareInv, Queueing, Active, handlerVars
  <2>2. /\ streams_' = streams_ /\ prepared_stream_' = prepared_stream_ /\ at' = "finish"
        /\ lock_' = lock_
    BY DEF PrepareFails, handlerVars
  <2>3. /\ streams_ \in Seq(Streams) /\ prepared_stream_ \in Streams /\ ~lock_'
        /\ \A i, j \in 1 .. Len(streams_) : i # j => streams_[i] # streams_[j]
    BY <1>1, <2>2 DEF PrepareFails, PrepareInv, Queueing
  <2> QED
    BY <1>2, <2>1, <2>2, <2>3, PrepareAssumption DEF Queueing
<1> QED
  BY <1>1, <1>4, ThreadGoes DEF PrepareFails, handlerVars

LEMMA ContinueKeeps ==
  ASSUME PrepareInv, thread = "running", at = "top", ~lock_, Continue
  PROVE  PrepareInv'
<1>1. prepare_running_ /\ ~lock_
  BY AtWork
<1>2. Queueing'
  BY DEF Continue, PrepareInv, Queueing, Active, handlerVars
<1> QED
  BY <1>1, <1>2, ThreadGoes DEF Continue, handlerVars

LEMMA FinishKeeps ==
  ASSUME PrepareInv, Finish
  PROVE  PrepareInv'
<1>1. prepare_running_ /\ ~lock_
  BY AtWork DEF Finish
<1>2. \A i \in 1 .. Len(streams_) : streams_[i] \in Streams
  BY DEF PrepareInv, Queueing
<1>3. Queueing'
  BY <1>2, PrepareAssumption DEF Finish, PrepareInv, Queueing, Active
<1> QED
  BY <1>1, <1>3, ThreadGoes DEF Finish

LEMMA PrepareBufferKeeps ==
  ASSUME PrepareInv, PrepareBuffer
  PROVE  PrepareInv'
<1>1. prepare_running_ /\ ~lock_
  BY AtWork DEF PrepareBuffer
<1>2. PICK s \in Streams : s = prepared_stream_
  BY DEF PrepareBuffer, PrepareInv, Queueing
<1>3. /\ streams_' = streams_ /\ prepared_stream_' = s /\ lock_' = lock_
      /\ streams_ \in Seq(Streams)
      /\ \A i, j \in 1 .. Len(streams_) : i # j => streams_[i] # streams_[j]
      /\ \A i \in 1 .. Len(streams_) :
           streams_[i] \in Streams /\ Active(streams_[i]) /\ streams_[i] # s
  BY <1>2 DEF PrepareBuffer, PrepareInv, Queueing, handlerVars
<1>4. /\ stream' \in [Streams -> Stream]
      /\ \A r \in Streams : r # s => stream'[r] = stream[r]
      /\ at' = "finish" \/ (at' = "top" /\ Active(s)')
  <2>1. stream[s] \in Stream /\ stream \in [Streams -> Stream] /\ Active(s)
    BY <1>2 DEF PrepareBuffer, PrepareInv, Queueing, Active
  <2>2. CASE stream[s].prepared + 1 < Total
    <3>1. /\ stream' = [stream EXCEPT ![s].allocated = @ + 1, ![s].prepared = @ + 1]
          /\ at' = "top"
      BY <1>2, <2>2 DEF PrepareBuffer
    <3>2. /\ stream'[s] \in Stream /\ Active(s)' /\ DOMAIN stream' = Streams
          /\ \A r \in Streams : r # s => stream'[r] = stream[r]
      BY <2>1, <3>1 DEF Stream, Active
    <3>3. stream' = [r \in Streams |-> stream'[r]]
      BY <2>1, <3>1
    <3> QED
      BY <2>1, <3>1, <3>2, <3>3
  <2>3. CASE ~(stream[s].prepared + 1 < Total)
    <3>1. /\ stream' = [stream EXCEPT ![s] = [status |-> "CONFIGURED",
                          allocated |-> stream[s].allocated + 1, prepared |-> 0]]
          /\ at' = "finish"
      BY <1>2, <2>3 DEF PrepareBuffer
    <3>2. [status |-> "CONFIGURED", allocated |-> stream[s].allocated + 1, prepared |-> 0]
            \in Stream
      BY <2>1 DEF Stream
    <3>3. \A r \in Streams : r # s => stream'[r] = stream[r]
      BY <2>1, <3>1
    <3>4. stream' \in [Streams -> Stream]
      BY <2>1, <3>1, <3>2
    <3> QED
      BY <3>1, <3>3, <3>4
  <2> QED
    BY <2>2, <2>3
<1>5. \A i \in 1 .. Len(streams_) : Active(streams_[i])'
  BY <1>3, <1>4 DEF Active
<1>6. Queueing'
  BY <1>1, <1>3, <1>4, <1>5, PrepareAssumption DEF Queueing
<1> QED
  BY <1>1, <1>6, ThreadGoes DEF PrepareBuffer, handlerVars

LEMMA StopKeeps ==
  ASSUME PrepareInv, thread = "running", at = "top", ~lock_, Stop
  PROVE  PrepareInv'
<1>1. prepare_running_ /\ ~lock_
  BY AtWork
<1>2. Working'
  BY <1>1 DEF Stop, RunningAfterStop, PrepareInv, Working
<1>3. Queueing'
  BY DEF Stop, PrepareInv, Queueing, Active
<1>4. Settled => Settled'
  BY DEF Settled, Stop
<1>5. InDestroy(calls[Client]) => InDestroy(calls[Client])'
  BY <1>4 DEF InDestroy, Stop
<1>6. Calling'
  BY <1>1, <1>4, <1>5 DEF Stop, PrepareInv, Calling
<1> QED
  BY <1>2, <1>3, <1>6 DEF PrepareInv

LEMMA MainLoopEndsKeeps ==
  ASSUME PrepareInv, MainLoopEnds, UNCHANGED <<handlerVars, at, stream>>
  PROVE  PrepareInv'
<1>1. Working'
  BY DEF MainLoopEnds, PrepareInv, Working, handlerVars
<1>2. Queueing'
  BY DEF PrepareInv, Queueing, Active, handlerVars
<1>3. Settled'
  BY DEF Settled, MainLoopEnds
<1>4. InDestroy(calls[Client]) => InDestroy(calls[Client])'
  BY <1>3 DEF InDestroy, MainLoopEnds
<1>5. InPrepare(calls[Client]) => InPrepare(calls[Client])'
  BY <1>3 DEF InPrepare, MainLoopEnds
<1>6. Calling'
  BY <1>3, <1>4, <1>5 DEF MainLoopEnds, PrepareInv, Calling, handlerVars
<1> QED
  BY <1>1, <1>2, <1>6 DEF PrepareInv

-----------------------------------------------------------------------------
\* The stream a call begins to prepare is none of those that are being prepared.
LEMMA Begun ==
  ASSUME PrepareInv, NEW s \in Streams, stream[s].status = "CONFIGURED",
         stream' = BeginPrepare(s)
  PROVE  /\ stream' \in [Streams -> Stream] /\ Active(s)' /\ ~Active(s)
         /\ \A r \in Streams : r # s => stream'[r] = stream[r]
<1>1. stream \in [Streams -> Stream] /\ stream[s] \in Stream
  BY DEF PrepareInv, Queueing
<1>2. /\ stream' = [r \in Streams |-> stream'[r]] /\ stream'[s] \in Stream /\ Active(s)'
      /\ \A r \in Streams : r # s => stream'[r] = stream[r]
  BY <1>1 DEF BeginPrepare, Stream, Active
<1> QED
  BY <1>1, <1>2 DEF Active

LEMMA PrepareKeeps ==
  ASSUME PrepareInv, NEW s \in Streams, Prepare(s)
  PROVE  PrepareInv'
<1>1. /\ stream' \in [Streams -> Stream] /\ Active(s)' /\ ~Active(s)
      /\ \A r \in Streams : r # s => stream'[r] = stream[r]
  BY Begun DEF Prepare
<1>2. Settled /\ ~lock_ /\ calls[Client] = <<>>
  BY Heads DEF Prepare, PrepareInv, Calling, InPrepare, InDestroy
<1>3. CASE prepare_running_
  <2>1. /\ streams_' = Append(streams_, s)
        /\ UNCHANGED <<state_, thread, calls, lock_, prepare_running_, prepared_stream_, at>>
    BY <1>3 DEF Prepare
  <2>2. PICK n \in Nat : n = Len(streams_) /\ streams_ \in Seq(Streams)
    BY DEF PrepareInv, Queueing
  <2>3. /\ streams_' \in Seq(Streams) /\ Len(streams_') = n + 1 /\ streams_'[n + 1] = s
        /\ \A i \in 1 .. n : streams_'[i] = streams_[i]
    BY <2>1, <2>2
  <2>4. \A i \in 1 .. n : streams_[i] \in Streams /\ Active(streams_[i]) /\ streams_[i] # s
    BY <1>1, <2>2 DEF PrepareInv, Queueing
  <2>5. \A i, j \in 1 .. n + 1 : i # j => streams_'[i] # streams_'[j]
    <3> SUFFICES ASSUME NEW i \in 1 .. n + 1, NEW j \in 1 .. n + 1, i # j
                 PROVE  streams_'[i] # streams_'[j]
      OBVIOUS
    <3>1. CASE i = n + 1 \/ j = n + 1
      BY <2>3, <2>4, <3>1
    <3>2. CASE i \in 1 .. n /\ j \in 1 .. n
      BY <2>2, <2>3, <3>2 DEF PrepareInv, Queueing
    <3> QED
      BY <2>2, <3>1, <3>2
  <2>6. prepared_stream_ # None /\ at # "finish" => Active(prepared_stream_)' /\ s # prepared_stream_
    BY <1>1, <2>1 DEF PrepareInv, Queueing, Active
  <2>7. \A i \in 1 .. n + 1 :
          Active(streams_[i])' /\ (at # "finish" => streams_'[i] # prepared_stream_)
    <3> SUFFICES ASSUME NEW i \in 1 .. n + 1
                 PROVE  Active(streams_[i])' /\ (at # "finish" => streams_'[i] # prepared_stream_)
      OBVIOUS
    <3>1. CASE i = n + 1
      <4>1. s # None
        BY PrepareAssumption
      <4> QED
        BY <1>1, <2>3, <2>6, <3>1, <4>1 DEF Active
    <3>2. CASE i \in 1 .. n
      BY <1>1, <2>2, <2>3, <2>4, <3>2 DEF Active, PrepareInv, Queueing
    <3> QED
      BY <2>2, <3>1, <3>2
  <2>8. Queueing'
    <3>1. /\ prepared_stream_' \in Streams \cup {None} /\ at' \in {"top", "prepare", "finish"}
          /\ (at' # "top" => prepared_stream_' # None) /\ ~lock_'
      BY <1>2, <2>1 DEF PrepareInv, Queueing
    <3> QED
      BY <1>1, <2>1, <2>3, <2>5, <2>6, <2>7, <3>1 DEF Queueing
  <2>9. Working'
    BY <1>3, <2>1 DEF PrepareInv, Working
  <2>10. Calling'
    BY <1>2, <2>1 DEF PrepareInv, Calling, Settled
  <2> QED
    BY <2>8, <2>9, <2>10 DEF PrepareInv
<1>4. CASE ~prepare_running_
  <2>1. /\ lock_' = TRUE /\ argument' = s /\ calls' = [calls EXCEPT ![Client] = Ask]
        /\ UNCHANGED <<state_, thread, streams_, prepare_running_, prepared_stream_, at>>
    BY <1>4 DEF Prepare, Ask
  <2>2. streams_ = <<>> /\ prepared_stream_ = None /\ at = "top" /\ thread # "running"
    BY <1>2, <1>4, Heads DEF PrepareInv, Working
  <2>3. Queueing'
    BY <1>1, <2>1, <2>2 DEF Queueing
  <2>4. /\ calls'[Client] = Ask
        /\ calls' = [c \in Callers |-> IF c = Client THEN calls'[Client] ELSE <<>>]
    BY <2>1, CallsOn DEF PrepareInv
  <2>5. Calling'
    BY <1>2, <1>4, <2>1, <2>2, <2>4 DEF Calling, InPrepare, Settled
  <2>6. Working'
    BY <1>4, <2>1, <2>2 DEF PrepareInv, Working
  <2> QED
    BY <2>3, <2>5, <2>6 DEF PrepareInv
<1> QED
  BY <1>3, <1>4

LEMMA StartedKeeps ==
  ASSUME PrepareInv, Started
  PROVE  PrepareInv'
<1>1. calls[Client] = Starts
  BY Heads DEF Started, At, PrepareInv, Calling, InPrepare, InDestroy
<1>2. thread = "running" /\ state_ = "kActive" /\ lock_ /\ ~prepare_running_
  BY <1>1, Place DEF PrepareInv
<1>3. calls' = [calls EXCEPT ![Client] = <<>>]
  BY <1>1, Tails DEF Started, Done
<1>4. /\ calls'[Client] = <<>>
      /\ calls' = [c \in Callers |-> IF c = Client THEN calls'[Client] ELSE <<>>]
  BY <1>3, CallsOn DEF PrepareInv
<1>5. /\ prepare_running_' = TRUE /\ lock_' = FALSE /\ streams_' = Append(streams_, argument)
      /\ UNCHANGED <<state_, thread, prepared_stream_, at, stream>>
  BY DEF Started
<1>6. Calling'
  BY <1>2, <1>4, <1>5 DEF Calling, Settled
<1>7. Working'
  BY <1>2, <1>5 DEF Working
<1>8. /\ streams_ = <<>> /\ prepared_stream_ = None /\ at = "top"
      /\ argument \in Streams /\ Active(argument) /\ stream \in [Streams -> Stream]
  BY <1>2 DEF PrepareInv, Working, Queueing
<1>9. streams_' \in Seq(Streams) /\ Len(streams_') = 1 /\ streams_'[1] = argument
  BY <1>5, <1>8
<1>10. Active(argument) => stream'[argument].status = "PREPARE_ACTIVE"
  BY <1>5 DEF Active
<1>11. argument # None
  BY <1>8, PrepareAssumption
<1>12. Queueing'
  BY <1>5, <1>8, <1>9, <1>10, <1>11 DEF Queueing, Active
<1> QED
  BY <1>6, <1>7, <1>12 DEF PrepareInv

LEMMA RunFailsKeeps ==
  ASSUME PrepareInv, RunFails
  PROVE  PrepareInv'
<1>1. thread = "none" /\ state_ = "kInactive" /\ ~prepare_running_
  BY Heads DEF RunFails, At, PrepareInv, Calling, InPrepare, InDestroy
<1>2. /\ calls' = [calls EXCEPT ![Client] = <<>>] /\ lock_' = FALSE
      /\ UNCHANGED <<state_, thread, streams_, prepared_stream_, prepare_running_, at, stream>>
  BY DEF RunFails
<1>3. /\ calls'[Client] = <<>>
      /\ calls' = [c \in Callers |-> IF c = Client THEN calls'[Client] ELSE <<>>]
  BY <1>2, CallsOn DEF PrepareInv
<1>4. Calling'
  BY <1>1, <1>2, <1>3 DEF Calling, Settled
<1>5. Working'
  BY <1>1, <1>2 DEF PrepareInv, Working
<1>6. Queueing'
  BY <1>2 DEF PrepareInv, Queueing, Active
<1> QED
  BY <1>4, <1>5, <1>6 DEF PrepareInv

LEMMA TearDownKeeps ==
  ASSUME PrepareInv, NEW s \in Streams, TearDown(s)
  PROVE  PrepareInv'
<1>1. stream \in [Streams -> Stream] /\ stream[s] \in Stream
  BY DEF PrepareInv, Queueing
<1>2. /\ stream' = [r \in Streams |-> stream'[r]] /\ stream'[s] \in Stream
      /\ \A r \in Streams : r # s => stream'[r] = stream[r]
      /\ stream'[s].status = stream[s].status
  BY <1>1 DEF TearDown, Stream
<1>3. stream' \in [Streams -> Stream] /\ \A r \in Streams : Active(r) <=> Active(r)'
  BY <1>1, <1>2 DEF Active
<1>4. UNCHANGED <<helperVars, lock_, streams_, prepared_stream_, prepare_running_, argument, at>>
  BY DEF TearDown, handlerVars
<1>5. Queueing'
  <2>1. \A i \in 1 .. Len(streams_) : streams_[i] \in Streams
    BY DEF PrepareInv, Queueing
  <2> QED
    BY <1>3, <1>4, <2>1 DEF PrepareInv, Queueing, Active
<1>6. Calling'
  BY <1>4 DEF PrepareInv, Calling, InPrepare, InDestroy, Settled, helperVars
<1>7. Working'
  BY <1>4 DEF PrepareInv, Working, helperVars
<1> QED
  BY <1>5, <1>6, <1>7 DEF PrepareInv

LEMMA DestroyKeeps ==
  ASSUME PrepareInv, Destroy
  PROVE  PrepareInv'
<1>1. Settled /\ ~lock_ /\ calls[Client] = <<>>
  BY Heads DEF Destroy, PrepareInv, Calling, InPrepare, InDestroy
<1>2. /\ calls' = [calls EXCEPT ![Client] = Exits] /\ streams_' = <<>>
      /\ stream' = EndPrepare({streams_[i] : i \in 1 .. Len(streams_)})
      /\ UNCHANGED <<state_, thread, lock_, prepared_stream_, prepare_running_, at>>
  BY DEF Destroy, Exits
<1>3. /\ calls'[Client] = Exits
      /\ calls' = [c \in Callers |-> IF c = Client THEN calls'[Client] ELSE <<>>]
  BY <1>2, CallsOn DEF PrepareInv
<1>4. Calling'
  BY <1>1, <1>2, <1>3 DEF Calling, InDestroy, Settled
<1>5. Working'
  BY <1>1, <1>2, Heads DEF PrepareInv, Working
<1>6. /\ stream' \in [Streams -> Stream]
      /\ \A s \in Streams : s \notin {streams_[i] : i \in 1 .. Len(streams_)} /\ Active(s)
           => Active(s)'
  BY <1>2, Ended
<1>7. prepared_stream_ # None /\ at # "finish" => Active(prepared_stream_)'
  <2> SUFFICES ASSUME prepared_stream_ # None, at # "finish"
               PROVE  stream'[prepared_stream_].status = "PREPARE_ACTIVE"
    BY <1>2 DEF Active
  <2>1. /\ prepared_stream_ \in Streams /\ Active(prepared_stream_)
        /\ prepared_stream_ \notin {streams_[i] : i \in 1 .. Len(streams_)}
    BY DEF PrepareInv, Queueing
  <2> QED
    BY <1>6, <2>1 DEF Active
<1>8. Queueing'
  <2>1. /\ prepared_stream_ \in Streams \cup {None} /\ at \in {"top", "prepare", "finish"}
        /\ (at # "top" => prepared_stream_ # None)
    BY DEF PrepareInv, Queueing
  <2>2. streams_' \in Seq(Streams) /\ Len(streams_') = 0 /\ ~lock_'
    BY <1>1, <1>2
  <2>3. \A i \in 1 .. Len(streams_') : FALSE
    BY <2>2
  <2> QED
    BY <1>2, <1>6, <1>7, <2>1, <2>2, <2>3 DEF Queueing
<1> QED
  BY <1>4, <1>5, <1>8 DEF PrepareInv

-----------------------------------------------------------------------------
LEMMA PrepareInitHolds == PrepareInit => PrepareInv
<1> SUFFICES ASSUME PrepareInit PROVE PrepareInv
  OBVIOUS
<1>1. calls[Client] = <<>>
  BY PrepareAssumption DEF PrepareInit, HelperInit
<1>2. Calling
  BY <1>1 DEF PrepareInit, HelperInit, Calling, Settled
<1>3. Working
  BY DEF PrepareInit, HelperInit, Working
<1>4. Queueing
  BY DEF PrepareInit, Queueing, Stream
<1> QED
  BY <1>2, <1>3, <1>4 DEF PrepareInv

LEMMA PrepareStepKeeps == PrepareInv /\ [PrepareNext]_allVars => PrepareInv'
<1> SUFFICES ASSUME PrepareInv, [PrepareNext]_allVars PROVE PrepareInv'
  OBVIOUS
<1>1. CASE \E s \in Streams : Prepare(s) \/ TearDown(s)
  BY Zenon, <1>1, PrepareKeeps, TearDownKeeps
<1>2. CASE Destroy
  BY <1>2, DestroyKeeps
<1>3. CASE ClientGoesOn
  BY Zenon, <1>3, HelperKeeps, StartedKeeps, RunFailsKeeps DEF ClientGoesOn
<1>4. CASE PrepareLoop
  BY Zenon, <1>4, StopKeeps, PickKeeps, AbortKeeps, ContinueKeeps DEF PrepareLoop
<1>5. CASE PrepareBuffer \/ PrepareFails \/ Finish
  BY Zenon, <1>5, PrepareBufferKeeps, PrepareFailsKeeps, FinishKeeps
<1>6. CASE MainLoopEnds /\ UNCHANGED <<handlerVars, at, stream, outstanding>>
  BY <1>6, MainLoopEndsKeeps
<1>7. CASE UNCHANGED allVars
  <2>1. /\ UNCHANGED <<state_, thread, holder, calls>>
        /\ UNCHANGED <<lock_, streams_, prepared_stream_, prepare_running_, argument, at, stream>>
    BY <1>7 DEF allVars, helperVars, handlerVars
  <2>2. Calling'
    BY <2>1 DEF PrepareInv, Calling, InPrepare, InDestroy, Settled
  <2>3. Working'
    BY <2>1 DEF PrepareInv, Working
  <2>4. Queueing'
    BY <2>1 DEF PrepareInv, Queueing, Active
  <2> QED
    BY <2>2, <2>3, <2>4 DEF PrepareInv
<1> QED
  BY Zenon, <1>1, <1>2, <1>3, <1>4, <1>5, <1>6, <1>7 DEF PrepareNext, Thread

\* The client alone is in a call; where it is about to create or to join a thread,
\* InPrepare and InDestroy say whether there is one.
LEMMA PrepareInvEnough == PrepareInv => PreparedOnce
<1> SUFFICES ASSUME PrepareInv PROVE PreparedOnce
  OBVIOUS
<1>1. StdThreadRespected
  <2>1. \A c \in Callers : c # Client => calls[c] = <<>>
    BY DEF PrepareInv, Calling
  <2>2. At(Client, "create") => thread = "none"
    BY Heads DEF At, PrepareInv, Calling, InPrepare, InDestroy
  <2>3. At(Client, "join") => thread # "none"
    BY Heads DEF At, PrepareInv, Calling, InPrepare, InDestroy
  <2> QED
    BY Zenon, <2>1, <2>2, <2>3 DEF StdThreadRespected, At
<1>2. at # "finish" => prepared_stream_ \notin Queued
  BY DEF PrepareInv, Queueing, Queued
<1>3. \A s \in Queued : stream[s].status = "PREPARE_ACTIVE"
  BY DEF PrepareInv, Queueing, Queued, Active
<1>4. at = "prepare" => stream[prepared_stream_].status = "PREPARE_ACTIVE"
  BY DEF PrepareInv, Queueing, Active
<1>5. /\ prepare_running_ => thread = "running"
      /\ \A i, j \in 1 .. Len(streams_) : i # j => streams_[i] # streams_[j]
  BY DEF PrepareInv, Working, Queueing
<1> QED
  BY <1>1, <1>2, <1>3, <1>4, <1>5 DEF PreparedOnce

\* A stream given to Camera3PrepareHandler::Prepare waits in streams_ once or is being
\* prepared, its status says so, prepare_running_ is set only while the thread is in
\* ThreadLoop, and RequestExitAndWait and Run, by which Prepare restarts a thread that
\* stopped by itself, join it before they assign it: for any number of streams and of
\* buffers, wherever the thread is on its way out when it is told to exit.
THEOREM StreamsPreparedOnce == PrepareSpec => []PreparedOnce
<1>1. PrepareInit => PrepareInv
  BY PrepareInitHolds
<1>2. PrepareInv /\ [PrepareNext]_allVars => PrepareInv'
  BY PrepareStepKeeps
<1>3. PrepareInv => PreparedOnce
  BY PrepareInvEnough
<1> QED
  BY <1>1, <1>2, <1>3, PTL DEF PrepareSpec
=============================================================================
