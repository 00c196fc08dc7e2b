------------------------ MODULE Camera3PrepareHandler ------------------------
(***************************************************************************)
(* Camera3PrepareHandler (common/cameraadaptor/qmmf_camera3_prepare_handler *)
(* .cc): a thread that preallocates the buffers of the streams it is given *)
(* and stops by itself when there are none left.  The next Prepare joins   *)
(* it and starts it again, holding the handler's lock_ meanwhile.          *)
(* The thread itself is a ThreadHelper, whose steps are used as they are.  *)
(*                                                                         *)
(* The client is the one thread that calls in: the device client holds its *)
(* own lock while it calls Prepare, and is destroyed once.                 *)
(***************************************************************************)
EXTENDS ThreadHelper

CONSTANTS
  Streams,
  Total        \* total_buffer_count_ of every stream

VARIABLES
  lock_,             \* held by the client across ThreadHelper calls
  streams_, prepared_stream_, prepare_running_, abort_prepare_,
  at,                \* where ThreadLoop is
  stream,            \* Camera3Stream: status, buffers allocated and prepared
  argument,          \* the stream Prepare was called with
  destroyed,
  outstanding        \* history: streams Prepare accepted and prepare_cb_ did not name yet

handlerVars == <<lock_, streams_, prepared_stream_, prepare_running_,
                 abort_prepare_, argument, destroyed>>
allVars == <<helperVars, handlerVars, at, stream, outstanding>>

None == "NULL"
Client == "client"

ASSUME PrepareAssumption == Client \in Callers /\ None \notin Streams

PrepareInit ==
  /\ HelperInit
  /\ lock_ = FALSE
  /\ streams_ = <<>> /\ prepared_stream_ = None
  /\ prepare_running_ = FALSE /\ abort_prepare_ = FALSE
  /\ at = "top"
  /\ stream = [s \in Streams |-> [status |-> "CONFIGURED", allocated |-> 0, prepared |-> 0]]
  /\ argument = None
  /\ destroyed = FALSE
  /\ outstanding = {}

\* Slip: BeginPrepare leaves the status as it is.
BeginPrepareQuietly(s) == [stream EXCEPT ![s].prepared = 0]

\* Camera3Stream::BeginPrepare and ::EndPrepare.
BeginPrepare(s) == [stream EXCEPT ![s].status = "PREPARE_ACTIVE", ![s].prepared = 0]
EndPrepare(S) ==
  [s \in Streams |-> IF s \in S /\ stream[s].status = "PREPARE_ACTIVE"
                     THEN [stream[s] EXCEPT !.status = "CONFIGURED", !.prepared = 0]
                     ELSE stream[s]]
PrepareCb(s) ==
  /\ outstanding' = outstanding \ {s}

-----------------------------------------------------------------------------
(* The client.                                                             *)

\* Prepare: to the queue of the running thread, or on to StartThread.
Prepare(s) ==
  /\ calls[Client] = <<>> /\ ~destroyed
  /\ stream[s].status = "CONFIGURED"
  /\ stream' = BeginPrepare(s)
  /\ outstanding' = outstanding \cup {s}
  /\ IF prepare_running_
     THEN /\ streams_' = Append(streams_, s)
          /\ UNCHANGED <<calls, lock_, argument>>
     ELSE /\ lock_' = TRUE
          /\ argument' = s
          /\ calls' = [calls EXCEPT ![Client] = <<"RequestExitAndWait", "Run", "started">>]
          /\ UNCHANGED streams_
  /\ UNCHANGED <<state_, thread, holder, prepared_stream_, prepare_running_,
                 abort_prepare_, destroyed, at>>

\* Prepare goes on: Run returned 0.
Started ==
  /\ At(Client, "started")
  /\ Done(Client)
  /\ abort_prepare_' = FALSE
  /\ prepare_running_' = TRUE
  /\ streams_' = Append(streams_, argument)
  /\ lock_' = FALSE
  /\ UNCHANGED <<state_, thread, holder, prepared_stream_, argument, destroyed,
                 at, stream, outstanding>>

\* Slip: nobody is told.
RunFailsSilently ==
  /\ At(Client, "create")
  /\ calls' = [calls EXCEPT ![Client] = <<>>]
  /\ holder' = {}
  /\ lock_' = FALSE
  /\ UNCHANGED <<state_, thread, streams_, prepared_stream_, prepare_running_,
                 abort_prepare_, argument, destroyed, at, stream, outstanding>>

\* Prepare goes on: Run threw in std::thread; the stream stays PREPARE_ACTIVE.
RunFails ==
  /\ At(Client, "create")
  /\ calls' = [calls EXCEPT ![Client] = <<>>]
  /\ holder' = {}
  /\ PrepareCb(argument)
  /\ lock_' = FALSE
  /\ UNCHANGED <<state_, thread, streams_, prepared_stream_, prepare_running_,
                 abort_prepare_, argument, destroyed, at, stream>>

TearDown(s) ==
  /\ calls[Client] = <<>> /\ ~destroyed
  /\ stream[s].status = "CONFIGURED"
  /\ stream' = [stream EXCEPT ![s].allocated = 0]
  /\ UNCHANGED <<helperVars, handlerVars, at, outstanding>>

\* ~Camera3DeviceClient: Clear and RequestExit, then ~Camera3PrepareHandler.
Destroy ==
  /\ ~destroyed
  /\ calls[Client] = <<>>
  /\ destroyed' = TRUE
  /\ stream' = EndPrepare({streams_[i] : i \in 1 .. Len(streams_)})
  /\ streams_' = <<>>
  /\ abort_prepare_' = TRUE
  /\ calls' = [calls EXCEPT ![Client] = <<"RequestExit", "RequestExitAndWait">>]
  /\ UNCHANGED <<state_, thread, holder, lock_, prepared_stream_,
                 prepare_running_, argument, at, outstanding>>

\* The ThreadHelper methods the client is in.
Helper ==
  /\ \/ Enter(Client) \/ WaitState(Client) \/ JoinThread(Client)
     \/ CreateThread(Client) \/ Unlock(Client)
     \/ \E s \in ThreadHelperState : ChangesState(Client, s)
  /\ UNCHANGED <<handlerVars, at, stream, outstanding>>

-----------------------------------------------------------------------------
(* The thread.                                                             *)

RunningAfterStop == FALSE

\* First critical section of ThreadLoop: nothing left to prepare.
Stop ==
  /\ prepared_stream_ = None /\ streams_ = <<>>
  /\ prepare_running_' = RunningAfterStop
  /\ thread' = "returned"
  /\ UNCHANGED <<state_, holder, calls, lock_, streams_, prepared_stream_,
                 abort_prepare_, argument, destroyed, at, stream, outstanding>>

Pick ==
  /\ prepared_stream_ = None /\ streams_ # <<>>
  /\ prepared_stream_' = Head(streams_)
  /\ streams_' = Tail(streams_)
  /\ at' = "prepare"
  /\ UNCHANGED <<helperVars, lock_, prepare_running_, abort_prepare_, argument,
                 destroyed, stream, outstanding>>

Abort ==
  /\ prepared_stream_ # None /\ abort_prepare_
  /\ stream' = EndPrepare({prepared_stream_})
  /\ prepared_stream_' = None
  /\ abort_prepare_' = FALSE
  /\ UNCHANGED <<helperVars, lock_, streams_, prepare_running_, argument, destroyed,
                 at, outstanding>>

Continue ==
  /\ prepared_stream_ # None /\ ~abort_prepare_
  /\ at' = "prepare"
  /\ UNCHANGED <<helperVars, handlerVars, stream, outstanding>>

PrepareLoop ==
  /\ thread = "running" /\ at = "top" /\ ~lock_
  /\ Stop \/ Pick \/ Abort \/ Continue

\* Camera3Stream::PrepareBuffer, no handler lock held.
PrepareBuffer ==
  /\ at = "prepare"
  /\ LET s == prepared_stream_
         r == stream[s]
     IN  /\ r.status = "PREPARE_ACTIVE" /\ r.allocated < Total
         /\ IF r.prepared + 1 < Total
            THEN /\ stream' = [stream EXCEPT ![s].allocated = @ + 1, ![s].prepared = @ + 1]
                 /\ at' = "top"
            ELSE /\ stream' = [stream EXCEPT ![s] =
                       [status |-> "CONFIGURED", allocated |-> r.allocated + 1, prepared |-> 0]]
                 /\ at' = "finish"
  /\ UNCHANGED <<helperVars, handlerVars, outstanding>>

\* PrepareBuffer failed (no memory, or every buffer exists): EndPrepare.
PrepareFails ==
  /\ at = "prepare"
  /\ stream' = EndPrepare({prepared_stream_})
  /\ at' = "finish"
  /\ UNCHANGED <<helperVars, handlerVars, outstanding>>

\* Second critical section of ThreadLoop.
Finish ==
  /\ at = "finish" /\ ~lock_
  /\ PrepareCb(prepared_stream_)
  /\ prepared_stream_' = None
  /\ at' = "top"
  /\ UNCHANGED <<helperVars, lock_, streams_, prepare_running_, abort_prepare_,
                 argument, destroyed, stream>>

Thread ==
  \/ PrepareLoop \/ PrepareBuffer \/ PrepareFails \/ Finish
  \/ (MainLoopEnds /\ UNCHANGED <<handlerVars, at, stream, outstanding>>)

ClientGoesOn == Helper \/ Started \/ RunFails

PrepareNext ==
  \/ \E s \in Streams : Prepare(s) \/ TearDown(s)
  \/ Destroy \/ ClientGoesOn \/ Thread

PrepareSpec == PrepareInit /\ [][PrepareNext]_allVars

\* The thread runs, and the client finishes a call it has begun.
PrepareFairSpec == PrepareSpec /\ WF_allVars(Thread) /\ WF_allVars(ClientGoesOn)

-----------------------------------------------------------------------------
Queued == {streams_[i] : i \in 1 .. Len(streams_)}

\* Every accepted Prepare is answered by prepare_cb_, unless the device client is
\* destroyed, although the thread stops by itself just when the next stream arrives:
\* none is left in the queue of a thread that is gone, and Prepare never blocks on
\* the thread it joins.
PrepareAnswered ==
  \A s \in Streams : s \in outstanding ~> (s \notin outstanding \/ destroyed)

\* A stream is prepared at one place at a time: it waits in the queue once, or the
\* thread prepares it (it may be queued again before prepare_cb_ is called);
\* prepare_running_ never claims a thread that has left ThreadLoop for good; and the
\* thread is joined and assigned as std::thread allows (ThreadHelper::Run and
\* ::RequestExitAndWait).
PreparedOnce ==
  /\ \A i, j \in 1 .. Len(streams_) : i # j => streams_[i] # streams_[j]
  /\ at # "finish" => prepared_stream_ \notin Queued
  /\ \A s \in Queued : stream[s].status = "PREPARE_ACTIVE"
  /\ at = "prepare" => stream[prepared_stream_].status = "PREPARE_ACTIVE"
  /\ prepare_running_ => thread = "running"
  /\ StdThreadRespected
=============================================================================
