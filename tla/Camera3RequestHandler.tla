------------------------ MODULE Camera3RequestHandler ------------------------
(***************************************************************************)
(* Camera3RequestHandler (common/cameraadaptor/                            *)
(* qmmf_camera3_request_handler.cc): a thread that takes capture requests  *)
(* from a queue, or repeats the streaming requests when the queue is       *)
(* empty, and gives them to the HAL.  The device client pauses it to       *)
(* reconfigure the camera.                                                 *)
(*                                                                         *)
(* lock_ guards the queues, pause_lock_ the two pause flags; each critical *)
(* section is one action.  One client thread at a time calls the device    *)
(* client; Clear (Flush) and errors of the device come from other threads. *)
(* owner is where the device client is in its pause protocol.  It learns   *)
(* that the handler is paused from the handler's monitor, here at once     *)
(* (Camera3Monitor models the delay).  Reprocessing is left out.           *)
(***************************************************************************)
EXTENDS Integers, Sequences

CONSTANTS
  MaxBurst,      \* bound: requests in a streaming list
  MaxIds,        \* bound: request ids given out
  MaxFrames,     \* bound: frame numbers given out
  BatchSizes     \* batch sizes of a configuration

ASSUME RequestAssumption ==
  /\ MaxBurst \in Nat \ {0} /\ MaxIds \in Nat /\ MaxFrames \in Nat
  /\ BatchSizes \subseteq Nat \ {0}

VARIABLES
  requests_, streaming_requests_,
  current_frame_number_, streaming_last_frame_number_,
  old_request_,              \* id whose settings were sent last, or NoId
  configuration_update_, batch_size_,
  toggle_pause_state_, paused_state_,
  monitor,                   \* state last asked of the monitor
  current_request_,          \* id of the request in hand, or NoId
  pc, request, settings,     \* ThreadLoop: its place and its locals
  owner,                     \* the device client's place
  exit_pending,
  clear_waits,               \* a caller sleeps in Clear
  next_request_id_,          \* of the device client
  repeating,                 \* history: first id of the streaming list
  promised,                  \* history: last frame number told: of a streaming
                             \* list by its first id, of a queued one by its last
  hal_settings,              \* history: id whose settings the HAL has, or NoId
  mishaps                    \* history: "buffer" (GetBuffer failed), "pause"
                             \* (a reconfiguration ended without a resume)

queues == <<requests_, streaming_requests_, current_frame_number_,
            streaming_last_frame_number_>>
config == <<old_request_, configuration_update_, batch_size_>>
pause == <<toggle_pause_state_, paused_state_, monitor>>
thread == <<current_request_, pc, request, settings>>
client == <<owner, exit_pending, clear_waits, next_request_id_>>
history == <<repeating, promised, hal_settings, mishaps>>
vars == <<queues, config, pause, thread, client, history>>

NoId == -1
NO_IN_FLIGHT_REPEATING_FRAMES == -1
NotTold == MaxFrames + MaxIds + MaxBurst    \* above every frame number
Id == 0 .. MaxIds - 1
\* list: the first id of the streaming list the request belongs to, or NoId.
Request == [id : Id, list : Id \cup {NoId}]

Init ==
  /\ requests_ = <<>> /\ streaming_requests_ = <<>>
  /\ current_frame_number_ = 0
  /\ streaming_last_frame_number_ = NO_IN_FLIGHT_REPEATING_FRAMES
  /\ old_request_ = NoId /\ configuration_update_ = FALSE
  /\ batch_size_ \in BatchSizes
  /\ toggle_pause_state_ = FALSE /\ paused_state_ = TRUE /\ monitor = "IDLE"
  /\ current_request_ = NoId
  /\ pc = "top" /\ settings = FALSE
  /\ request = [id |-> NoId, list |-> NoId, frame |-> -1]
  /\ owner = "free" /\ exit_pending = FALSE /\ clear_waits = FALSE
  /\ next_request_id_ = 0
  /\ repeating = NoId /\ promised = [l \in Id |-> NotTold]
  /\ hal_settings = NoId /\ mishaps = {}

Pending == requests_ # <<>> \/ streaming_requests_ # <<>>

-----------------------------------------------------------------------------
(* Calls of the device client.                                             *)

Resume ==
  /\ UNCHANGED toggle_pause_state_
  /\ IF toggle_pause_state_ THEN UNCHANGED <<paused_state_, monitor>>
     ELSE paused_state_' = FALSE /\ monitor' = "ACTIVE"

MayCall == owner = "free" /\ ~exit_pending

\* The next n ids, as requests of streaming list l or of none.
List(n, l) == [i \in 1 .. n |-> [id |-> next_request_id_ + i - 1, list |-> l]]

QueueRequestList(n) ==
  /\ MayCall
  /\ next_request_id_ + n <= MaxIds
  /\ next_request_id_' = next_request_id_ + n
  /\ requests_' = requests_ \o List(n, NoId)
  /\ promised' = [promised EXCEPT ![next_request_id_ + n - 1] =
                    current_frame_number_ + Len(requests_') - 1]
  /\ Resume
  /\ UNCHANGED <<streaming_requests_, current_frame_number_,
                 streaming_last_frame_number_, config, thread, owner,
                 exit_pending, clear_waits, repeating, hal_settings, mishaps>>

\* The caller is told the last frame number of the list it ends.
TellLast ==
  /\ promised' = IF repeating = NoId THEN promised
                 ELSE [promised EXCEPT ![repeating] = streaming_last_frame_number_]
  /\ streaming_last_frame_number_' = NO_IN_FLIGHT_REPEATING_FRAMES

SetRepeatingRequests(n) ==
  /\ MayCall
  /\ next_request_id_ + n <= MaxIds
  /\ next_request_id_' = next_request_id_ + n
  /\ TellLast
  /\ repeating' = next_request_id_
  /\ streaming_requests_' = List(n, next_request_id_)
  /\ Resume
  /\ UNCHANGED <<requests_, current_frame_number_, config, thread, owner,
                 exit_pending, clear_waits, hal_settings, mishaps>>

\* CancelRequest of the device client asks for a list that repeats.
ClearRepeatingRequests ==
  /\ MayCall
  /\ repeating # NoId
  /\ streaming_requests_' = <<>>
  /\ TellLast
  /\ repeating' = NoId
  /\ UNCHANGED <<requests_, current_frame_number_, config, pause, thread,
                 client, hal_settings, mishaps>>

\* The queued requests get their frame numbers for their error callbacks.
Clear ==
  /\ ~exit_pending /\ ~clear_waits
  /\ Pending \/ current_request_ # NoId
  /\ current_frame_number_ + Len(requests_) <= MaxFrames
  /\ streaming_requests_' = <<>>
  /\ current_frame_number_' = current_frame_number_ + Len(requests_)
  /\ requests_' = <<>>
  /\ TellLast
  /\ repeating' = NoId
  /\ clear_waits' = (current_request_ # NoId)
  /\ UNCHANGED <<config, pause, thread, owner, exit_pending,
                 next_request_id_, hal_settings, mishaps>>

ClearTimesOut ==
  /\ clear_waits
  /\ clear_waits' = FALSE
  /\ UNCHANGED <<queues, config, pause, thread, owner, exit_pending,
                 next_request_id_, history>>

-----------------------------------------------------------------------------
(* The device client's pause protocol.                                     *)

\* A step of the protocol that sets the pause request.
Toggle(from, to, on) ==
  /\ owner = from
  /\ owner' = to
  /\ toggle_pause_state_' = on
  /\ UNCHANGED <<queues, config, paused_state_, monitor, thread, exit_pending,
                 clear_waits, next_request_id_, repeating, promised,
                 hal_settings>>

TogglePause(from, to, on) == Toggle(from, to, on) /\ UNCHANGED mishaps

\* InternalPauseAndWaitLocked
PauseAndWait == MayCall /\ TogglePause("free", "pausing", TRUE)
PauseSeen == monitor = "IDLE" /\ TogglePause("pausing", "paused", TRUE)

\* Slip: FinishConfiguration is not called.
ConfiguredOnly(batch) ==
  /\ hal_settings' = NoId
  /\ UNCHANGED <<queues, config, pause, thread, exit_pending,
                 clear_waits, next_request_id_, repeating, promised,
                 mishaps>>

\* FinishConfiguration; the HAL needs settings after configure_streams.
Configured(batch) ==
  /\ hal_settings' = NoId
  /\ configuration_update_' = TRUE
  /\ batch_size_' = batch
  /\ UNCHANGED <<queues, old_request_, pause, thread, exit_pending,
                 clear_waits, next_request_id_, repeating, promised,
                 mishaps>>

Reconfigure ==
  /\ owner = "paused"
  /\ owner' = "reconfigured"
  /\ Configured(batch_size_)

\* InternalResumeLocked waits for RUNNING if something is pending.
InternalResume == TogglePause("reconfigured", IF Pending THEN "resuming" ELSE "free", FALSE)

\* Slip: InternalResumeLocked does not wait.
ResumeSeenAtOnce == TogglePause("resuming", "free", FALSE)

ResumeSeen == monitor = "ACTIVE" /\ TogglePause("resuming", "free", FALSE)

\* ConfigureStreams, called while nothing runs.
ConfigureStreams(batch) ==
  /\ MayCall /\ monitor = "IDLE"
  /\ UNCHANGED owner
  /\ Configured(batch)

\* DeleteStream: the last stream was deleted with cache = false, or
\* ConfigureStreamsLocked failed.  Nobody resumes.
LeavePaused ==
  /\ Toggle("paused", "free", TRUE)
  /\ mishaps' = mishaps \cup {"pause"}

\* SetErrorStateLockedV: an error of the device, or a wait that timed out.
SetErrorState ==
  \E at \in {"free", "pausing", "resuming"} : TogglePause(at, "error", TRUE)

RequestExit ==
  /\ owner \in {"free", "error"} /\ ~exit_pending
  /\ exit_pending' = TRUE
  /\ UNCHANGED <<queues, config, pause, thread, owner, clear_waits,
                 next_request_id_, history>>

-----------------------------------------------------------------------------
(* ThreadLoop.                                                             *)

Goto(from, to) ==
  /\ pc = from
  /\ pc' = to
  /\ UNCHANGED <<queues, config, pause, current_request_, request, settings,
                 client, history>>

ToIdle ==
  /\ UNCHANGED toggle_pause_state_
  /\ paused_state_' = TRUE
  /\ monitor' = IF paused_state_ THEN monitor ELSE "IDLE"

\* Slip: what was done is looked at, not what was asked for.
PauseObeyedAlready == paused_state_ /\ current_frame_number_ % batch_size_ = 0

\* "the full batch request packet should be send before wait"
PauseObeyed == toggle_pause_state_ /\ current_frame_number_ % batch_size_ = 0

WaitOnPause ==
  /\ pc = "top"
  /\ PauseObeyed
  /\ pc' = "paused"
  /\ ToIdle
  /\ UNCHANGED <<queues, config, current_request_, request, settings, client,
                 history>>

\* A signal or WAIT_TIMEOUT: ThreadLoop starts over, exit pending or not.
PauseWaitEnds == Goto("paused", "top")

\* Both places where ThreadLoop returns false.
Leave == exit_pending

NotPaused == ~PauseObeyed /\ Goto("top", IF Leave THEN "exited" ELSE "get")

\* GetRequest takes r and leaves rest in the queue.
Take(r, rest) ==
  /\ current_frame_number_ < MaxFrames
  /\ requests_' = rest
  /\ request' = [id |-> r.id, list |-> r.list, frame |-> current_frame_number_]
  /\ current_frame_number_' = current_frame_number_ + 1
  /\ monitor' = IF paused_state_ THEN "ACTIVE" ELSE monitor
  /\ paused_state_' = FALSE
  /\ old_request_' = IF configuration_update_ THEN NoId ELSE old_request_
  /\ configuration_update_' = FALSE
  /\ current_request_' = r.id
  /\ pc' = "got"

LastOfBurst == current_frame_number_ + Len(streaming_requests_) - 1

\* Slip: the streaming requests come before the queued ones.
GetRequestStreamingFirst ==
  /\ \/ /\ streaming_requests_ = <<>> /\ requests_ # <<>>
        /\ Take(Head(requests_), Tail(requests_))
        /\ UNCHANGED streaming_last_frame_number_
     \/ /\ streaming_requests_ # <<>>
        /\ Take(Head(streaming_requests_), requests_ \o Tail(streaming_requests_))
        /\ streaming_last_frame_number_' = LastOfBurst
  /\ UNCHANGED <<streaming_requests_, batch_size_, toggle_pause_state_,
                 settings, client, history>>

GetRequest ==
  /\ \/ /\ requests_ # <<>>
        /\ Take(Head(requests_), Tail(requests_))
        /\ UNCHANGED streaming_last_frame_number_
     \/ /\ requests_ = <<>> /\ streaming_requests_ # <<>>
        /\ Take(Head(streaming_requests_), Tail(streaming_requests_))
        /\ streaming_last_frame_number_' = LastOfBurst
  /\ UNCHANGED <<streaming_requests_, batch_size_, toggle_pause_state_,
                 settings, client, history>>

GetRequestAtOnce == pc = "get" /\ GetRequest
GetRequestWaits == ~Pending /\ Goto("get", "waiting")
GetRequestWakes == pc = "waiting" /\ ~exit_pending /\ GetRequest

\* WAIT_TIMEOUT and still nothing to do, or an exit request.
GetRequestTimesOut ==
  /\ pc = "waiting"
  /\ ~Pending \/ exit_pending
  /\ pc' = "top"
  /\ ToIdle
  /\ UNCHANGED <<queues, config, current_request_, request, settings, client,
                 history>>

Got == Goto("got", IF Leave THEN "exited" ELSE "submit")

NewSettings == request.id # old_request_

\* SubmitRequest up to GetBuffer; zoom: smooth_zoom_.IsGoing().
SubmitRequest(zoom) ==
  /\ pc = "submit"
  /\ settings' = (NewSettings \/ zoom)
  /\ old_request_' = IF settings' THEN request.id ELSE old_request_
  /\ pc' = "buffers"
  /\ UNCHANGED <<queues, configuration_update_, batch_size_, pause,
                 current_request_, request, client, history>>

\* The end of SubmitRequest and of HandleErrorRequest: Clear is woken.
ClearCaptureRequest ==
  /\ pc' = "top"
  /\ current_request_' = NoId
  /\ clear_waits' = FALSE
  /\ UNCHANGED <<queues, config, request, settings, exit_pending,
                 next_request_id_, repeating, promised, hal_settings>>

GetBufferFails ==
  /\ pc = "buffers"
  /\ ClearCaptureRequest
  /\ mishaps' = mishaps \cup {"buffer"}
  /\ UNCHANGED <<pause, owner>>

ProcessCaptureRequest ==
  /\ pc = "buffers"
  /\ pc' = "done"
  /\ hal_settings' = IF settings THEN request.id ELSE hal_settings
  /\ UNCHANGED <<queues, config, pause, current_request_, request, settings,
                 client, repeating, promised, mishaps>>

\* The HAL or mark_cb_ refuses the request: set_error_, HandleErrorRequest.
\* set_error_ takes the device client's lock.
ProcessCaptureRequestFails ==
  /\ pc = "buffers"
  /\ owner \notin {"paused", "reconfigured"}
  /\ owner' = "error" /\ toggle_pause_state_' = TRUE
  /\ ClearCaptureRequest
  /\ UNCHANGED <<paused_state_, monitor, mishaps>>

Submitted ==
  pc = "done" /\ ClearCaptureRequest /\ UNCHANGED <<pause, owner, mishaps>>

ThreadLoop ==
  \/ WaitOnPause \/ PauseWaitEnds \/ NotPaused
  \/ GetRequestAtOnce \/ GetRequestWaits \/ GetRequestWakes \/ GetRequestTimesOut
  \/ Got \/ (\E zoom \in BOOLEAN : SubmitRequest(zoom))
  \/ GetBufferFails \/ ProcessCaptureRequest \/ ProcessCaptureRequestFails
  \/ Submitted

Next ==
  \/ \E n \in 1 .. MaxBurst : QueueRequestList(n) \/ SetRepeatingRequests(n)
  \/ ClearRepeatingRequests \/ Clear \/ ClearTimesOut
  \/ PauseAndWait \/ PauseSeen \/ Reconfigure \/ InternalResume \/ ResumeSeen
  \/ (\E batch \in BatchSizes : ConfigureStreams(batch))
  \/ LeavePaused \/ SetErrorState \/ RequestExit
  \/ ThreadLoop

Spec == Init /\ [][Next]_vars

\* The request thread runs; its callers may stop anywhere.
FairSpec == Spec /\ WF_vars(ThreadLoop)

-----------------------------------------------------------------------------
InHand == pc \in {"got", "submit", "buffers", "done"}
Bounded == current_frame_number_ = MaxFrames    \* the model ends here

\* While the device client reconfigures the camera, the thread holds no
\* request: nothing reaches the HAL between PauseAndWait and the resume.
\* This needs every earlier reconfiguration to have ended with a resume.
QuietWhilePaused ==
  owner \in {"paused", "reconfigured"} /\ "pause" \notin mishaps => ~InHand

\* The frame numbers told to the client are the ones that happen.  A number told as
\* the last of a streaming list is not exceeded: no request of that list gets a
\* higher one afterwards.  The last number told for a queued list is the one its
\* last request gets, from GetRequest or, in its error callback, from Clear:
\* whatever is streamed or cancelled in between, and nothing is numbered out of turn.
FrameNumbersKept ==
  /\ InHand /\ request.list # NoId => request.frame <= promised[request.list]
  /\ \A i \in 1 .. Len(requests_) :
       LET r == requests_[i] IN
       r.list = NoId /\ promised[r.id] # NotTold =>
         promised[r.id] = current_frame_number_ + i - 1
  /\ InHand /\ request.list = NoId /\ promised[request.id] # NotTold =>
       promised[request.id] = request.frame

\* A request sent without settings finds its own settings in the HAL, also
\* after a reconfiguration, as long as the device reports no error, every
\* request got its buffers and every pause was ended.
SettingsReachHal ==
  pc = "done" /\ owner # "error" /\ mishaps = {}
    => hal_settings = request.id

\* A pause that is asked for takes effect, if it is not withdrawn, also in the middle
\* of a batch and while requests are streaming; what is queued gets its frame number,
\* unless the handler is paused or left (WaitOnPause, GetRequest).
RequestsProgress ==
  /\ toggle_pause_state_ ~> \/ monitor = "IDLE" \/ ~toggle_pause_state_
                            \/ pc = "exited" \/ Bounded
  /\ \A l \in Id :
       (\E i \in 1 .. Len(requests_) : requests_[i].id = l)
         ~> \/ ~\E i \in 1 .. Len(requests_) : requests_[i].id = l
            \/ toggle_pause_state_ \/ exit_pending \/ Bounded
=============================================================================
