---------------------------- MODULE TrackSource ----------------------------
(***************************************************************************)
(* The buffers of a video track: TrackSource of recorder/src/service/      *)
(* qmmf_camera_source.cc, fed by its last FrameRateController (frc_) over  *)
(* BufferProducerImpl and BufferConsumerImpl (qmmf_recorder_utils.h).      *)
(*                                                                         *)
(* Four threads meet here: the camera's, which brings frames down to       *)
(* OnFrameAvailable; the encoder's input thread, which calls GetBuffer and *)
(* sends the end of stream; the OMX component's, which brings buffers back *)
(* (ReturnBuffer) and tells that the port is idle; and the thread of the   *)
(* client's Start, Stop, Pause, Resume and ReturnTrackBuffer.  A step is   *)
(* one critical section.  A linked track (InitCopy) is a consumer that     *)
(* holds buffers of this one and returns them one by one.                  *)
(***************************************************************************)
EXTENDS Integers, Sequences, FiniteSets, SequencesExt

CONSTANTS Buffers,   \* the stream's buffers
          Tracks,    \* what a track may be: format, how often it is started (a
                     \* bound), and whether its client calls EnableFrameRepeat
          Rescaled,  \* whether rescaler_ may be set, a set of Booleans
          MaxRepeats,\* bound: how often one frame is repeated
          Inputs,    \* the input buffers of the encoder's component
          None

\* The formats the code tells apart: the ones an encoder consumes, the ones
\* that go to the client, and the one that Flush leaves out.
Encoded == {"AVC"}
Raw == {"NV12", "RDI16"}

VARIABLES
  format,            \* track_params_.params.format_type
  rescaler_,         \* one is set
  port_,             \* the camera port: off, on, paused
  active_,           \* frc_: between Start and Stop
  connected,         \* frc_ has this track as its consumer
  enable_frame_repeat_, frame_repeat_enabled_, \* the track's flag and frc_'s
  setter,            \* "locked": EnableFrameRepeat has frame_repeat_lock_, "none":
                     \* it is not called
  upstream,          \* buffers that came to frc_ and have not left it: the camera
                     \* may write into all others
  buffers_,          \* frc_'s producer: references to each buffer it handed on
  buffer_map_,       \* references to each buffer here, 0: no entry
  stream_buffer_map_,\* keys
  frames_received_,  \* for the encoder: records of buffer and encodes pending
  encoding,          \* frames_being_encoded_, in the order they were taken, with
                     \* needs_return (last) and the flag OMX_BUFFERFLAG_EOS (eos)
  buffers_map_,      \* buffers the encoder was given
  buffer_list_,      \* with the client
  linked,            \* how often each buffer is with the linked track
  dead,              \* the client died
  num_consumers_,    \* 1: a linked track is attached
  is_stop_, is_paused_, eos_acked_, is_idle_,
  camera,            \* the camera's thread: place, buffer, and how often frc_ will
                     \* bring this frame again before it releases its frame_lock_
  input,             \* the encoder's input thread
  component,         \* the OMX component: place in its idle notification
  control,           \* the client's thread
  starts,            \* how often the track may still be started
  aborted,           \* the assertion that failed, or "no"
  conduct,           \* history of what the code's callers did or met:
                     \* "late": the component was done before kPortStop was
                     \* notified, "paused": stopped while paused, "linked":
                     \* stopped while a linked track is attached, "flushed",
                     \* "tight": stopped while a frame was on its way in,
                     \* "repeated": a frame was encoded twice, "resumed": a raw
                     \* track was resumed
  astray             \* history: the buffers kPortIdle gave back although they were
                     \* referenced, and the ones repeated

params == <<format, rescaler_, enable_frame_repeat_, frame_repeat_enabled_, setter>>
history == <<conduct, astray>>
pool == <<upstream, buffers_, buffer_map_, stream_buffer_map_>>
queues == <<frames_received_, encoding, buffers_map_, buffer_list_, linked>>
flags == <<is_stop_, is_paused_, eos_acked_, is_idle_>>
pipe == <<port_, dead, active_, connected, num_consumers_>>
threads == <<camera, input, component, control>>
trackVars ==
  <<params, starts, pipe, pool, queues, flags, threads, aborted, history>>

NoneLinked == \A b \in Buffers : linked[b] = 0
Inside == {"arrived", "checked", "fed", "listed"}    \* frc_ holds its producer's lock
IsEncoded == format \in Encoded
Note(what) == conduct' = conduct \cup what
Strays(bs) == astray' = astray \cup bs

TrackInit ==
  /\ \E t \in Tracks : /\ format = t.format /\ starts = t.starts
                      /\ setter = IF t.repeats THEN "idle" ELSE "none"
  /\ rescaler_ \in Rescaled
  /\ dead = FALSE /\ port_ = "off" /\ active_ = FALSE /\ connected = FALSE
  /\ num_consumers_ = 0 /\ upstream = {}
  /\ enable_frame_repeat_ = FALSE /\ frame_repeat_enabled_ = FALSE
  /\ buffers_ = [b \in Buffers |-> 0] /\ buffer_map_ = [b \in Buffers |-> 0]
  /\ stream_buffer_map_ = {}
  /\ frames_received_ = <<>> /\ encoding = <<>> /\ buffers_map_ = {}
  /\ buffer_list_ = {} /\ linked = [b \in Buffers |-> 0]
  /\ is_stop_ = FALSE /\ is_paused_ = FALSE /\ eos_acked_ = FALSE /\ is_idle_ = TRUE
  /\ camera = [pc |-> "idle", buf |-> None, more |-> 0]
  /\ input = "off" /\ component = "off" /\ control = "stopped"
  /\ aborted = "no" /\ conduct = {} /\ astray = {}

-----------------------------------------------------------------------------
(* What a return does to the three counts.                                 *)

\* BufferProducerImpl::NotifyBufferReturned: the last reference gives the
\* buffer back to the camera.
NotifyBufferReturned(refs, b) == [refs EXCEPT ![b] = IF @ = 0 THEN 0 ELSE @ - 1]

\* Slip: a buffer that is still referenced here is given back.
ReturnAtOnce(p, b) ==
  [refs |-> NotifyBufferReturned(p.refs, b), map |-> [p.map EXCEPT ![b] = 0],
   stream |-> p.stream \ {b}]

\* ReturnBufferToProducer, on the three counts as a record.
ReturnBufferToProducer(p, b) ==
  CASE p.map[b] = 0 -> p
    [] p.map[b] = 1 ->
         [refs |-> NotifyBufferReturned(p.refs, b), map |-> [p.map EXCEPT ![b] = 0],
          stream |-> p.stream \ {b}]
    [] num_consumers_ = 0 /\ rescaler_ ->
         [refs |-> NotifyBufferReturned(p.refs, b), map |-> [p.map EXCEPT ![b] = 0],
          stream |-> p.stream \ {b}]
    [] OTHER -> [p EXCEPT !.map[b] = @ - 1]

Pool == [refs |-> buffers_, map |-> buffer_map_, stream |-> stream_buffer_map_]

\* The buffers whose last reference is gone leave frc_ (its NotifyBufferReturned).
Leaves(refs) == upstream' = upstream \ {b \in Buffers : buffers_[b] > 0 /\ refs[b] = 0}
SetPool(p) == /\ buffers_' = p.refs /\ buffer_map_' = p.map
              /\ stream_buffer_map_' = p.stream /\ Leaves(p.refs)
Return(b) == SetPool(ReturnBufferToProducer(Pool, b))
ReturnAll(s) ==
  SetPool(FoldSeq(LAMBDA f, p : ReturnBufferToProducer(p, f.buf), Pool, s))

Abort(what) == aborted' = what

-----------------------------------------------------------------------------
(* The camera's thread.                                                    *)

\* Bound: one frame of a behaviour is repeated.
MayRepeat == "repeated" \notin conduct

\* FrameRateController::OnFrameAvailable: the frame is let through, or sent
\* back while the controller is stopped; with frame_repeat_enabled_ it is
\* notified several times, all but the last with frc_'s frame_lock_ held.
FramePasses(b) ==
  /\ camera.pc = "idle" /\ b \notin upstream /\ active_ /\ port_ = "on"
  /\ upstream' = upstream \cup {b}
  /\ \E n \in IF frame_repeat_enabled_ /\ MayRepeat THEN 0..MaxRepeats ELSE {0} :
       /\ camera' = [pc |-> "passed", buf |-> b, more |-> n]
       /\ Note(IF n > 0 THEN {"repeated"} ELSE {}) /\ Strays(IF n > 0 THEN {b} ELSE {})
  /\ UNCHANGED <<params, starts, pipe, buffers_, buffer_map_, stream_buffer_map_,
                 queues, flags, input, component, control, aborted>>

CameraGoes(to) == camera' = [camera EXCEPT !.pc = to]
CameraDone ==
  camera' = IF camera.more > 0
              THEN [camera EXCEPT !.pc = "passed", !.more = @ - 1]
              ELSE [pc |-> "idle", buf |-> None, more |-> 0]

\* The camera's thread is in the loop over RepeatFrame: it has frc_'s frame_lock_.
Repeating == camera.more > 0

\* BufferProducerImpl::NotifyBuffer, and the entries OnFrameAvailable makes: an
\* entry that is there already, of a frame brought before, stays as it is.
NotifyBuffer ==
  LET b == camera.buf IN
  /\ camera.pc = "passed"
  /\ IF ~connected
       THEN /\ upstream' = upstream \ {b} /\ CameraDone
            /\ UNCHANGED <<buffers_, buffer_map_, stream_buffer_map_>>
       ELSE /\ buffers_' = [buffers_ EXCEPT ![b] = @ + 1]
            /\ buffer_map_' = [buffer_map_ EXCEPT ![b] = IF @ = 0 THEN 1 ELSE @]
            /\ stream_buffer_map_' = stream_buffer_map_ \cup {b}
            /\ CameraGoes("arrived") /\ UNCHANGED upstream
  /\ UNCHANGED <<params, starts, pipe, queues, flags, input, component,
                 control, aborted, history>>

\* Slip: the end of stream is not looked at.
CheckEosNever == /\ camera.pc = "arrived" /\ CameraGoes("checked")
                 /\ UNCHANGED <<params, starts, pipe, pool, queues, flags,
                                input, component, control, aborted, history>>

\* OnFrameAvailable under eos_lock_: after the end of stream a frame goes back.
CheckEos ==
  /\ camera.pc = "arrived"
  /\ IF eos_acked_ /\ is_stop_ /\ IsEncoded
       THEN Return(camera.buf) /\ CameraDone
       ELSE UNCHANGED pool /\ CameraGoes("checked")
  /\ UNCHANGED <<params, starts, pipe, queues, flags, input, component,
                 control, aborted, history>>

\* OnFrameAvailable under consumer_lock_: the linked track gets the frame.
FeedLinked ==
  LET b == camera.buf IN
  /\ camera.pc = "checked" /\ CameraGoes("fed")
  /\ IF num_consumers_ = 0 THEN UNCHANGED <<buffer_map_, linked, aborted>>
     ELSE IF buffer_map_[b] = 0 THEN Abort("at") /\ UNCHANGED <<buffer_map_, linked>>
     ELSE /\ buffer_map_' = [buffer_map_ EXCEPT ![b] = @ + 1]
          /\ linked' = [linked EXCEPT ![b] = @ + 1] /\ UNCHANGED aborted
  /\ UNCHANGED <<params, starts, pipe, upstream, buffers_, stream_buffer_map_,
                 frames_received_, encoding, buffers_map_, buffer_list_, flags, input,
                 component, control, history>>

\* CalculateEncodesPerFrame: input_frame_rate_ and input_frame_interval_ are never
\* given a value, so with repetition on the quotient can be any number; 0 stands
\* for one below 1, from which pending_encodes_per_frame counts down past 0.
EncodesPerFrame == IF enable_frame_repeat_ THEN {0, 1, 2} ELSE {1}

\* The rest of OnFrameAvailable: back while paused; to the client, or back
\* once stopped; or into the encoder's queue (PushFrameToQueue), for which
\* CalculateEncodesPerFrame takes frame_repeat_lock_.
Dispatch ==
  LET b == camera.buf IN
  /\ camera.pc = "fed"
  /\ IF is_paused_ \/ (is_stop_ /\ ~IsEncoded)
       THEN Return(b) /\ CameraDone /\ UNCHANGED <<frames_received_, buffer_list_,
                                                   is_idle_, history>>
     ELSE IF IsEncoded
       THEN /\ setter # "locked"
            /\ \E n \in EncodesPerFrame :
                 /\ n # 1 => MayRepeat
                 /\ frames_received_' = Append(frames_received_, [buf |-> b, pending |-> n])
                 /\ Note(IF n # 1 THEN {"repeated"} ELSE {})
                 /\ Strays(IF n # 1 THEN {b} ELSE {})
            /\ CameraDone /\ UNCHANGED <<pool, buffer_list_, is_idle_>>
       ELSE /\ buffer_list_' = buffer_list_ \cup {b} /\ is_idle_' = FALSE
            /\ CameraGoes("listed") /\ UNCHANGED <<pool, frames_received_, history>>
  /\ UNCHANGED <<params, starts, pipe, encoding, buffers_map_, linked,
                 is_stop_, is_paused_, eos_acked_, input, component, control, aborted>>

\* ReturnTrackBuffer, by the client or for it.
ReturnTrackBuffer(b) ==
  IF b \notin buffer_list_
    THEN Abort("listed") /\ UNCHANGED <<pool, buffer_list_, is_idle_>>
    ELSE /\ Return(b) /\ buffer_list_' = buffer_list_ \ {b}
         /\ is_idle_' = (is_idle_ \/ buffer_list_ = {b}) /\ UNCHANGED aborted

\* data_cb: RecorderImpl's callback returns the buffer of a dead client.
DataCallback ==
  /\ camera.pc = "listed" /\ CameraDone
  /\ IF dead THEN ReturnTrackBuffer(camera.buf)
             ELSE UNCHANGED <<pool, buffer_list_, is_idle_, aborted>>
  /\ UNCHANGED <<params, starts, pipe, frames_received_, encoding,
                 buffers_map_, linked, is_stop_, is_paused_, eos_acked_, input,
                 component, control, history>>

\* NotifyBufferReturned from the linked track.
LinkedReturns(b) ==
  /\ linked[b] > 0 /\ linked' = [linked EXCEPT ![b] = @ - 1] /\ Return(b)
  /\ UNCHANGED <<params, starts, pipe, frames_received_, encoding,
                 buffers_map_, buffer_list_, flags, threads, aborted, history>>

CameraNext == \/ \E b \in Buffers : FramePasses(b) \/ LinkedReturns(b)
              \/ NotifyBuffer \/ CheckEos \/ FeedLinked \/ Dispatch
              \/ DataCallback

-----------------------------------------------------------------------------
(* The encoder: its input thread (AVCodec::DeliverInput), and the OMX      *)
(* component, which returns buffers in the order it got them.              *)

\* GetBuffer; -1 once stopped, which makes this buffer the end of stream.
GetBuffer ==
  LET f == Head(frames_received_)
      last == f.pending = 1
  IN
  /\ input = "running" /\ frames_received_ # <<>> /\ Len(encoding) < Inputs
  /\ encoding' = Append(encoding, [buf |-> f.buf, last |-> last, eos |-> is_stop_])
  /\ frames_received_' = IF last THEN Tail(frames_received_)
                         ELSE <<[f EXCEPT !.pending = IF @ = 0 THEN 0 ELSE @ - 1]>>
                                \o Tail(frames_received_)
  /\ buffers_map_' = buffers_map_ \cup {f.buf}
  /\ input' = IF is_stop_ THEN "eos" ELSE "running"
  /\ UNCHANGED <<params, starts, pipe, pool, buffer_list_, linked, flags,
                 camera, component, control, aborted, history>>

\* EnableFrameRepeat has frame_repeat_lock_ and wants frc_'s frame_lock_, which the
\* camera's thread has while it wants frame_repeat_lock_.
LockCycle == setter = "locked" /\ Repeating /\ camera.pc = "fed" /\ ~is_paused_

\* Everyone who can return a buffer has done so, and the camera has none.
Starved == upstream = Buffers /\ encoding = <<>> /\ NoneLinked

\* GetBuffer's wait ends: no frame came, because the port gives none, the
\* camera has no buffer for one, or its thread is stuck.
GetBufferTimesOut ==
  /\ input = "running" /\ frames_received_ = <<>> /\ ~is_paused_
  /\ (camera.pc = "idle" /\ (port_ # "on" \/ Starved)) \/ LockCycle
  /\ Abort("timeout")
  /\ UNCHANGED <<params, starts, pipe, pool, queues, flags, threads,
                 history>>

\* ClearInputQueue, up to and with frames_received_.Clear().
ClearInputQueue ==
  /\ IF connected THEN ReturnAll(frames_received_) /\ UNCHANGED aborted
                  ELSE Abort("producer") /\ UNCHANGED pool
  /\ frames_received_' = <<>>

\* DeliverInput, after the end of stream: NotifyPortEvent(kPortStop).
PortStop ==
  /\ input = "eos" /\ ClearInputQueue /\ input' = "acking"
  /\ UNCHANGED <<params, starts, pipe, encoding, buffers_map_,
                 buffer_list_, linked, flags, camera, component, control, history>>

\* and its second half, under eos_lock_.
AckEos ==
  /\ input = "acking" /\ eos_acked_' = TRUE /\ input' = "done"
  /\ UNCHANGED <<params, starts, pipe, pool, queues, is_stop_, is_paused_,
                 is_idle_, camera, component, control, aborted, history>>

\* OnEmptyBufferDone: ReturnBuffer, and after the end of stream kPortIdle.
EmptyBufferDone ==
  LET f == Head(encoding) IN
  /\ component = "on" /\ encoding # <<>>
  /\ IF f.buf \notin buffers_map_
       THEN Abort("found") /\ UNCHANGED <<pool, encoding, buffers_map_>>
       ELSE /\ IF f.last THEN Return(f.buf) ELSE UNCHANGED pool
            /\ encoding' = Tail(encoding) /\ buffers_map_' = buffers_map_ \ {f.buf}
            /\ UNCHANGED aborted
  /\ component' = IF f.eos THEN "clear" ELSE "on"
  /\ Note(IF f.eos /\ input # "done" THEN {"late"} ELSE {}) /\ UNCHANGED astray
  /\ UNCHANGED <<params, starts, pipe, frames_received_, buffer_list_,
                 linked, flags, camera, input, control>>

\* NotifyPortEvent(kPortIdle): first ClearInputQueue again,
IdleClears ==
  /\ component = "clear" /\ ClearInputQueue /\ component' = "return"
  /\ Note(IF camera.pc \in {"checked", "fed"} THEN {"tight"} ELSE {})
  /\ UNCHANGED astray
  /\ UNCHANGED <<params, starts, pipe, encoding, buffers_map_,
                 buffer_list_, linked, flags, camera, input, control>>

\* The frame in the camera's hand will be sent back by CheckEos.
WillReturn == camera.pc = "arrived" /\ eos_acked_

\* then what is still in buffer_map_ goes to frc_'s producer,
IdleReturns ==
  /\ component = "return" /\ component' = "stop"
  /\ buffers_' = [b \in Buffers |->
       IF buffer_map_[b] > 0 /\ b \in stream_buffer_map_
         THEN NotifyBufferReturned(buffers_, b)[b] ELSE buffers_[b]]
  /\ Leaves(buffers_')
  /\ Strays({b \in stream_buffer_map_ : buffer_map_[b] > 0 /\ ~(b = camera.buf /\ WillReturn)})
  /\ UNCHANGED <<params, starts, pipe, buffer_map_, stream_buffer_map_,
                 queues, flags, camera, input, control, aborted, conduct>>

Drained == \A b \in Buffers : buffers_[b] = 0

\* frc_->Stop(), under its frame_lock_: no frame passes any more,
IdleStops ==
  /\ component = "stop" /\ ~Repeating /\ active_' = FALSE /\ component' = "drain"
  /\ UNCHANGED <<params, starts, port_, dead, connected, num_consumers_,
                 pool, queues, flags, camera, input, control, aborted, history>>

\* and it waits for the buffers it handed on; then the pipe is taken apart.
IdleDetaches ==
  /\ component = "drain" /\ Drained /\ camera.pc \notin Inside
  /\ port_' = "off" /\ connected' = FALSE
  /\ IF encoding # <<>> THEN Abort("encoding") /\ UNCHANGED is_idle_
                        ELSE is_idle_' = TRUE /\ UNCHANGED aborted
  /\ component' = "off"
  /\ UNCHANGED <<params, starts, dead, active_, num_consumers_, pool,
                 queues, is_stop_, is_paused_, eos_acked_, camera, input, control,
                 history>>

EncoderNext == GetBuffer \/ GetBufferTimesOut \/ PortStop \/ AckEos
ComponentNext ==
  EmptyBufferDone \/ IdleClears \/ IdleReturns \/ IdleStops \/ IdleDetaches

-----------------------------------------------------------------------------
(* The client's thread.                                                    *)

\* StartTrack: all of it under lock_, stop_lock_ and eos_lock_.
StartTrack ==
  /\ control = "stopped" /\ ~dead /\ starts > 0 /\ starts' = starts - 1
  /\ is_stop_' = FALSE /\ eos_acked_' = FALSE
  /\ port_' = "on" /\ active_' = TRUE /\ connected' = TRUE
  /\ control' = IF IsEncoded THEN "starting" ELSE "started"
  /\ UNCHANGED <<params, dead, num_consumers_, pool, queues, is_paused_,
                 is_idle_, camera, input, component, aborted, history>>

\* The encoder starts: NotifyPortEvent(kPortStart).
PortStart ==
  /\ control = "starting" /\ control' = "started"
  /\ is_idle_' = FALSE /\ input' = "running" /\ component' = "on"
  /\ UNCHANGED <<params, starts, pipe, pool, queues, is_stop_, is_paused_,
                 eos_acked_, camera, aborted, history>>

PauseTrack ==
  /\ control = "started" /\ control' = "paused"
  /\ is_paused_' = TRUE /\ is_idle_' = TRUE /\ port_' = "paused"
  /\ UNCHANGED <<params, starts, dead, active_, connected, num_consumers_,
                 pool, queues, is_stop_, eos_acked_, camera, input, component,
                 aborted, history>>

ResumeTrack ==
  /\ control = "paused" /\ control' = "started"
  /\ is_paused_' = FALSE /\ is_idle_' = FALSE /\ port_' = "on"
  /\ Note(IF IsEncoded THEN {} ELSE {"resumed"})
  /\ UNCHANGED <<params, starts, dead, active_, connected, num_consumers_,
                 pool, queues, is_stop_, eos_acked_, camera, input, component,
                 aborted, astray>>

\* StopTrack, up to is_stop_; the cleanup of a dead client has called Flush.
StopTrack ==
  /\ control \in {"started", "paused"} /\ (dead => "flushed" \in conduct)
  /\ is_paused_' = FALSE /\ is_stop_' = TRUE
  /\ control' = IF IsEncoded THEN "waiting" ELSE "stopping"
  /\ Note((IF control = "paused" THEN {"paused"} ELSE {})
          \cup (IF num_consumers_ > 0 \/ ~NoneLinked THEN {"linked"} ELSE {}))
  /\ UNCHANGED <<params, starts, pipe, pool, queues, eos_acked_, is_idle_,
                 camera, input, component, aborted, astray>>

\* StopTrack without an encoder: frc_->Stop(), which waits for its buffers,
StopPipe ==
  /\ control = "stopping" /\ ~Repeating /\ active_' = FALSE /\ control' = "draining"
  /\ UNCHANGED <<params, starts, port_, dead, connected, num_consumers_,
                 pool, queues, flags, camera, input, component, aborted, history>>

\* Slip: nobody waits for the buffers that were handed on.
DetachAtOnce ==
  /\ control = "draining" /\ camera.pc \notin Inside
  /\ port_' = "off" /\ connected' = FALSE /\ control' = "waiting"
  /\ UNCHANGED <<params, starts, dead, active_, num_consumers_, pool,
                 queues, flags, camera, input, component, aborted, history>>

\* and the pipe is taken apart.
DetachPipe ==
  /\ control = "draining" /\ Drained /\ camera.pc \notin Inside
  /\ port_' = "off" /\ connected' = FALSE /\ control' = "waiting"
  /\ UNCHANGED <<params, starts, dead, active_, num_consumers_, pool,
                 queues, flags, camera, input, component, aborted, history>>

\* CheckAndWaitPendingBuffers gives up after kWaitDelay, which the callers assert
\* it does not.
DrainTimesOut ==
  /\ control = "draining" \/ component = "drain"
  /\ ~Drained /\ Abort("pending")
  /\ UNCHANGED <<params, starts, pipe, pool, queues, flags, threads, history>>

\* The end of StopTrack, the wait for is_idle_.
StopReturns ==
  /\ control = "waiting" /\ is_idle_ /\ control' = "joining"
  /\ UNCHANGED <<params, starts, pipe, pool, queues, flags, camera, input,
                 component, aborted, history>>

\* It gives up after kWaitDuration: StopTrackSource asserts NO_ERROR.
StopTimesOut ==
  /\ control = "waiting" /\ ~is_idle_ /\ Abort("idle")
  /\ UNCHANGED <<params, starts, pipe, pool, queues, flags, threads, history>>

\* StopTrackEncoder joins the input thread and waits for the component.
EncoderStops ==
  /\ control = "joining" /\ input \in {"off", "done"} /\ component = "off"
  /\ control' = "stopped" /\ input' = "off"
  /\ UNCHANGED <<params, starts, pipe, pool, queues, flags, camera,
                 component, aborted, history>>

\* Another thread of the client.
ClientReturns(b) ==
  /\ b \in buffer_list_ /\ ~dead /\ ~(camera.pc = "listed" /\ camera.buf = b)
  /\ ReturnTrackBuffer(b)
  /\ UNCHANGED <<params, starts, pipe, frames_received_, encoding,
                 buffers_map_, linked, is_stop_, is_paused_, eos_acked_, threads,
                 history>>

\* The client of a raw track dies: RecorderImpl marks it dead, calls Flush and
\* then stops the track, if the client did not do that before.
ClientDies ==
  /\ ~dead /\ ~IsEncoded /\ control # "stopped" /\ dead' = TRUE
  /\ UNCHANGED <<params, starts, port_, active_, connected, num_consumers_,
                 pool, queues, flags, threads, aborted, history>>

\* Flush, which does not know every raw format.
Flush ==
  /\ dead /\ "flushed" \notin conduct /\ Note({"flushed"})
  /\ IF format = "NV12"
       THEN /\ SetPool(FoldSeq(LAMBDA b, p : ReturnBufferToProducer(p, b), Pool,
                               SetToSeq(buffer_list_)))
            /\ buffer_list_' = {} /\ is_idle_' = TRUE
       ELSE UNCHANGED <<pool, buffer_list_, is_idle_>>
  /\ UNCHANGED <<params, starts, pipe, frames_received_, encoding,
                 buffers_map_, linked, is_stop_, is_paused_, eos_acked_, threads,
                 aborted, astray>>

\* EnableFrameRepeat, which the encoder core lets through for encoded tracks
\* only: the track's flag under frame_repeat_lock_,
EnableFrameRepeat ==
  /\ IsEncoded /\ control = "started" /\ setter = "idle" /\ setter' = "locked"
  /\ enable_frame_repeat_' = ~enable_frame_repeat_
  /\ UNCHANGED <<format, rescaler_, frame_repeat_enabled_, starts, pipe, pool, queues,
                 flags, threads, aborted, history>>

\* and with that lock held frc_'s flag, under its frame_lock_.
FrcEnableFrameRepeat ==
  /\ setter = "locked" /\ ~Repeating /\ setter' = "idle"
  /\ frame_repeat_enabled_' = enable_frame_repeat_
  /\ UNCHANGED <<format, rescaler_, enable_frame_repeat_, starts, pipe, pool, queues,
                 flags, threads, aborted, history>>

\* A linked track is started (AddConsumer), and stopped (RemoveConsumer,
\* after its own pipe is drained).
AddConsumer ==
  /\ num_consumers_ = 0 /\ control = "started" /\ camera.pc \notin Inside
  /\ num_consumers_' = 1
  /\ UNCHANGED <<params, starts, port_, dead, active_, connected, pool,
                 queues, flags, threads, aborted, history>>

RemoveConsumer ==
  /\ num_consumers_ = 1 /\ NoneLinked /\ camera.pc # "checked" /\ num_consumers_' = 0
  /\ UNCHANGED <<params, starts, port_, dead, active_, connected, pool,
                 queues, flags, threads, aborted, history>>

StopNext ==
  StopTrack \/ StopPipe \/ DetachPipe \/ DrainTimesOut \/ StopReturns
  \/ StopTimesOut \/ EncoderStops
ClientNext == \/ StartTrack \/ PortStart \/ PauseTrack \/ ResumeTrack
              \/ ClientDies \/ Flush \/ AddConsumer \/ RemoveConsumer
              \/ EnableFrameRepeat \/ FrcEnableFrameRepeat

TrackNext ==
  /\ aborted = "no"
  /\ \/ CameraNext \/ EncoderNext \/ ComponentNext \/ StopNext \/ ClientNext
     \/ \E b \in Buffers : ClientReturns(b)

TrackSpec == TrackInit /\ [][TrackNext]_trackVars

-----------------------------------------------------------------------------
(* Properties.                                                             *)

\* The buffers that the encoder, the client or the linked track has, and with
\* them those in its queue.
Lent == {encoding[i].buf : i \in DOMAIN encoding} \cup buffer_list_
        \cup {b \in Buffers : linked[b] > 0}
Held == {frames_received_[i].buf : i \in DOMAIN frames_received_} \cup Lent
InHand == IF camera.pc # "idle" THEN {camera.buf} ELSE {}
Overtaken == conduct \cap {"tight", "linked", "late"} # {}

\* A buffer the encoder, the client or a linked track still reads is not with
\* the camera, which would write into it, and a buffer that is not with the
\* camera is held by one of them: none is lost on the way (OnFrameAvailable,
\* ReturnBufferToProducer and the three queues).  The exceptions are single
\* buffers: one whose frame frame repetition brought to the encoder twice, and
\* one that kPortIdle gave back while it was still referenced here, which
\* happens only when the component's end of stream overtakes kPortStop, a
\* frame is on its way in, or a linked track is attached.
BuffersCirculate ==
  /\ \A b \in Buffers \ astray : /\ b \in Held => b \in upstream
                                 /\ b \in upstream => b \in Held \cup InHand
  /\ astray # {} => Overtaken \/ "repeated" \in conduct

\* Once StopTrack and StopTrackEncoder have returned, nothing is held: no frame
\* of this recording is left for the next one to encode, and the camera stream
\* can go idle ("it is very important to check otherwise camera adaptor will
\* never go in idle state").
StoppedHoldsNothing ==
  control = "stopped" /\ ~Overtaken /\ "repeated" \notin conduct =>
    Held = {} /\ Drained /\ stream_buffer_map_ = {} /\ camera.pc \notin Inside

\* The assertions of TrackSource and StopTrackSource fail only in situations its
\* callers can bring about.  ClearInputQueue has lost its producer: the
\* component emptied the last buffer before the input thread notified
\* kPortStop.  GetBuffer sees no frame: the track was stopped while paused,
\* buffers were lost, or the camera's thread and EnableFrameRepeat wait for
\* each other's lock.  A returned buffer is not listed: its client died while
\* it was handed over.  frc_->Stop times out: somebody keeps a buffer for longer
\* than kWaitDelay, as a dead client does whose format Flush does not know, or
\* buffers were lost.  StopTrack times out: the encoder takes longer than
\* kWaitDuration, or a raw track was resumed and no frame has come since.
AssertionsHold ==
  /\ aborted = "producer" => "late" \in conduct
  /\ aborted = "timeout" =>
       "paused" \in conduct \/ LockCycle \/ Overtaken \/ "repeated" \in conduct
  /\ aborted = "listed" => dead
  /\ aborted = "pending" => Lent \cup InHand # {} \/ Overtaken \/ "repeated" \in conduct
  /\ aborted = "idle" => "resumed" \in conduct \/ component # "off"
  /\ aborted \in {"found", "at", "encoding"} => Overtaken \/ "repeated" \in conduct

=============================================================================
