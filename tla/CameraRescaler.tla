--------------------------- MODULE CameraRescaler ---------------------------
(***************************************************************************)
(* A rescaled track: the frames of its master track go through fsc_ (a     *)
(* FrameRateController) to CameraRescaler, which draws each into a buffer  *)
(* of its own pool and hands that on through frc_ (qmmf_camera_rescaler.cc *)
(* and TrackSource::StartTrack and StopTrack of qmmf_camera_source.cc).    *)
(* Three threads meet: the camera's, the rescaler's and the caller of      *)
(* StartTrack and StopTrack; the track returns its frames from a fourth.   *)
(***************************************************************************)
EXTENDS Integers, Sequences, FiniteSets

CONSTANTS InBuffers,      \* buffers of the master track
          OutBuffers,     \* the RESCALER_BUFFERS_CNT buffers of the pool
          MaxPipeStarts,  \* bound on StartTrack
          None

ASSUME RescalerAssumption ==
  /\ IsFiniteSet(OutBuffers) /\ OutBuffers # {}
  /\ None \notin InBuffers \cup OutBuffers \cup {"alloc", "meta", "map"}

VARIABLES
  fscActive, frcActive,   \* active_ of the two controllers
  attached,               \* the consumers of the pipe are connected
  fed,                    \* buffers_ of fsc_'s producer
  kept,                   \* buffers_ of frc_'s producer: frames the track has
  camera,                 \* the camera's thread inside fsc_
  bufs_list_, is_stop_, abort_, running_,
  loop,                   \* the rescaler's thread and its locals
  mem_alloc_buffers_,     \* "none" until allocated, then "free" or "used"
  pending_buffer_count_, mapped_buffs_,
  user,                   \* progress of StartTrack and StopTrack
  pipeStarts,
  fault,                  \* the one call of the allocator that failed
  late,                   \* a frame entered bufs_list_ after fsc_ was drained
  timedOut                \* a wait of StopTrack ran out: its assertion fails

source == <<fscActive, fed, camera>>
pool == <<mem_alloc_buffers_, pending_buffer_count_>>
thread == <<abort_, running_, loop, mapped_buffs_>>
sink == <<frcActive, kept>>
caller == <<attached, is_stop_, user, pipeStarts, timedOut>>
rescalerVars == <<source, pool, thread, sink, caller, bufs_list_, fault, late>>

NoFrame == [at |-> "none", in |-> None, out |-> None]

RescalerInit ==
  /\ fscActive = FALSE /\ frcActive = FALSE /\ attached = FALSE
  /\ fed = {} /\ kept = {} /\ camera = [at |-> "idle", buf |-> None]
  /\ bufs_list_ = <<>> /\ is_stop_ = FALSE /\ abort_ = FALSE /\ running_ = FALSE
  /\ loop = NoFrame
  /\ mem_alloc_buffers_ = [o \in OutBuffers |-> "none"]
  /\ pending_buffer_count_ = 0 /\ mapped_buffs_ = {}
  /\ user = "stopped" /\ pipeStarts = 0 /\ fault = None /\ late = FALSE /\ timedOut = FALSE

buffer_cnt_ == Cardinality(OutBuffers)
Those(state) == {o \in OutBuffers : mem_alloc_buffers_[o] = state}

-----------------------------------------------------------------------------
(* The camera's thread.                                                    *)

\* fsc_ lets a frame of the master track through, under its frame_lock_.
FscPasses(b) ==
  /\ camera.at = "idle" /\ attached /\ fscActive /\ b \notin fed
  /\ camera' = [at |-> "passed", buf |-> b]
  /\ UNCHANGED <<fscActive, fed, pool, thread, sink, caller, bufs_list_, fault, late>>

\* NotifyBuffer of fsc_ calls CameraRescaler::OnFrameAvailable, up to IsStop.
FscNotifies ==
  /\ camera.at = "passed"
  /\ IF ~attached \/ is_stop_
     THEN camera' = [at |-> "idle", buf |-> None] /\ UNCHANGED fed
     ELSE camera' = [camera EXCEPT !.at = "checked"] /\ fed' = fed \cup {camera.buf}
  /\ UNCHANGED <<fscActive, pool, thread, sink, caller, bufs_list_, fault, late>>

AddBuf ==
  /\ camera.at = "checked"
  /\ bufs_list_' = Append(bufs_list_, camera.buf)
  /\ camera' = [at |-> "idle", buf |-> None]
  /\ late' = (late \/ user \notin {"running", "frc", "fsc"})
  /\ UNCHANGED <<fscActive, fed, pool, thread, sink, caller, fault>>

-----------------------------------------------------------------------------
(* The rescaler's thread.                                                  *)

\* The test of abort_ in MainLoop, before each ThreadLoop.
MainLoop ==
  /\ loop.at = "loop"
  /\ IF abort_ THEN running_' = FALSE /\ loop' = NoFrame
               ELSE loop' = [loop EXCEPT !.at = "wait"] /\ UNCHANGED running_
  /\ UNCHANGED <<source, pool, abort_, mapped_buffs_, sink, caller, bufs_list_, fault, late>>

\* ThreadLoop waits for a frame, or times out and loops.
ThreadLoop ==
  /\ loop.at = "wait"
  /\ IF bufs_list_ = <<>>
     THEN loop' = [loop EXCEPT !.at = "loop"] /\ UNCHANGED bufs_list_
     ELSE /\ loop' = [at |-> "get", in |-> Head(bufs_list_), out |-> None]
          /\ bufs_list_' = Tail(bufs_list_)
  /\ UNCHANGED <<source, pool, abort_, running_, mapped_buffs_, sink, caller, fault, late>>

\* GetFreeOutputBuffer, which waits while every buffer is pending, and
\* GetBufferLocked: a free buffer, else a new one, else none.
GetBufferLocked ==
  IF Those("free") # {} THEN Those("free")
  ELSE IF Those("none") # {} THEN Those("none") ELSE {None}

GetFreeOutputBuffer ==
  /\ loop.at = "get" /\ pending_buffer_count_ # buffer_cnt_
  /\ \E o \in GetBufferLocked :
       /\ o # None
       /\ mem_alloc_buffers_' = [mem_alloc_buffers_ EXCEPT ![o] = "used"]
       /\ pending_buffer_count_' = pending_buffer_count_ + 1
       /\ loop' = [loop EXCEPT !.at = "map", !.out = o]
  /\ UNCHANGED <<source, abort_, running_, mapped_buffs_, sink, caller, bufs_list_, fault, late>>

\* AllocHWMemBuffer failed, or every buffer is in use although not pending:
\* ThreadLoop goes on with a buffer that has no handle.
GetsNoBuffer ==
  /\ loop.at = "get" /\ pending_buffer_count_ # buffer_cnt_
  /\ \/ GetBufferLocked = {None} /\ UNCHANGED fault
     \/ /\ Those("free") = {} /\ Those("none") # {} /\ fault = None /\ fault' = "alloc"
  /\ loop' = [loop EXCEPT !.at = "failed"]
  /\ UNCHANGED <<source, pool, abort_, running_, mapped_buffs_, sink, caller, bufs_list_, late>>

\* PopulateMetaInfo failed: the buffer is taken but not counted.
PopulateMetaInfoFails ==
  /\ loop.at = "get" /\ pending_buffer_count_ # buffer_cnt_ /\ fault = None /\ fault' = "meta"
  /\ \E o \in GetBufferLocked \ {None} :
       /\ mem_alloc_buffers_' = [mem_alloc_buffers_ EXCEPT ![o] = "used"]
       /\ loop' = [loop EXCEPT !.at = "failed", !.out = o]
  /\ UNCHANGED <<source, pending_buffer_count_, abort_, running_, mapped_buffs_, sink,
                 caller, bufs_list_, late>>

\* MapBuf and Draw; a failed mmap takes the path of a failed GetFreeOutputBuffer.
MapBuf ==
  /\ loop.at = "map"
  /\ \/ /\ loop' = [loop EXCEPT !.at = "drawn"] /\ UNCHANGED fault
        /\ mapped_buffs_' = mapped_buffs_ \cup {loop.out}
     \/ /\ loop.out \notin mapped_buffs_ /\ fault = None /\ fault' = "map"
        /\ loop' = [loop EXCEPT !.at = "failed"] /\ UNCHANGED mapped_buffs_
  /\ UNCHANGED <<source, pool, abort_, running_, sink, caller, bufs_list_, late>>

\* ReturnBufferLocked refuses a buffer when none is pending, and one it does
\* not know.
ReturnBufferLocked(o) ==
  IF pending_buffer_count_ = 0 \/ o = None THEN UNCHANGED pool
  ELSE /\ mem_alloc_buffers_' = [mem_alloc_buffers_ EXCEPT ![o] = "free"]
       /\ pending_buffer_count_' = pending_buffer_count_ - 1

\* The early return of ThreadLoop: both buffers go back.
ThreadLoopFails ==
  /\ loop.at = "failed" /\ ReturnBufferLocked(loop.out) /\ fed' = fed \ {loop.in}
  /\ loop' = [NoFrame EXCEPT !.at = "loop"]
  /\ UNCHANGED <<fscActive, camera, abort_, running_, mapped_buffs_, sink, caller,
                 bufs_list_, fault, late>>

ReturnBufferToProducer ==
  /\ loop.at = "drawn" /\ fed' = fed \ {loop.in}
  /\ loop' = [loop EXCEPT !.at = "send", !.in = None]
  /\ UNCHANGED <<fscActive, camera, pool, abort_, running_, mapped_buffs_, sink, caller,
                 bufs_list_, fault, late>>

\* NotifyBufferToClient: frc_ is stopped or skips the frame, and it comes back,
NotifyBufferToClient ==
  /\ loop.at = "send" /\ ReturnBufferLocked(loop.out)
  /\ loop' = [NoFrame EXCEPT !.at = "loop"]
  /\ UNCHANGED <<source, abort_, running_, mapped_buffs_, sink, caller, bufs_list_, fault, late>>

\* or frc_ is active, and passes it on after it has released frame_lock_.
FrcPasses ==
  /\ loop.at = "send" /\ frcActive /\ loop' = [loop EXCEPT !.at = "passed"]
  /\ UNCHANGED <<source, pool, abort_, running_, mapped_buffs_, sink, caller, bufs_list_,
                 fault, late>>

FrcNotifies ==
  /\ loop.at = "passed" /\ kept' = kept \cup {loop.out}
  /\ loop' = [NoFrame EXCEPT !.at = "loop"]
  /\ UNCHANGED <<source, pool, abort_, running_, mapped_buffs_, frcActive, caller,
                 bufs_list_, fault, late>>

\* The track returns a frame to frc_, that one to the rescaler's pool.
NotifyBufferReturned(o) ==
  /\ o \in kept /\ kept' = kept \ {o} /\ ReturnBufferLocked(o)
  /\ UNCHANGED <<source, thread, frcActive, caller, bufs_list_, fault, late>>

-----------------------------------------------------------------------------
(* StartTrack and StopTrack.                                               *)

\* StartTrack connects the pipe, CameraRescaler::Start runs the thread unless
\* one is running, and both controllers become active.
StartPipe ==
  /\ user = "stopped" /\ pipeStarts < MaxPipeStarts
  /\ attached' = TRUE /\ is_stop_' = FALSE /\ fscActive' = TRUE /\ frcActive' = TRUE
  /\ user' = "running" /\ pipeStarts' = pipeStarts + 1
  /\ IF running_ THEN UNCHANGED <<abort_, running_, loop>>
     ELSE abort_' = FALSE /\ running_' = TRUE /\ loop' = [NoFrame EXCEPT !.at = "loop"]
  /\ UNCHANGED <<fed, camera, pool, mapped_buffs_, kept, bufs_list_, fault, late, timedOut>>

Goes(from, to) == user = from /\ user' = to /\ UNCHANGED <<pipeStarts, timedOut, fault, late>>

StopFrc ==
  /\ Goes("running", "frc") /\ frcActive' = FALSE
  /\ UNCHANGED <<source, pool, thread, kept, attached, is_stop_, bufs_list_>>

\* frc_->Stop() waits for the frames the track has, then fsc_->Stop() begins.
StopFsc ==
  /\ Goes("frc", "fsc") /\ kept = {} /\ fscActive' = FALSE
  /\ UNCHANGED <<fed, camera, pool, thread, sink, attached, is_stop_, bufs_list_>>

\* A wait that runs out fails the assertion on its status: of frc_ while the
\* track keeps a frame, of fsc_ while the rescaler cannot get a buffer.
StopTimesOut ==
  /\ ~timedOut /\ timedOut' = TRUE
  /\ \/ user = "frc" /\ kept # {}
     \/ /\ user = "fsc" /\ fed # {}
        /\ loop.at = "get" /\ pending_buffer_count_ = buffer_cnt_
  /\ UNCHANGED <<source, pool, thread, sink, attached, is_stop_, user, pipeStarts,
                 bufs_list_, fault, late>>

\* Slip: fsc_->Stop() does not wait.
StopsWithFrames ==
  /\ Goes("fsc", "drained")
  /\ UNCHANGED <<source, pool, thread, sink, attached, is_stop_, bufs_list_>>

\* fsc_ has its frames back, all but one that passes it at this moment.
FscDrained ==
  /\ Goes("fsc", "drained") /\ fed = {}
  /\ UNCHANGED <<source, pool, thread, sink, attached, is_stop_, bufs_list_>>

\* CameraRescaler::Stop sets is_stop_,
StopRescaler ==
  /\ Goes("drained", "exit") /\ is_stop_' = TRUE
  /\ UNCHANGED <<source, pool, thread, sink, attached, bufs_list_>>

\* then RequestExitAndWait sets abort_,
RequestExit ==
  /\ Goes("exit", "join") /\ abort_' = TRUE
  /\ UNCHANGED <<source, pool, running_, loop, mapped_buffs_, sink, attached, is_stop_,
                 bufs_list_>>

\* joins the thread, and UnMapBufs forgets the mappings.
Join ==
  /\ Goes("join", "detach") /\ loop.at = "none" /\ mapped_buffs_' = {}
  /\ UNCHANGED <<source, pool, abort_, running_, loop, sink, attached, is_stop_, bufs_list_>>

\* RemoveConsumer waits for a NotifyBuffer in progress (lock_ of the producer).
Detach ==
  /\ Goes("detach", "stopped") /\ camera.at # "checked" /\ attached' = FALSE
  /\ UNCHANGED <<source, pool, thread, sink, is_stop_, bufs_list_>>

RescalerNext ==
  /\ ~timedOut
  /\ \/ \E b \in InBuffers : FscPasses(b)
     \/ FscNotifies \/ AddBuf
     \/ MainLoop \/ ThreadLoop \/ GetFreeOutputBuffer \/ GetsNoBuffer
     \/ PopulateMetaInfoFails \/ MapBuf \/ ThreadLoopFails \/ ReturnBufferToProducer
     \/ NotifyBufferToClient \/ FrcPasses \/ FrcNotifies
     \/ \E o \in OutBuffers : NotifyBufferReturned(o)
     \/ StartPipe \/ StopFrc \/ StopFsc \/ StopTimesOut \/ FscDrained \/ StopRescaler
     \/ RequestExit \/ Join \/ Detach

RescalerSpec == RescalerInit /\ [][RescalerNext]_rescalerVars

-----------------------------------------------------------------------------
ThreadHas == IF loop.at \in {"get", "map", "failed", "drawn"} THEN {loop.in} ELSE {}
InUse == kept \cup (IF loop.at \in {"map", "drawn", "send", "passed"} THEN {loop.out} ELSE {})
Listed == {bufs_list_[i] : i \in DOMAIN bufs_list_}

\* Every frame of the master track that fsc_ counts is at one place of the
\* pipe, and a stopped pipe has none unless it overtook Stop between IsStop
\* and AddBuf: nothing flushes bufs_list_.
InputsReturn ==
  /\ fed = Listed \cup ThreadHas \cup (IF camera.at = "checked" THEN {camera.buf} ELSE {})
  /\ Listed \cap ThreadHas = {} /\ Cardinality(Listed) = Len(bufs_list_)
  /\ user = "stopped" /\ ~late => bufs_list_ = <<>>

\* The pool counts what the thread and the track hold, and a failed
\* PopulateMetaInfo costs it one buffer at most.
PoolCounts ==
  /\ InUse \subseteq Those("used")
  /\ fault # "meta" /\ loop.at # "failed" =>
       InUse = Those("used") /\ pending_buffer_count_ = Cardinality(InUse)
  /\ Cardinality(Those("used") \ InUse) <= 1

\* StopTrack never waits for a rescaler that waits for a buffer nobody has.
NotWedged ==
  ~(user \in {"fsc", "drained", "exit", "join"} /\ loop.at = "get"
      /\ pending_buffer_count_ = buffer_cnt_ /\ kept = {})

\* The buffers of a rescaled track keep circulating in CameraRescaler.
RescaledFramesCirculate == InputsReturn /\ PoolCounts /\ NotWedged
=============================================================================
