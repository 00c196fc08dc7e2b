---------------------------- MODULE AVCodec ----------------------------
(***************************************************************************)
(* qmmf_avcodec.cc: one codec on top of an OMX component, with the video    *)
(* encoder's output queues (TrackEncoder, qmmf_encoder_core.cc).            *)
(*                                                                         *)
(* Up to five threads share the object: the control thread in StartCodec,  *)
(* StopCodec, PauseCodec or ResumeCodec, a thread in FlushCodec, and the    *)
(* DeliverInput, DeliverOutput and (decoder) ThreadRun threads that         *)
(* StartCodec creates.  The component answers commands through OnEvent,     *)
(* which pushes them into signal_queue_; whoever pops first gets them.      *)
(*                                                                         *)
(* Buffer contents, sizes and OMX structures are left out: an input is a    *)
(* flag (is it the end of the stream), an output buffer a model value.      *)
(* The component is external and answers within the two seconds Pop waits.  *)
(***************************************************************************)
EXTENDS Naturals, Sequences, FiniteSets

CONSTANTS
  Kinds,        \* the codec types explored: "encoder", "decoder"
  Buffers,      \* the output buffers, for each kind
  InCount,      \* input headers (AVCODEC_IN_BUF_COUNT)
  MaxStarts,    \* bound on StartCodec calls, for each kind
  MaxEvents     \* bound on flushes, port setting changes and refused commands

VARIABLES
  kind,          \* format_type_
  codec,         \* the members of AVCodec, under their names
  signal_queue_, \* events OnEvent and OnFillBufferDone pushed
  hdrs,          \* free and used input headers, free and used output headers
  queues,        \* TrackEncoder: free queue, occupied list, the client's buffers,
                 \* and the occupied ones that the component refused
  omx,           \* the component: state, ports, commands, inputs, outputs
  ctl,           \* the control thread
  inT,           \* DeliverInput
  outT,          \* DeliverOutput
  rcT,           \* ThreadRun / PortReconfigOutput
  flT,           \* FlushCodec
  left,          \* what the bounds still allow
  aborted,       \* the assertion that failed, or "no"
  conduct        \* circumstances the properties have to tell apart

vars == <<kind, codec, signal_queue_, hdrs, queues, omx, ctl, inT, outT, rcT, flT,
          left, aborted, conduct>>

OutBufs == Buffers[kind]
NOut == Cardinality(OutBufs)

\* The events that pass through signal_queue_.
StateSet(s) == <<"state", s>>
Port(cmd, p) == <<cmd, p>>
EOS == <<"eos", "">>

Init ==
  /\ kind \in Kinds
  /\ codec = [state_ |-> "loaded", state_pending_ |-> "idle", port_status_ |-> TRUE,
              input_stop_ |-> FALSE, output_stop_ |-> FALSE, isEOSonOutput_ |-> FALSE,
              flush_in_progress_ |-> FALSE, bPortReconfig_ |-> FALSE,
              api_count_ |-> 0, power_hint_ |-> 0]
  /\ signal_queue_ = <<>>
  /\ hdrs = [freeIn |-> 0, usedIn |-> 0, freeOut |-> 0, usedOut |-> 0]
  /\ queues = [free |-> OutBufs, occupied |-> {}, client |-> {}, refused |-> {},
               eos |-> FALSE, forced |-> FALSE]
  /\ omx = [state |-> "loaded", cmds |-> <<StateSet("idle")>>, in |-> <<>>, out |-> {},
            frame |-> FALSE, eos |-> FALSE, changed |-> FALSE,
            open |-> {"in", "out"}, registered |-> {}]
  /\ ctl = [pc |-> "none", then |-> "none", else |-> "none", flush |-> FALSE]
  /\ inT = "none" /\ rcT = "none" /\ flT = "none"
  /\ outT = [pc |-> "none", buf |-> {}]
  /\ left = [starts |-> MaxStarts[kind], events |-> MaxEvents]
  /\ aborted = "no" /\ conduct = {}

Encoder == kind = "encoder"
Decoder == kind = "decoder"

\* The control thread is inside StopCodec.
Stopping ==
  \/ ctl.pc \in {"stop", "raise", "join", "drain", "resumed", "idle", "disable",
                 "disabled1", "disabled2", "unwind"}
  \/ ctl.pc = "await" /\ ctl.then \in {"idle", "disable"}

\* StopSession stops the TrackSource of an encoder before it stops the encoder.
SourceStopped == Encoder /\ (ctl.pc = "source" \/ Stopping)

\* An event of the component is still on its way to signal_queue_: the end of the
\* stream needs an output buffer.
LastIn == TRUE \in {omx.in[i] : i \in DOMAIN omx.in}
Coming == \/ omx.cmds # <<>>
          \/ (omx.eos \/ LastIn) /\ (omx.out # {} \/ outT.pc # "none")

Note(tags) == conduct' = conduct \cup tags

\* A flush is under way while another thread begins to wait for events, or the end
\* of the stream comes; so does it beside a reconfiguration, a start or a pause.
BesideFlush == IF flT = "none" THEN {} ELSE {"overlap"}
BesideOthers ==
  IF /\ flT = "none" /\ rcT \in {"none", "watch", "begin"}
     /\ ctl.pc \in {"running", "source", "paused"} \/ Stopping
  THEN {} ELSE {"overlap"}

(***************************************************************************)
(* signal_queue_.  Pop waits two seconds and fails when nothing came.       *)
(***************************************************************************)
Pop == signal_queue_ # <<>> /\ signal_queue_' = Tail(signal_queue_)
PopTimesOut == signal_queue_ = <<>> /\ ~Coming /\ UNCHANGED signal_queue_
Popped == Head(signal_queue_)

\* Whether the thread that pops has waited for this event.
Took(mine) == IF signal_queue_ = <<>> \/ mine THEN {} ELSE {"stolen"}

\* SendCommand: the component queues the commands, or refuses the first of them.
SendTo(o, cmds) == [o EXCEPT !.cmds = @ \o cmds]

(***************************************************************************)
(* StartCodec and TrackEncoder::Start.                                      *)
(***************************************************************************)

\* The power hint, the port enable commands after an earlier stop, and the
\* registration of the buffers of both ports.  After a forced cleanup the track is
\* deleted, never started.
StartCodec ==
  /\ ctl.pc = "none" /\ left.starts > 0 /\ ~queues.forced
  /\ codec.state_ \in {"loaded", "idle"}
  /\ codec' = [codec EXCEPT !.power_hint_ = @ + 1, !.isEOSonOutput_ = FALSE]
  /\ omx' = SendTo([omx EXCEPT !.registered = {"in", "out"}],
                   IF codec.port_status_ THEN <<>>
                   ELSE <<Port("enable", "in"), Port("enable", "out")>>)
  /\ hdrs' = [hdrs EXCEPT !.freeIn = IF Encoder THEN InCount ELSE 0,
                          !.freeOut = IF Decoder THEN NOut ELSE 0]
  /\ ctl' = [ctl EXCEPT !.pc = IF codec.port_status_ THEN "loaded" ELSE "enabled1"]
  /\ left' = [left EXCEPT !.starts = @ - 1]
  /\ UNCHANGED <<kind, signal_queue_, queues, inT, outT, rcT, flT, aborted, conduct>>

\* A command or buffer call the component refuses makes StartCodec and StopCodec
\* return the error where they are.  TrackEncoder asserts the result; the power
\* hint taken by setPowerHint is not given back.
CallRefused ==
  /\ left.events > 0
  /\ ctl.pc \in {"enabled1", "loaded", "idle", "disable"}
  /\ left' = [left EXCEPT !.events = @ - 1]
  /\ aborted' = IF Encoder THEN "refused" ELSE aborted
  /\ ctl' = [ctl EXCEPT !.pc = IF Stopping THEN "unwind" ELSE "failed"]
  /\ Note({"refused"})
  /\ UNCHANGED <<kind, codec, signal_queue_, hdrs, queues, omx, inT, outT, rcT, flT>>

\* The two port enable answers.  Another event makes StartCodec return its
\* event_result, which is no error, without having started anything.
AwaitEnable ==
  /\ ctl.pc \in {"enabled1", "enabled2"}
  /\ \/ /\ Pop
        /\ ctl' = [ctl EXCEPT !.pc = IF Popped[1] # "enable" THEN "none"
                                     ELSE IF ctl.pc = "enabled1" THEN "enabled2"
                                     ELSE "loaded"]
        /\ codec' = [codec EXCEPT !.port_status_ = @ \/ ctl'.pc = "loaded"]
        /\ UNCHANGED aborted
     \/ /\ PopTimesOut
        /\ ctl' = [ctl EXCEPT !.pc = "failed"]
        /\ aborted' = IF Encoder THEN "start" ELSE aborted
        /\ UNCHANGED codec
  /\ Note(Took(Popped[1] = "enable"))
  /\ UNCHANGED <<kind, hdrs, queues, omx, inT, outT, rcT, flT, left>>

\* WaitState(s): nothing to wait for, or the event is popped; state_ follows only
\* an answer to a state change, and only another state is an error.
WaitState(s, next, onFail, failure) ==
  \/ /\ codec.state_ = s
     /\ ctl' = [ctl EXCEPT !.pc = next]
     /\ UNCHANGED <<codec, signal_queue_, aborted, conduct>>
  \/ /\ codec.state_ # s /\ Pop /\ ~(Popped[1] = "state" /\ Popped[2] # s)
     /\ ctl' = [ctl EXCEPT !.pc = next]
     /\ codec' = [codec EXCEPT !.state_ = IF Popped[1] = "state" THEN s ELSE @]
     /\ Note(Took(Popped[1] = "state")) /\ UNCHANGED aborted
  \/ /\ codec.state_ # s
     /\ PopTimesOut \/ (Pop /\ Popped[1] = "state" /\ Popped[2] # s)
     /\ ctl' = [ctl EXCEPT !.pc = onFail] /\ aborted' = failure
     /\ Note(Took(FALSE)) /\ UNCHANGED codec

AwaitLoaded ==
  /\ ctl.pc = "loaded"
  /\ WaitState("idle", "execute", "failed", IF Encoder THEN "start" ELSE aborted)
  /\ UNCHANGED <<kind, hdrs, queues, omx, inT, outT, rcT, flT, left>>

\* SetState(s): a state change that is still pending is awaited first, a state
\* the machine cannot reach from state_ is an error, else the command goes out.
SetState(s, next, onFail, failure) ==
  IF codec.state_ = s
  THEN ctl' = [ctl EXCEPT !.pc = next] /\ UNCHANGED <<codec, signal_queue_, aborted,
                                                      omx, conduct>>
  ELSE IF codec.state_ # codec.state_pending_
  THEN WaitState(codec.state_pending_, ctl.pc, onFail, failure) /\ UNCHANGED omx
  ELSE IF s = "executing" /\ codec.state_ \notin {"idle", "pause"}
  THEN /\ ctl' = [ctl EXCEPT !.pc = onFail] /\ aborted' = failure
       /\ UNCHANGED <<codec, signal_queue_, omx, conduct>>
  ELSE /\ omx' = SendTo(omx, <<StateSet(s)>>)
       /\ codec' = [codec EXCEPT !.state_pending_ = s]
       /\ ctl' = [ctl EXCEPT !.pc = "await", !.then = next, !.else = onFail]
       /\ UNCHANGED <<signal_queue_, aborted, conduct>>

\* StartCodec asserts that the codec executes, TrackEncoder that it stopped.
AwaitState ==
  /\ ctl.pc = "await"
  /\ WaitState(codec.state_pending_, ctl.then, ctl.else,
               IF ctl.then = "launch" \/ Encoder THEN "state" ELSE aborted)
  /\ UNCHANGED <<kind, hdrs, queues, omx, inT, outT, rcT, flT, left>>

SetExecuting ==
  /\ ctl.pc = "execute"
  /\ SetState("executing", "launch", "failed", "start")
  /\ UNCHANGED <<kind, hdrs, queues, inT, outT, rcT, flT, left>>

\* The stop flags are cleared and the threads start.
Launch ==
  /\ ctl.pc = "launch"
  /\ codec' = [codec EXCEPT !.input_stop_ = FALSE, !.output_stop_ = FALSE]
  /\ inT' = "get" /\ outT' = [pc |-> "top", buf |-> {}]
  /\ rcT' = IF Decoder THEN "watch" ELSE "none"
  /\ ctl' = [ctl EXCEPT !.pc = IF Encoder THEN "started" ELSE "running"]
  /\ UNCHANGED <<kind, signal_queue_, hdrs, queues, omx, flT, left, aborted, conduct>>

\* TrackEncoder::Start, after StartCodec has returned.
StartTrackEncoder ==
  /\ ctl.pc = "started"
  /\ queues' = [queues EXCEPT !.eos = FALSE]
  /\ ctl' = [ctl EXCEPT !.pc = "running"]
  /\ UNCHANGED <<kind, codec, signal_queue_, hdrs, omx, inT, outT, rcT, flT, left,
                 aborted, conduct>>

(***************************************************************************)
(* PauseCodec and ResumeCodec: not begun while the output port is           *)
(* reconfigured, and counted in api_count_ until they return.               *)
(***************************************************************************)
PauseCodec ==
  /\ ctl.pc = "running" /\ Decoder /\ ~codec.bPortReconfig_
  /\ ctl' = [ctl EXCEPT !.pc = "enter"]
  /\ UNCHANGED <<kind, codec, signal_queue_, hdrs, queues, omx, inT, outT, rcT, flT,
                 left, aborted, conduct>>

EnterPause ==
  /\ ctl.pc = "enter"
  /\ codec' = [codec EXCEPT !.api_count_ = @ + 1]
  /\ ctl' = [ctl EXCEPT !.pc = IF codec.state_ = "pause" THEN "resume" ELSE "pause"]
  /\ Note(BesideFlush \cup (IF codec.bPortReconfig_ \/ codec.isEOSonOutput_ THEN {"overlap"} ELSE {}))
  /\ UNCHANGED <<kind, signal_queue_, hdrs, queues, omx, inT, outT, rcT, flT, left,
                 aborted>>

SetPause ==
  /\ ctl.pc \in {"pause", "resume"}
  /\ SetState(IF ctl.pc = "pause" THEN "pause" ELSE "executing",
              "paused", "paused", aborted)
  /\ UNCHANGED <<kind, hdrs, queues, inT, outT, rcT, flT, left>>

PauseReturns ==
  /\ ctl.pc = "paused"
  /\ codec' = [codec EXCEPT !.api_count_ = @ - 1]
  /\ ctl' = [ctl EXCEPT !.pc = "running"]
  /\ UNCHANGED <<kind, signal_queue_, hdrs, queues, omx, inT, outT, rcT, flT, left,
                 aborted, conduct>>

(***************************************************************************)
(* StopCodec and TrackEncoder::Stop.                                        *)
(***************************************************************************)

\* StopSession: first the encoder's TrackSource is stopped, which fails the next
\* GetBuffer and then waits for kPortIdle, unless the track is paused; the time-out
\* of that wait is an assertion of StopTrackSource.
StopSource ==
  /\ ctl.pc = "running" /\ Encoder
  /\ ctl' = [ctl EXCEPT !.pc = "source"] /\ Note(BesideFlush)
  /\ UNCHANGED <<kind, codec, signal_queue_, hdrs, queues, omx, inT, outT, rcT, flT,
                 left, aborted>>

SourceTimesOut ==
  /\ ctl.pc = "source" /\ inT = "none" /\ "cut" \in conduct
  /\ aborted' = "source"
  /\ UNCHANGED <<kind, codec, signal_queue_, hdrs, queues, omx, ctl, inT, outT, rcT,
                 flT, left, conduct>>

\* TrackEncoder::Stop: after its client died the occupied buffers count as free.
\* It always drains the codec; a decoder's user may also stop at once.
Stop(force, flush) ==
  /\ ctl.pc = IF Encoder THEN "source" ELSE "running"
  /\ Encoder => flush
  /\ force => Encoder
  /\ queues' = IF force THEN [queues EXCEPT !.forced = TRUE, !.occupied = {},
                                            !.free = @ \cup queues.occupied]
               ELSE queues
  /\ ctl' = [ctl EXCEPT !.pc = "stop", !.flush = flush]
  /\ Note(BesideFlush \cup (IF codec.state_ = "pause" THEN {"paused"} ELSE {}))
  /\ UNCHANGED <<kind, codec, signal_queue_, hdrs, omx, inT, outT, rcT, flT, left,
                 aborted>>

\* StopCodec: nothing to do when idle.  A decoder waits for the port to be
\* reconfigured; then the stop flags are raised.
StopCodec ==
  /\ ctl.pc = "stop"
  /\ IF "idle" \in {codec.state_, codec.state_pending_}
     THEN ctl' = [ctl EXCEPT !.pc = "none"]
     ELSE ~codec.bPortReconfig_ /\ ctl' = [ctl EXCEPT !.pc = "raise"]
  /\ UNCHANGED <<kind, codec, signal_queue_, hdrs, queues, omx, inT, outT, rcT, flT,
                 left, aborted, conduct>>

\* Slip: the input only stops when the codec is not drained.
RaiseStopUndrained ==
  /\ ctl.pc = "raise"
  /\ codec' = [codec EXCEPT !.api_count_ = @ + 1, !.input_stop_ = ~ctl.flush,
                            !.output_stop_ = @ \/ ~ctl.flush]
  /\ ctl' = [ctl EXCEPT !.pc = "join"]
  /\ Note(IF codec.bPortReconfig_ THEN {"reconfiguring"} ELSE {})
  /\ UNCHANGED <<kind, signal_queue_, hdrs, queues, omx, inT, outT, rcT, flT, left,
                 aborted>>

RaiseStop ==
  /\ ctl.pc = "raise"
  /\ codec' = [codec EXCEPT !.api_count_ = @ + 1, !.input_stop_ = TRUE,
                            !.output_stop_ = @ \/ ~ctl.flush]
  /\ ctl' = [ctl EXCEPT !.pc = "join"]
  /\ Note(IF codec.bPortReconfig_ THEN {"reconfiguring"} ELSE {})
  /\ UNCHANGED <<kind, signal_queue_, hdrs, queues, omx, inT, outT, rcT, flT, left,
                 aborted>>

\* The threads are joined.
Join ==
  /\ ctl.pc = "join"
  /\ inT = "none" /\ outT.pc = "none" /\ rcT = "none"
  /\ ctl' = [ctl EXCEPT !.pc = IF ctl.flush \/ codec.isEOSonOutput_ THEN "drain"
                               ELSE "resumed"]
  /\ UNCHANGED <<kind, codec, signal_queue_, hdrs, queues, omx, inT, outT, rcT, flT,
                 left, aborted, conduct>>

\* The end of the stream has to be the next event.
AwaitEos ==
  /\ ctl.pc = "drain"
  /\ \/ /\ Pop /\ Popped = EOS
        /\ ctl' = [ctl EXCEPT !.pc = "resumed"] /\ UNCHANGED aborted
     \/ /\ PopTimesOut \/ (Pop /\ Popped # EOS)
        /\ ctl' = [ctl EXCEPT !.pc = "unwind"]
        /\ aborted' = IF Encoder THEN "stop" ELSE aborted
  /\ Note(Took(Popped = EOS))
  /\ UNCHANGED <<kind, codec, hdrs, queues, omx, inT, outT, rcT, flT, left>>

\* A paused codec first executes again; then it becomes idle.
StopSetsState ==
  /\ \/ /\ ctl.pc = "resumed" /\ codec.state_ = "pause"
        /\ SetState("executing", "idle", "unwind", aborted)
     \/ /\ ctl.pc = "idle" \/ (ctl.pc = "resumed" /\ codec.state_ # "pause")
        /\ SetState("idle", "disable", "unwind", IF Encoder THEN "stop" ELSE aborted)
  /\ UNCHANGED <<kind, hdrs, queues, inT, outT, rcT, flT, left>>

\* Slip: only the output port is disabled.
DisableOutputPort ==
  /\ ctl.pc = "disable"
  /\ omx' = SendTo([omx EXCEPT !.registered = {}], <<Port("disable", "out")>>)
  /\ codec' = [codec EXCEPT !.port_status_ = FALSE]
  /\ hdrs' = [freeIn |-> 0, usedIn |-> 0, freeOut |-> 0, usedOut |-> 0]
  /\ ctl' = [ctl EXCEPT !.pc = "disabled1"]
  /\ UNCHANGED <<kind, signal_queue_, queues, inT, outT, rcT, flT, left, aborted,
                 conduct>>

\* Both ports are disabled, their buffers freed and the header lists cleared.
DisablePorts ==
  /\ ctl.pc = "disable"
  /\ omx' = SendTo([omx EXCEPT !.registered = {}],
                   <<Port("disable", "out"), Port("disable", "in")>>)
  /\ codec' = [codec EXCEPT !.port_status_ = FALSE]
  /\ hdrs' = [freeIn |-> 0, usedIn |-> 0, freeOut |-> 0, usedOut |-> 0]
  /\ ctl' = [ctl EXCEPT !.pc = "disabled1"]
  /\ UNCHANGED <<kind, signal_queue_, queues, inT, outT, rcT, flT, left, aborted,
                 conduct>>

\* Two events are popped; what they are is only logged, but a Pop that fails last
\* is what StopCodec returns.
AwaitDisable ==
  /\ ctl.pc \in {"disabled1", "disabled2"}
  /\ \/ Pop /\ UNCHANGED aborted
     \/ /\ PopTimesOut
        /\ aborted' = IF Encoder /\ ctl.pc = "disabled2" THEN "stop" ELSE aborted
  /\ ctl' = [ctl EXCEPT !.pc = IF ctl.pc = "disabled1" THEN "disabled2" ELSE "none"]
  /\ codec' = IF ctl.pc = "disabled1" THEN codec
              ELSE [codec EXCEPT !.power_hint_ = @ - 1, !.api_count_ = @ - 1]
  /\ Note(Took(Popped[1] = "disable"))
  /\ UNCHANGED <<kind, hdrs, queues, omx, inT, outT, rcT, flT, left>>

\* An early return of StopCodec.
StopFails ==
  /\ ctl.pc = "unwind"
  /\ codec' = [codec EXCEPT !.api_count_ = @ - 1]
  /\ ctl' = [ctl EXCEPT !.pc = "failed"]
  /\ UNCHANGED <<kind, signal_queue_, hdrs, queues, omx, inT, outT, rcT, flT, left,
                 aborted, conduct>>

\* ReleaseBuffer asserts that no event is left, and gives the component up.
ReleaseBuffer ==
  /\ ctl.pc = "none"
  /\ ctl' = [ctl EXCEPT !.pc = "released"]
  /\ codec' = [codec EXCEPT !.port_status_ = TRUE]
  /\ signal_queue_' = <<>>
  /\ aborted' = IF signal_queue_ # <<>> THEN "release" ELSE aborted
  /\ omx' = [omx EXCEPT !.cmds = <<>>, !.state = "loaded", !.registered = {}]
  /\ Note(IF flT = "none" THEN Took(FALSE) ELSE {"overlap", "released"})
  /\ UNCHANGED <<kind, hdrs, queues, inT, outT, rcT, flT, left>>

(***************************************************************************)
(* FlushCodec, from CameraFlushCb: no lock of StartCodec or StopCodec.      *)
(***************************************************************************)
FlushCodec ==
  /\ flT = "none" /\ left.events > 0
  /\ omx.state \in {"executing", "pause"}
  /\ ~codec.bPortReconfig_
  /\ flT' = "send"
  /\ left' = [left EXCEPT !.events = @ - 1]
  /\ UNCHANGED <<kind, codec, signal_queue_, hdrs, queues, omx, ctl, inT, outT, rcT,
                 aborted, conduct>>

SendFlush ==
  /\ flT = "send"
  /\ codec' = [codec EXCEPT !.api_count_ = @ + 1, !.flush_in_progress_ = TRUE]
  /\ omx' = SendTo(omx, <<Port("flush", "in")>>)
  /\ flT' = "wait"
  /\ Note(IF /\ ctl.pc = "running" /\ rcT \in {"none", "watch"}
             /\ ~codec.isEOSonOutput_
          THEN {} ELSE {"overlap"})
  /\ UNCHANGED <<kind, signal_queue_, hdrs, queues, ctl, inT, outT, rcT, left,
                 aborted>>

\* Any event ends the flush without an error; none is one.
FlushReturns ==
  /\ flT = "wait"
  /\ Pop \/ PopTimesOut
  /\ codec' = [codec EXCEPT !.api_count_ = @ - 1, !.flush_in_progress_ = FALSE]
  /\ flT' = "none"
  /\ aborted' = IF signal_queue_ = <<>> /\ Encoder THEN "flush" ELSE aborted
  /\ Note(Took(Popped = Port("flush", "in")))
  /\ UNCHANGED <<kind, hdrs, queues, omx, ctl, inT, outT, rcT, left>>

(***************************************************************************)
(* DeliverInput.                                                            *)
(***************************************************************************)

\* GetBuffer of the input source and GetInputBufferHdr: an encoder waits for a
\* free header, a decoder's source for one of its buffers to come back.  A stopped
\* TrackSource fails with its last frame, which ends the stream; so may a decoder's
\* source, or have nothing left, which ends the thread.
GetInput ==
  /\ inT = "get"
  /\ Decoder => ~codec.flush_in_progress_
  /\ \/ /\ IF Encoder THEN hdrs.freeIn > 0 ELSE Len(omx.in) < InCount
        /\ inT' \in IF Decoder THEN {"frame", "error"}
                    ELSE IF SourceStopped THEN {"error"} ELSE {"frame"}
        /\ hdrs' = IF Decoder THEN hdrs
                   ELSE [hdrs EXCEPT !.freeIn = @ - 1, !.usedIn = @ + 1]
        /\ UNCHANGED conduct
     \/ /\ Decoder /\ inT' = "none" /\ Note({"starved"}) /\ UNCHANGED hdrs
  /\ UNCHANGED <<kind, codec, signal_queue_, queues, omx, ctl, outT, rcT, flT, left,
                 aborted>>

\* EmptyThisBuffer, with the end of stream flag once input_stop_ is seen.
EmptyThisBuffer ==
  /\ inT \in {"frame", "error"}
  /\ LET last == inT = "error" \/ codec.input_stop_
     IN  /\ omx' = [omx EXCEPT !.in = Append(@, last)]
         /\ inT' = IF last THEN "none" ELSE "get"
  /\ UNCHANGED <<kind, codec, signal_queue_, hdrs, queues, ctl, outT, rcT, flT, left,
                 aborted, conduct>>

\* A refused call ends the thread: no end of stream is sent, none is notified, and
\* the header stays used.
EmptyThisBufferFails ==
  /\ inT \in {"frame", "error"} /\ left.events > 0
  /\ left' = [left EXCEPT !.events = @ - 1]
  /\ inT' = "none" /\ Note({"cut"})
  /\ UNCHANGED <<kind, codec, signal_queue_, hdrs, queues, omx, ctl, outT, rcT, flT,
                 aborted>>

(***************************************************************************)
(* DeliverOutput.                                                           *)
(***************************************************************************)

\* The top of the loop: no flush, no reconfiguration (unless stopped).  For a
\* decoder, being counted in api_count_ is a step of its own.
EnterOutput ==
  /\ outT.pc = "top"
  /\ ~codec.flush_in_progress_
  /\ Decoder => ~codec.bPortReconfig_ \/ codec.output_stop_
  /\ outT' = [outT EXCEPT !.pc = IF Encoder THEN "get" ELSE "enter"]
  /\ codec' = [codec EXCEPT !.api_count_ = IF Encoder THEN @ + 1 ELSE @]
  /\ UNCHANGED <<kind, signal_queue_, hdrs, queues, omx, ctl, inT, rcT, flT, left,
                 aborted, conduct>>

CountOutput ==
  /\ outT.pc = "enter"
  /\ codec' = [codec EXCEPT !.api_count_ = @ + 1]
  /\ outT' = [outT EXCEPT !.pc = "get"]
  /\ UNCHANGED <<kind, signal_queue_, hdrs, queues, omx, ctl, inT, rcT, flT, left,
                 aborted, conduct>>

\* GetBuffer of the output source: the oldest free buffer becomes occupied, or the
\* wait times out and the loop starts again.
GetOutput ==
  /\ outT.pc = "get"
  /\ \/ \E b \in queues.free :
          /\ queues' = [queues EXCEPT !.free = @ \ {b}, !.occupied = @ \cup {b}]
          /\ outT' = [pc |-> IF Encoder THEN "fill" ELSE "got", buf |-> {b}]
          /\ UNCHANGED codec
     \/ /\ queues.free = {}
        /\ outT' = [outT EXCEPT !.pc = "top"]
        /\ codec' = [codec EXCEPT !.api_count_ = @ - 1]
        /\ UNCHANGED queues
  /\ UNCHANGED <<kind, signal_queue_, hdrs, omx, ctl, inT, rcT, flT, left, aborted,
                 conduct>>

\* The buffer goes back to its source unused: it is free again.
GiveBack(q) == [q EXCEPT !.free = @ \cup outT.buf, !.occupied = @ \ outT.buf]

LeaveOutput(pc) ==
  /\ codec' = [codec EXCEPT !.api_count_ = @ - 1]
  /\ outT' = [pc |-> pc, buf |-> {}]

\* GetOutputBufferHdr: an encoder finds the header of the buffer; a decoder takes a
\* free one, or none while the port is reconfigured.
GetOutputBufferHdr ==
  /\ outT.pc = "got"
  /\ \/ /\ ~codec.bPortReconfig_ /\ hdrs.freeOut > 0
        /\ hdrs' = [hdrs EXCEPT !.freeOut = @ - 1, !.usedOut = @ + 1]
        /\ outT' = [outT EXCEPT !.pc = "fill"]
        /\ UNCHANGED <<codec, queues>>
     \/ /\ codec.bPortReconfig_
        /\ queues' = GiveBack(queues) /\ LeaveOutput("top")
        /\ UNCHANGED hdrs
  /\ UNCHANGED <<kind, signal_queue_, omx, ctl, inT, rcT, flT, left, aborted,
                 conduct>>

\* The last checks: the output stopped, or its port is being reconfigured.
RecheckOutput ==
  /\ outT.pc = "fill"
  /\ IF codec.output_stop_ \/ (Decoder /\ codec.bPortReconfig_)
     THEN /\ queues' = GiveBack(queues)
          /\ hdrs' = IF Decoder THEN [hdrs EXCEPT !.freeOut = @ + 1, !.usedOut = @ - 1]
                     ELSE hdrs
          /\ LeaveOutput(IF codec.output_stop_ THEN "none" ELSE "top")
     ELSE /\ outT' = [outT EXCEPT !.pc = "call"]
          /\ UNCHANGED <<codec, queues, hdrs>>
  /\ UNCHANGED <<kind, signal_queue_, omx, ctl, inT, rcT, flT, left, aborted, conduct>>

FillThisBuffer ==
  /\ outT.pc = "call"
  /\ omx' = [omx EXCEPT !.out = @ \cup outT.buf]
  /\ LeaveOutput("top")
  /\ Note((IF outT.buf \subseteq omx.out THEN {"refilled"} ELSE {})
          \cup (IF rcT \in {"none", "watch", "begin"} THEN {} ELSE {"closed"}))
  /\ UNCHANGED <<kind, signal_queue_, hdrs, queues, ctl, inT, rcT, flT, left, aborted>>

\* A refused call ends the thread and leaves the buffer occupied.
FillThisBufferFails ==
  /\ outT.pc = "call" /\ left.events > 0
  /\ left' = [left EXCEPT !.events = @ - 1]
  /\ queues' = [queues EXCEPT !.refused = @ \cup outT.buf]
  /\ LeaveOutput("none") /\ Note({"cut"})
  /\ UNCHANGED <<kind, signal_queue_, hdrs, omx, ctl, inT, rcT, flT, aborted>>

(***************************************************************************)
(* ThreadRun and PortReconfigOutput (decoder).                              *)
(***************************************************************************)

\* The loop of ThreadRun ends with the output.
Watch ==
  /\ rcT = "watch"
  /\ \/ codec.output_stop_ /\ rcT' = "none"
     \/ ~codec.output_stop_ /\ codec.bPortReconfig_ /\ rcT' = "begin"
  /\ UNCHANGED <<kind, codec, signal_queue_, hdrs, queues, omx, ctl, inT, outT, flT,
                 left, aborted, conduct>>

\* Wait until nobody is inside the API, unless the output stops; then Flush.
BeginReconfig ==
  /\ rcT = "begin"
  /\ IF codec.api_count_ = 0
     THEN /\ codec' = [codec EXCEPT !.flush_in_progress_ = TRUE]
          /\ omx' = SendTo(omx, <<Port("flush", "out")>>)
          /\ rcT' = "flush"
     ELSE /\ codec.output_stop_
          /\ codec' = [codec EXCEPT !.bPortReconfig_ = FALSE]
          /\ rcT' = "watch" /\ UNCHANGED omx
  /\ Note(BesideFlush)
  /\ UNCHANGED <<kind, signal_queue_, hdrs, queues, ctl, inT, outT, flT, left,
                 aborted>>

\* Any event ends the flush; then the output port is disabled.
ReconfigFlushed ==
  /\ rcT = "flush"
  /\ \/ /\ Pop /\ rcT' = "disable"
        /\ omx' = SendTo(omx, <<Port("disable", "out")>>)
        /\ UNCHANGED aborted
     \/ PopTimesOut /\ rcT' = "none" /\ aborted' = "reconfig" /\ UNCHANGED omx
  /\ codec' = [codec EXCEPT !.flush_in_progress_ = FALSE]
  /\ Note(Took(Popped = Port("flush", "out")))
  /\ UNCHANGED <<kind, hdrs, queues, ctl, inT, outT, flT, left>>

\* All headers are back: the old buffers are freed.
FreeOutput ==
  /\ rcT = "disable" /\ hdrs.usedOut = 0
  /\ omx' = [omx EXCEPT !.registered = @ \ {"out"}]
  /\ rcT' = "disabled"
  /\ UNCHANGED <<kind, codec, signal_queue_, hdrs, queues, ctl, inT, outT, flT, left,
                 aborted, conduct>>

\* The port is disabled: the sink makes new buffers, the port is enabled with them.
ReconfigDisabled ==
  /\ rcT = "disabled"
  /\ \/ /\ Pop /\ Popped[1] = "disable"
        /\ queues' = [queues EXCEPT !.free = OutBufs, !.occupied = {}]
        /\ hdrs' = [hdrs EXCEPT !.freeOut = NOut, !.usedOut = 0]
        /\ omx' = SendTo([omx EXCEPT !.registered = @ \cup {"out"}],
                         <<Port("enable", "out")>>)
        /\ rcT' = "enabled" /\ UNCHANGED aborted
     \/ /\ PopTimesOut \/ (Pop /\ Popped[1] # "disable")
        /\ aborted' = "reconfig" /\ rcT' = "none"
        /\ UNCHANGED <<queues, hdrs, omx>>
  /\ Note(Took(Popped[1] = "disable"))
  /\ UNCHANGED <<kind, codec, ctl, inT, outT, flT, left>>

EndReconfig ==
  /\ rcT = "enabled"
  /\ \/ /\ Pop /\ Popped[1] = "enable"
        /\ codec' = [codec EXCEPT !.bPortReconfig_ = FALSE]
        /\ rcT' = "watch" /\ UNCHANGED aborted
     \/ /\ PopTimesOut \/ (Pop /\ Popped[1] # "enable")
        /\ aborted' = "reconfig" /\ rcT' = "none" /\ UNCHANGED codec
  /\ Note(Took(Popped[1] = "enable"))
  /\ UNCHANGED <<kind, hdrs, queues, omx, ctl, inT, outT, flT, left>>

(***************************************************************************)
(* The component (external) and the callbacks it makes.                     *)
(***************************************************************************)

Head1 == IF omx.cmds = <<>> THEN <<"none", "">> ELSE Head(omx.cmds)

\* The component is returning the buffers of port p.
Emptying(p) == Head1 \in {Port("flush", p), Port("disable", p), StateSet("idle")}

\* OnEvent: the component completes a command, and signal_queue_ gets the answer.
\* Idle needs the buffers registered (from loaded) or returned, a disabled port
\* its buffers freed, an enabled one its buffers registered.
OnEvent ==
  /\ omx.cmds # <<>>
  /\ LET c == Head1 IN
       /\ c = StateSet("idle") =>
            IF omx.state = "loaded" THEN omx.registered = {"in", "out"}
            ELSE omx.in = <<>> /\ omx.out = {}
       /\ c[1] \in {"flush", "disable"} =>
            (c[2] = "in" => omx.in = <<>>) /\ (c[2] = "out" => omx.out = {})
       /\ c[1] = "disable" => c[2] \notin omx.registered
       /\ c[1] = "enable" => c[2] \in omx.registered
       /\ omx' = [omx EXCEPT
            !.cmds = Tail(@),
            !.state = IF c[1] = "state" THEN c[2] ELSE @,
            !.open = IF c[1] = "disable" THEN @ \ {c[2]}
                     ELSE IF c[1] = "enable" THEN @ \cup {c[2]} ELSE @,
            !.frame = @ /\ c # StateSet("idle"), !.eos = @ /\ c # StateSet("idle"),
            !.changed = @ /\ c # Port("enable", "out")]
       /\ signal_queue_' = Append(signal_queue_, c)
  /\ UNCHANGED <<kind, codec, hdrs, queues, ctl, inT, outT, rcT, flT, left, aborted,
                 conduct>>

\* HandleOutputPortSettingsChange: the decoder found another picture size.
PortSettingsChanged ==
  /\ Decoder /\ omx.state = "executing" /\ left.events > 0
  /\ ~omx.changed /\ omx.cmds = <<>>
  /\ omx' = [omx EXCEPT !.changed = TRUE]
  /\ codec' = [codec EXCEPT !.bPortReconfig_ = TRUE]
  /\ left' = [left EXCEPT !.events = @ - 1]
  /\ Note(IF Stopping \/ codec.output_stop_ THEN {"reconfiguring"}
          ELSE IF ctl.pc = "running" THEN {} ELSE {"overlap"})
  /\ UNCHANGED <<kind, signal_queue_, hdrs, queues, ctl, inT, outT, rcT, flT,
                 aborted>>

\* OnEmptyBufferDone: an input was consumed, or is returned; its header is free.
OnEmptyBufferDone ==
  /\ omx.in # <<>>
  /\ \/ Emptying("in")
     \/ omx.state = "executing" /\ ~omx.frame /\ ~omx.eos
  /\ omx' = [omx EXCEPT !.in = Tail(@),
                        !.frame = IF Emptying("in") THEN @ ELSE ~Head(omx.in),
                        !.eos = IF Emptying("in") THEN @ ELSE Head(omx.in)]
  /\ hdrs' = IF Encoder /\ hdrs.usedIn > 0
             THEN [hdrs EXCEPT !.freeIn = @ + 1, !.usedIn = @ - 1] ELSE hdrs
  /\ aborted' = IF Encoder /\ hdrs.usedIn = 0 THEN "header" ELSE aborted
  /\ Note(IF Emptying("in") /\ Head(omx.in) THEN {"flushed"} ELSE {})
  /\ UNCHANGED <<kind, codec, signal_queue_, queues, ctl, inT, outT, rcT, flT, left>>

\* Slip: a buffer sent to the client is free at once.
ReturnAndFree(b, empty, eos) ==
  IF Decoder \/ queues.eos \/ empty
  THEN [queues EXCEPT !.free = IF b \in queues.occupied THEN @ \cup {b} ELSE @,
                      !.occupied = @ \ {b}]
  ELSE [queues EXCEPT !.eos = @ \/ eos, !.free = @ \cup {b}, !.occupied = @ \ {b},
                      !.client = IF queues.forced THEN @ ELSE @ \cup {b}]

\* TrackEncoder::ReturnBuffer: an empty buffer, or any after the end of the stream,
\* becomes free; the others go to the client, unless it is gone.
ReturnBuffer(b, empty, eos) ==
  IF Decoder \/ queues.eos \/ empty
  THEN [queues EXCEPT !.free = IF b \in queues.occupied THEN @ \cup {b} ELSE @,
                      !.occupied = @ \ {b}]
  ELSE [queues EXCEPT !.eos = @ \/ eos,
                      !.client = IF queues.forced THEN @ ELSE @ \cup {b}]

\* OnFillBufferDone: while it reconfigures its port a decoder only takes the header
\* back.  The end of the stream stops the output and is pushed once.
OnFillBufferDone(b, empty, eos) ==
  /\ b \in omx.out
  /\ IF empty /\ ~eos THEN Emptying("out")
     ELSE /\ omx.state = "executing" /\ ~omx.changed
          /\ IF eos THEN omx.eos /\ ~omx.frame ELSE omx.frame
  /\ LET shut == Decoder /\ codec.bPortReconfig_
         last == eos /\ ~shut
     IN  /\ omx' = [omx EXCEPT !.out = @ \ {b},
                       !.frame = @ /\ (empty \/ eos), !.eos = @ /\ ~eos]
         /\ hdrs' = IF Decoder THEN [hdrs EXCEPT !.freeOut = @ + 1, !.usedOut = @ - 1]
                    ELSE hdrs
         /\ codec' = [codec EXCEPT !.output_stop_ = @ \/ last,
                                   !.isEOSonOutput_ = @ \/ last]
         /\ signal_queue_' = IF last /\ ~codec.isEOSonOutput_
                             THEN Append(signal_queue_, EOS) ELSE signal_queue_
         /\ queues' = IF shut THEN queues ELSE ReturnBuffer(b, empty, eos)
         /\ Note((IF Encoder /\ queues.eos /\ ~empty /\ ~eos THEN {"dropped"} ELSE {})
                 \cup (IF last THEN BesideOthers ELSE {})
                 \cup (IF shut /\ eos THEN {"reconfiguring"} ELSE {})
                 \cup (IF last /\ ~ctl.flush /\ Stopping /\ outT.pc = "none"
                       THEN {"late"} ELSE {}))
  /\ aborted' = IF Encoder /\ ~queues.eos /\ ~empty /\ ~queues.forced
                   /\ b \notin queues.occupied
                THEN "found" ELSE aborted
  /\ UNCHANGED <<kind, ctl, inT, outT, rcT, flT, left>>

\* OnBufferReturnFromClient.
ClientReturns(b) ==
  /\ b \in queues.client
  /\ queues' = [queues EXCEPT !.client = @ \ {b},
                   !.free = IF queues.forced THEN @ ELSE @ \cup {b},
                   !.occupied = IF queues.forced THEN @ ELSE @ \ {b}]
  /\ UNCHANGED <<kind, codec, signal_queue_, hdrs, omx, ctl, inT, outT, rcT, flT,
                 left, aborted, conduct>>

\* What the users of the codec may do, and what the component may refuse or announce.
Requests ==
  \/ StartCodec \/ PauseCodec \/ ReleaseBuffer \/ FlushCodec \/ CallRefused
  \/ PortSettingsChanged \/ StopSource \/ EmptyThisBufferFails \/ FillThisBufferFails
  \/ \E force, flush \in BOOLEAN : Stop(force, flush)

\* The threads once they are at work.
Control ==
  \/ AwaitEnable \/ AwaitLoaded \/ SetExecuting \/ AwaitState \/ Launch
  \/ StartTrackEncoder \/ EnterPause \/ SetPause \/ PauseReturns
  \/ StopCodec \/ RaiseStop \/ Join \/ AwaitEos \/ StopSetsState \/ DisablePorts
  \/ AwaitDisable \/ StopFails \/ SourceTimesOut

DeliverInput == GetInput \/ EmptyThisBuffer

DeliverOutput ==
  EnterOutput \/ CountOutput \/ GetOutput \/ GetOutputBufferHdr \/ RecheckOutput
  \/ FillThisBuffer

ThreadRun ==
  \/ Watch \/ BeginReconfig \/ ReconfigFlushed \/ FreeOutput \/ ReconfigDisabled
  \/ EndReconfig

Flush == SendFlush \/ FlushReturns

FillsBuffer ==
  \E b \in OutBufs, empty, eos \in BOOLEAN : OnFillBufferDone(b, empty, eos)
ClientWorks == \E b \in OutBufs : ClientReturns(b)

Next ==
  /\ aborted = "no"
  /\ \/ Requests \/ Control \/ DeliverInput \/ DeliverOutput \/ ThreadRun \/ Flush
     \/ OnEvent \/ OnEmptyBufferDone \/ FillsBuffer \/ ClientWorks

Spec == Init /\ [][Next]_vars

\* Every thread is scheduled, the component answers, the client returns buffers.
Live == aborted = "no"
FairSpec ==
  /\ Spec
  /\ WF_vars(Live /\ Control) /\ WF_vars(Live /\ DeliverInput)
  /\ WF_vars(Live /\ DeliverOutput) /\ WF_vars(Live /\ ThreadRun)
  /\ WF_vars(Live /\ Flush) /\ WF_vars(Live /\ OnEvent)
  /\ WF_vars(Live /\ OnEmptyBufferDone) /\ WF_vars(Live /\ FillsBuffer)
  /\ WF_vars(Live /\ ClientWorks)

(***************************************************************************)
(* Properties.                                                              *)
(***************************************************************************)

\* While the client lives, an output buffer of the encoder is in exactly one place:
\* in the free queue, or occupied and then with DeliverOutput, with the component
\* or with the client (GetBuffer, ReturnBuffer, OnBufferReturnFromClient), unless the
\* component refused it.
InOnePlace ==
  Encoder /\ ~queues.forced =>
    /\ queues.free \cap queues.occupied = {}
    /\ queues.free \cup queues.occupied = OutBufs
    /\ queues.occupied = outT.buf \cup omx.out \cup queues.client \cup queues.refused
    /\ outT.buf \cap omx.out = {} /\ omx.out \cap queues.client = {}
    /\ outT.buf \cap queues.client = {}

\* Every event popped from signal_queue_ is the one its thread waits for, unless a
\* flush or a port reconfiguration runs beside a start, a pause, a stop, the end of the
\* stream or one another, or a stop that does not drain meets the end of the stream;
\* and no assertion of AVCodec, TrackEncoder or StopTrackSource fails unless a thread
\* took the event of another, ReleaseBuffer ran beside a flush, or the component
\* refused a command or a buffer.
EventsArriveAsExpected ==
  /\ aborted # "no" => conduct \cap {"refused", "cut", "stolen", "released"} # {}
  /\ "stolen" \in conduct => conduct \cap {"overlap", "late"} # {}

\* After StopCodec the codec is at rest: no event is left for the next start, the
\* component holds no buffer, nobody is counted inside the API, and the power hint
\* is given back (StopCodec, WaitState, endPowerHint).
StoppedIsAtRest ==
  ctl.pc = "none" /\ aborted = "no"
  /\ conduct \cap {"overlap", "refused", "late"} = {} =>
    /\ signal_queue_ = <<>> \/ codec.port_status_
    /\ omx.out = {} /\ omx.in = <<>>
    /\ codec.api_count_ = 0 /\ codec.power_hint_ = 0

\* FillThisBuffer is never called once PortReconfigOutput has begun to flush and
\* disable the output port, although the checks of bPortReconfig_, the increment of
\* api_count_ and the call are separate steps (DeliverOutput, PortReconfigOutput).
FilledWhileOpen == "closed" \notin conduct

\* The buffers of a codec keep circulating while it runs, go to no port that
\* PortReconfigOutput has closed, and are all back when StopCodec has returned.
EncodedBuffersCirculate == InOnePlace /\ FilledWhileOpen /\ StoppedIsAtRest

\* StopCodec returns when it drains the codec.  It need not when the end of the
\* stream, which ends DeliverOutput, never comes: the codec is paused (its threads are
\* joined before the state changes), its output port changes during the stop
\* (PortReconfigOutput waits for api_count_, which StopCodec holds) or after the
\* output ended (nobody clears bPortReconfig_), a flush returned the last input, the
\* source ended without one, the component refused a buffer, which ends the thread
\* that offered it, or after a forced cleanup the buffers filled since stay occupied
\* (NotifyBufferToClient).
StopReturns ==
  Stopping /\ ctl.flush ~>
    \/ ~Stopping \/ ~Live \/ queues.forced
    \/ conduct \cap {"paused", "reconfiguring", "stolen", "flushed", "starved", "cut"} # {}
====
