----------------------------- MODULE AudioTrack -----------------------------
(***************************************************************************)
(* One audio track of the recorder service, PCM or encoded.                *)
(*                                                                         *)
(* qmmf_audio_pulse_client.cc: a thread that fills buffers with what the   *)
(* PulseAudio server recorded.  qmmf_audio_raw_track_source.cc: a thread   *)
(* between that client and the application.  For an encoded track,         *)
(* qmmf_audio_encoded_track_source.cc feeds an AVCodec, whose output goes  *)
(* through the AudioTrackEncoder of qmmf_audio_encoder_core.cc.            *)
(*                                                                         *)
(* Both threads test their queues, and only then lock and wait: a message  *)
(* posted in between wakes nobody (pc "about").  Sound, sizes and time     *)
(* stamps are left out: a buffer is a model value with the end-of-stream   *)
(* flag.                                                                   *)
(***************************************************************************)
EXTENDS Naturals, Sequences, FiniteSets

CONSTANTS
  AudioUses    \* the tracks explored: kind ("raw", that is AudioFormat::kPCM, or
               \* "encoded"), the source's and the encoder's buffers in fd order (pcm,
               \* out), and bounds: starts, pauses, faults (refusals and timeouts)

VARIABLES
  audio,   \* the kind of track and its buffers
  held,    \* what AudioPulseClient holds of PulseAudio
  ion,     \* the buffers of the source and of the encoder, and are they mapped
  pulse,   \* AudioPulseClient: messages_ and the locals of Thread
  source,  \* the track source: messages_ and the locals of Thread, or buffers_
  enc,     \* AudioTrackEncoder and its AVCodec
  client,  \* the application: its buffers, those of an earlier run, did it see the last
  call,    \* the control thread (RecorderImpl)
  budget,  \* what the bounds still allow
  failed,  \* the assertion that failed, or "no"
  events   \* circumstances the properties have to tell apart

audioVars == <<audio, held, ion, pulse, source, enc, client, call, budget, failed, events>>

Raw == audio.kind = "raw"
PcmBuffers == audio.pcm
OutBuffers == audio.out

Buffer(b, eos) == [b |-> b, eos |-> eos]
Message(type, list) == [type |-> type, list |-> list]
Fresh(list) == [i \in DOMAIN list |-> Buffer(list[i], FALSE)]

NoThread == [messages_ |-> <<>>, pc |-> "none", buffers |-> <<>>, bn_buffers |-> <<>>,
             paused |-> FALSE, stop_received |-> FALSE]
NoSource == [messages_ |-> <<>>, pc |-> "none", buffers |-> <<>>, bn_buffers |-> <<>>,
             paused |-> FALSE, stop_received |-> FALSE,
             stop_called_ |-> TRUE, stop_notify_received_ |-> TRUE]
NoIon == [source |-> <<>>, encoder |-> <<>>, mapped |-> TRUE]
NoEncoder == [on |-> FALSE, state |-> "idle", buffers_ |-> <<>>, eos_received_ |-> FALSE,
              input_stop_ |-> FALSE, output_stop_ |-> FALSE, in |-> "none", out |-> "none",
              inputs |-> <<>>, outputs |-> <<>>, got |-> <<>>, frame |-> FALSE,
              eos |-> FALSE]

AudioInit ==
  /\ held = {} /\ ion = NoIon
  /\ pulse = NoThread /\ source = NoSource
  /\ enc = NoEncoder
  /\ client = [has |-> {}, old |-> {}, ended |-> FALSE]
  /\ call = "none"
  /\ \E use \in AudioUses :
       /\ audio = [kind |-> use.kind, pcm |-> use.pcm, out |-> use.out]
       /\ budget = [starts |-> use.starts, pauses |-> use.pauses, faults |-> use.faults]
  /\ failed = "no" /\ events = {}

Spend(what) == budget[what] > 0 /\ budget' = [budget EXCEPT ![what] = @ - 1]
Mark(tags) == events' = events \cup tags

\* A message is pushed under message_lock_ and signal_ is signalled: it wakes the
\* thread only if the thread already waits.
Post(thread, message) ==
  [thread EXCEPT !.messages_ = Append(@, message),
                 !.pc = IF @ = "asleep" THEN "take" ELSE @]

(***************************************************************************)
(* AudioSource::CreateTrackSource: Init of the track source, which          *)
(* connects and configures a new AudioPulseClient.                          *)
(***************************************************************************)

\* The PulseAudio objects up to pa_context_connect; a failure frees them in turn.
NewContext ==
  /\ call = "none"
  /\ \/ /\ held' = {"mainloop", "context_props", "context"} /\ call' = "connect"
        /\ UNCHANGED budget
     \/ Spend("faults") /\ UNCHANGED <<held, call>>
  /\ UNCHANGED <<audio, ion, pulse, source, enc, client, failed, events>>

\* With the mainloop locked, Connect starts it and waits for the context.  If the
\* mainloop does not start the lock is released twice; if the connection fails the
\* mainloop is stopped with the lock held, which never returns.
ConnectContext ==
  /\ call = "connect"
  /\ \/ /\ held' = held \cup {"thread"} /\ call' = "format"
        /\ UNCHANGED <<budget, failed, events>>
     \/ /\ Spend("faults") /\ failed' = "unlock" /\ Mark({"unconnected"})
        /\ UNCHANGED <<held, call>>
     \/ /\ Spend("faults") /\ call' = "hung" /\ Mark({"unconnected"})
        /\ held' = held \cup {"thread"} /\ UNCHANGED failed
  /\ UNCHANGED <<audio, ion, pulse, source, enc, client>>

\* Configure: the format and the sample specification of the stream.
FormatStream ==
  /\ call = "format"
  /\ \/ /\ held' = held \cup {"format", "stream_props"} /\ call' = "stream"
        /\ UNCHANGED budget
     \/ Spend("faults") /\ call' = "undo" /\ UNCHANGED held
  /\ UNCHANGED <<audio, ion, pulse, source, enc, client, failed, events>>

\* The labels exit_stream to exit_format of Configure.
Unconfigured(objects) == objects \ {"stream", "stream_props", "format"}

\* Configure: the stream is created and connected, and the server reports READY.
ConnectStream ==
  /\ call = "stream"
  /\ \/ held' = held \cup {"stream"} /\ call' = "timing" /\ UNCHANGED budget
     \/ Spend("faults") /\ call' = "undo" /\ held' = Unconfigured(held \cup {"stream"})
  /\ UNCHANGED <<audio, ion, pulse, source, enc, client, failed, events>>

\* Configure: the fragment size is read and the first timing information awaited.
UpdateTimingInfo ==
  /\ call = "timing"
  /\ \/ call' = "allocate" /\ UNCHANGED <<held, budget>>
     \/ Spend("faults") /\ call' = "undo" /\ held' = Unconfigured(held)
  /\ UNCHANGED <<audio, ion, pulse, source, enc, client, failed, events>>

\* RecorderIon::Allocate.  Where the allocator or mmap fails it returns errno, which
\* is not below zero: the callers take it for success and go on with the buffers
\* there are, which have no mapping.
Allocated(wanted, got) ==
  \/ got = wanted /\ UNCHANGED <<budget, events>>
  \/ /\ got \in {SubSeq(wanted, 1, k) : k \in 0..Len(wanted)}
     /\ Spend("faults") /\ Mark({"short"})

InitSource ==
  /\ call = "allocate" /\ call' = "idle"
  /\ \E k \in 0..Len(PcmBuffers) :
       /\ Allocated(PcmBuffers, SubSeq(PcmBuffers, 1, k))
       /\ ion' = [source |-> SubSeq(PcmBuffers, 1, k), encoder |-> <<>>,
                  mapped |-> events' = events]
  /\ UNCHANGED <<audio, held, pulse, source, enc, client, failed>>

\* AudioPulseClient::Disconnect, where every object has been released.
Disconnected(objects) ==
  Unconfigured(objects) \ {"thread", "context", "context_props", "mainloop"}

\* The label error_disconnect of Init.
UndoInit ==
  /\ call = "undo" /\ call' = "none"
  /\ held' = Disconnected(held)
  /\ UNCHANGED <<audio, ion, pulse, source, enc, client, budget, failed, events>>

\* DeInit of the track source.
DeInit ==
  /\ held' = Disconnected(held)
  /\ ion' = NoIon /\ source' = NoSource

\* And the destructor of the encoder.  What the application still has is no longer
\* backed by a buffer of the track.
DeleteTrackSource ==
  /\ call = "idle" /\ call' = "none"
  /\ DeInit
  /\ enc' = NoEncoder
  /\ client' = [client EXCEPT !.has = {}, !.old = {}]
  /\ UNCHANGED <<audio, pulse, budget, failed, events>>

(***************************************************************************)
(* AudioPulseClient::Thread and the calls that post to it.                  *)
(***************************************************************************)

\* AudioPulseClient::SendBuffers.
SendBuffers(thread, list) == Post(thread, Message("buffers", list))

\* Nothing to do: the thread goes to wait, without the lock between test and wait.
TestQueues(thread) ==
  [thread EXCEPT !.pc = IF thread.buffers = <<>> /\ thread.bn_buffers = <<>>
                           /\ thread.messages_ = <<>> THEN "about" ELSE "take"]

\* Wait begins.  It may also end without a signal.
FallAsleep(thread) == [thread EXCEPT !.pc = "asleep"]
WakeUp(thread) == [thread EXCEPT !.pc = "take"]

\* The next pending message, taken under message_lock_.
TakeMessage(thread) ==
  IF thread.messages_ = <<>> THEN thread
  ELSE LET m == Head(thread.messages_)
       IN [thread EXCEPT !.messages_ = Tail(@),
             !.paused = (@ \/ m.type = "pause") /\ m.type \notin {"resume", "stop"},
             !.stop_received = @ \/ m.type = "stop",
             !.buffers = IF m.type = "buffers" THEN @ \o m.list ELSE @,
             !.bn_buffers = IF m.type = "bn_buffers" THEN @ \o m.list ELSE @]

\* BufferHandler of the two track sources.
BufferHandler(buffer) ==
  IF Raw THEN Post(source, Message("buffers", <<buffer>>))
  ELSE [source EXCEPT !.buffers = Append(@, buffer)]

PulseLoop ==
  /\ \/ pulse.pc = "test" /\ pulse' = TestQueues(pulse)
     \/ pulse.pc = "about" /\ pulse' = FallAsleep(pulse)
     \/ pulse.pc = "take"
        /\ LET t == TakeMessage(pulse)
           IN pulse' = [t EXCEPT !.pc = IF t.buffers # <<>> /\ ~t.paused THEN "fill" ELSE "test"]
  /\ UNCHANGED <<audio, held, ion, source, enc, client, call, budget, failed, events>>

\* Slip: the loop goes on after the buffer that carries the end of the stream.
FillKeepsRunning ==
  /\ pulse.pc = "fill" /\ ion.mapped
  /\ source' = BufferHandler(Buffer(Head(pulse.buffers).b, pulse.stop_received))
  /\ pulse' = [pulse EXCEPT !.buffers = Tail(@), !.stop_received = FALSE, !.pc = "test"]
  /\ UNCHANGED <<audio, held, ion, enc, client, call, budget, failed, events>>

\* The front buffer is filled from pa_stream_peek, waiting for data and skipping
\* holes, gets its time stamp, and is handed to the track source.  After a stop it is
\* the last one.
FillBuffer ==
  /\ pulse.pc = "fill" /\ ion.mapped
  /\ source' = BufferHandler(Buffer(Head(pulse.buffers).b, pulse.stop_received))
  /\ pulse' = [pulse EXCEPT !.buffers = Tail(@),
                            !.pc = IF pulse.stop_received THEN "gone" ELSE "test"]
  /\ UNCHANGED <<audio, held, ion, enc, client, call, budget, failed, events>>

\* The label exit_thread: the stream or the context failed, and ErrorHandler of the
\* track source asserts.  A buffer that was never mapped cannot be written either.
FillFails ==
  /\ pulse.pc = "fill"
  /\ \/ ion.mapped /\ Spend("faults") /\ failed' = "stream"
     \/ ~ion.mapped /\ failed' = "unmapped" /\ UNCHANGED budget
  /\ UNCHANGED <<audio, held, ion, pulse, source, enc, client, call, events>>

(***************************************************************************)
(* AudioRawTrackSource::Thread.                                             *)
(***************************************************************************)

\* The data callback of the track: the buffer goes to the application.
DataCallback(buffer) ==
  /\ client' = [client EXCEPT !.has = @ \cup {buffer}, !.ended = @ \/ buffer.eos]
  /\ Mark(IF client.ended THEN {"after"} ELSE {})

\* The initial list, then one message at a time.
RawLoop ==
  /\ \/ /\ source.pc = "begin" /\ source' = [source EXCEPT !.pc = "test"]
        /\ pulse' = SendBuffers(pulse, Fresh(ion.source))
     \/ source.pc = "test" /\ source' = TestQueues(source) /\ UNCHANGED pulse
     \/ source.pc = "about" /\ source' = FallAsleep(source) /\ UNCHANGED pulse
     \/ source.pc = "take" /\ source' = [TakeMessage(source) EXCEPT !.pc = "out"]
        /\ UNCHANGED pulse
  /\ UNCHANGED <<audio, held, ion, enc, client, call, budget, failed, events>>

\* A filled buffer goes to the application.
RawDelivers ==
  /\ source.pc = "out"
  /\ IF source.buffers # <<>> /\ ~source.paused
     THEN /\ DataCallback(Head(source.buffers))
          /\ source' = [source EXCEPT !.buffers = Tail(@), !.pc = "in"]
     ELSE source' = [source EXCEPT !.pc = "in"] /\ UNCHANGED <<client, events>>
  /\ UNCHANGED <<audio, held, ion, pulse, enc, call, budget, failed>>

\* A returned buffer goes back to the pulse client; the last one ends the thread.
RawRecycles ==
  /\ source.pc = "in"
  /\ IF source.bn_buffers # <<>> /\ ~source.paused
     THEN LET buffer == Head(source.bn_buffers)
              last == source.stop_received /\ buffer.eos
          IN /\ source' = [source EXCEPT !.bn_buffers = Tail(@),
                                         !.pc = IF last THEN "gone" ELSE "test"]
             /\ pulse' = IF last THEN pulse
                         ELSE SendBuffers(pulse, <<Buffer(buffer.b, FALSE)>>)
     ELSE source' = [source EXCEPT !.pc = "test"] /\ UNCHANGED pulse
  /\ UNCHANGED <<audio, held, ion, enc, client, call, budget, failed, events>>

\* A condition variable may also wake a thread nobody signalled.
SpuriousWakeUp ==
  /\ \/ pulse.pc = "asleep" /\ pulse' = WakeUp(pulse) /\ UNCHANGED source
     \/ source.pc = "asleep" /\ source' = WakeUp(source) /\ UNCHANGED pulse
  /\ UNCHANGED <<audio, held, ion, enc, client, call, budget, failed, events>>

(***************************************************************************)
(* The encoded track: AVCodec's threads between AudioEncodedTrackSource     *)
(* and AudioTrackEncoder, and the OMX component.                            *)
(***************************************************************************)

\* DeliverInput: AudioEncodedTrackSource::GetBuffer waits until there is a buffer.
\* stop_notify_received_ is set by this thread as its last step, so the branch of
\* GetBuffer that gives nothing is not met.
GetInput ==
  /\ enc.in = "get" /\ source.buffers # <<>>
  /\ enc' = [enc EXCEPT !.got = <<Head(source.buffers)>>, !.in = "empty"]
  /\ source' = [source EXCEPT !.buffers = Tail(@)]
  /\ UNCHANGED <<audio, held, ion, pulse, client, call, budget, failed, events>>

\* DeliverInput: the buffer is the last one if it says so (GetBuffer returned -1) or
\* if StopCodec has begun.
EmptyInput ==
  /\ enc.in = "empty"
  /\ LET last == enc.got[1].eos \/ enc.input_stop_
     IN enc' = [enc EXCEPT !.inputs = Append(@, Buffer(enc.got[1].b, last)), !.got = <<>>,
                           !.in = IF last THEN "notify" ELSE "get"]
  /\ UNCHANGED <<audio, held, ion, pulse, source, client, call, budget, failed, events>>

\* A refused EmptyThisBuffer ends the thread: nothing marks the end of the stream,
\* nothing is notified, and the buffer is not returned.
EmptyInputFails ==
  /\ enc.in = "empty" /\ Spend("faults")
  /\ enc' = [enc EXCEPT !.got = <<>>, !.in = "none"]
  /\ Mark({"refused"})
  /\ UNCHANGED <<audio, held, ion, pulse, source, client, call, failed>>

\* NotifyPortEvent(kPortStop), after the last buffer went to the component.
NotifyStop ==
  /\ enc.in = "notify"
  /\ enc' = [enc EXCEPT !.in = "none"]
  /\ source' = [source EXCEPT !.stop_notify_received_ = @ \/ source.stop_called_]
  /\ UNCHANGED <<audio, held, ion, pulse, client, call, budget, failed, events>>

\* NotifyPortEvent(kPortIdle): the queue is flushed once the stop was notified.
Idled(src, eos) ==
  IF eos /\ src.stop_notify_received_ THEN [src EXCEPT !.buffers = <<>>] ELSE src

\* Slip: a buffer is given back to the pulse client only after a stop.
ReturnsBackwards(buffer) ==
  IF source.stop_called_ THEN SendBuffers(pulse, <<Buffer(buffer.b, FALSE)>>) ELSE pulse

\* AudioEncodedTrackSource::ReturnBuffer: back to the pulse client, or dropped after
\* a stop.
ReturnBuffer(buffer) ==
  IF source.stop_called_ THEN pulse ELSE SendBuffers(pulse, <<Buffer(buffer.b, FALSE)>>)

\* OnEmptyBufferDone.  The component encodes one input at a time.  It may be done with
\* the last one before DeliverInput has notified the stop: then what is left in
\* buffers_ stays there.
EmptyBufferDone ==
  /\ enc.state = "executing" /\ enc.inputs # <<>> /\ ~enc.frame
  /\ LET buffer == Head(enc.inputs)
     IN /\ pulse' = ReturnBuffer(buffer)
        /\ source' = Idled(source, buffer.eos)
        /\ enc' = [enc EXCEPT !.inputs = Tail(@), !.frame = TRUE, !.eos = buffer.eos]
  /\ UNCHANGED <<audio, held, ion, client, call, budget, failed, events>>

\* DeliverOutput: AudioTrackEncoder::GetBuffer waits until there is a buffer.
GetOutput ==
  /\ enc.out = "get" /\ enc.buffers_ # <<>>
  /\ enc' = [enc EXCEPT !.out = "fill"]
  /\ UNCHANGED <<audio, held, ion, pulse, source, client, call, budget, failed, events>>

\* DeliverOutput: to the component; once the output has stopped, AudioTrackEncoder::
\* ReturnBuffer gives the empty buffer to the application and the thread ends.
FillOutput ==
  /\ enc.out = "fill"
  /\ LET buffer == Head(enc.buffers_)
     IN IF enc.output_stop_
        THEN /\ enc' = [enc EXCEPT !.buffers_ = Tail(@), !.out = "none"]
             /\ client' = [client EXCEPT !.has = @ \cup {buffer}]
        ELSE /\ enc' = [enc EXCEPT !.buffers_ = Tail(@), !.out = "get",
                                   !.outputs = Append(@, buffer.b)]
             /\ UNCHANGED client
  /\ UNCHANGED <<audio, held, ion, pulse, source, call, budget, failed, events>>

\* A refused FillThisBuffer ends the thread, and the buffer is not returned.
FillOutputFails ==
  /\ enc.out = "fill" /\ ~enc.output_stop_ /\ Spend("faults")
  /\ enc' = [enc EXCEPT !.buffers_ = Tail(@), !.out = "none"]
  /\ Mark({"refused"})
  /\ UNCHANGED <<audio, held, ion, pulse, source, client, call, failed>>

\* OnFillBufferDone and AudioTrackEncoder::ReturnBuffer.  The last output stops
\* DeliverOutput before it goes to the application.
FillBufferDone ==
  /\ enc.state = "executing" /\ enc.outputs # <<>> /\ enc.frame
  /\ enc' = [enc EXCEPT !.outputs = Tail(@), !.frame = FALSE, !.output_stop_ = enc.eos]
  /\ client' = [client EXCEPT !.has = @ \cup {Buffer(Head(enc.outputs), enc.eos)}]
  /\ UNCHANGED <<audio, held, ion, pulse, source, call, budget, failed, events>>

(***************************************************************************)
(* The application returns buffers, in any order.                           *)
(***************************************************************************)

\* AudioRawTrackSource::ReturnTrackBuffer posts the buffer to the source's thread.
RawReturned(buffer) == Post(source, Message("bn_buffers", <<buffer>>))

\* AudioTrackEncoder::OnBufferReturnFromClient queues it for GetBuffer, and lets Stop go
\* on if it was the last.
OnBufferReturnFromClient(buffer) ==
  [enc EXCEPT !.buffers_ = Append(@, buffer), !.eos_received_ = @ \/ buffer.eos]

ReturnTrackBuffer ==
  /\ call # "none"
  /\ \E buffer \in client.has :
       /\ client' = [client EXCEPT !.has = @ \ {buffer}]
       /\ source' = IF Raw THEN RawReturned(buffer) ELSE source
       /\ enc' = IF Raw THEN enc ELSE OnBufferReturnFromClient(buffer)
  /\ UNCHANGED <<audio, held, ion, pulse, call, budget, failed, events>>

\* A buffer of an earlier run of the encoder, whose memory is gone: Import does not
\* find it and RecorderImpl asserts, or finds a new buffer under the same fd.
ReturnsOldBuffer ==
  /\ call # "none" /\ ~Raw
  /\ \E buffer \in client.old :
       /\ client' = [client EXCEPT !.old = @ \ {buffer}]
       /\ \/ failed' = "import" /\ UNCHANGED enc
          \/ enc' = OnBufferReturnFromClient(buffer) /\ UNCHANGED failed
  /\ UNCHANGED <<audio, held, ion, pulse, source, call, budget, events>>

(***************************************************************************)
(* The session's calls, as RecorderImpl makes them.                         *)
(***************************************************************************)

\* AudioPulseClient::Start clears what was posted since the last stop and creates the
\* thread.
PulseStarted == [NoThread EXCEPT !.pc = "test"]

\* AudioRawTrackSource::StartTrack, whose own thread posts the buffers.
RawStartTrack ==
  /\ pulse' = PulseStarted
  /\ source' = [NoSource EXCEPT !.pc = "begin"]
  /\ client' = [client EXCEPT !.ended = FALSE]

\* AudioEncodedTrackSource::StartTrack posts all its buffers, and leaves buffers_ as it is.
EncodedStartTrack ==
  /\ pulse' = SendBuffers(PulseStarted, Fresh(ion.source))
  /\ source' = [source EXCEPT !.stop_called_ = FALSE, !.stop_notify_received_ = FALSE]
  /\ UNCHANGED client

StartTrackSource ==
  /\ call = "idle" /\ Spend("starts")
  /\ Mark({tag \in {"kept", "stale"} :
             IF tag = "kept" THEN client.has # {} ELSE source.buffers # <<>>})
  /\ IF Raw THEN RawStartTrack /\ call' = "running"
            ELSE EncodedStartTrack /\ call' = "start_encoder"
  /\ UNCHANGED <<audio, held, ion, enc, failed>>

\* AudioTrackEncoder::Start: a new AVCodec, new memory, and the codec's threads.  Any
\* of its calls may fail; all is released, and the source runs on without encoder.
StartTrackEncoder ==
  /\ call = "start_encoder"
  /\ \/ \E k \in 0..Len(OutBuffers) :
          /\ Allocated(OutBuffers, SubSeq(OutBuffers, 1, k))
          /\ ion' = [ion EXCEPT !.encoder = SubSeq(OutBuffers, 1, k),
                                !.mapped = @ /\ events' = events]
          /\ enc' = [NoEncoder EXCEPT !.on = TRUE, !.state = "executing", !.in = "get",
                                      !.out = "get", !.buffers_ = Fresh(ion'.encoder)]
          /\ client' = [client EXCEPT !.has = {}, !.old = @ \cup client.has]
          /\ call' = "running"
     \/ /\ Spend("faults") /\ call' = "halfway"
        /\ ion' = [ion EXCEPT !.encoder = <<>>] /\ enc' = NoEncoder
        /\ UNCHANGED <<client, events>>
  /\ UNCHANGED <<audio, held, pulse, source, failed>>

\* AudioPulseClient::Pause and Resume, which the PauseTrack and ResumeTrack of the encoded
\* source are no more than.
PulsePause == Post(pulse, Message("pause", <<>>))
PulseResume == Post(pulse, Message("resume", <<>>))

\* AudioRawTrackSource::PauseTrack: its own thread first, then the pulse client.
RawPauseTrack ==
  \/ /\ call = "running" /\ Spend("pauses") /\ call' = "pausing"
     /\ source' = Post(source, Message("pause", <<>>)) /\ UNCHANGED pulse
  \/ /\ call = "pausing" /\ call' = "paused"
     /\ pulse' = PulsePause /\ UNCHANGED <<source, budget>>

\* AudioRawTrackSource::ResumeTrack: the pulse client first.
RawResumeTrack ==
  \/ /\ call = "paused" /\ call' = "resuming"
     /\ pulse' = PulseResume /\ UNCHANGED source
  \/ /\ call = "resuming" /\ call' = "running"
     /\ source' = Post(source, Message("resume", <<>>)) /\ UNCHANGED pulse

PauseTrackEncoder ==
  /\ call = "pausing" /\ call' = "paused"
  /\ enc' = [enc EXCEPT !.state = "paused"]

ResumeTrackEncoder ==
  /\ call = "resuming" /\ call' = "running"
  /\ enc' = [enc EXCEPT !.state = "executing"]

\* PauseSession: the source, then its encoder.
PauseSession ==
  /\ \/ Raw /\ RawPauseTrack /\ UNCHANGED enc
     \/ /\ ~Raw /\ call = "running" /\ Spend("pauses") /\ call' = "pausing"
        /\ pulse' = PulsePause /\ UNCHANGED <<source, enc>>
     \/ ~Raw /\ PauseTrackEncoder /\ UNCHANGED <<pulse, source, budget>>
  /\ UNCHANGED <<audio, held, ion, client, failed, events>>

\* ResumeSession: in the same order.
ResumeSession ==
  /\ \/ Raw /\ RawResumeTrack /\ UNCHANGED enc
     \/ /\ ~Raw /\ call = "paused" /\ call' = "resuming"
        /\ pulse' = PulseResume /\ UNCHANGED <<source, enc>>
     \/ ~Raw /\ ResumeTrackEncoder /\ UNCHANGED <<pulse, source>>
  /\ UNCHANGED <<audio, held, ion, client, budget, failed, events>>

\* StopTrack of the raw source posts its own stop first.  A codec that is paused
\* when its source stops is resumed only after its threads have ended.
StopTrackSource ==
  /\ call \in {"running", "paused"}
  /\ IF Raw THEN source' = Post(source, Message("stop", <<>>)) ELSE UNCHANGED source
  /\ call' = "stop_pulse"
  /\ Mark(IF enc.state = "paused" THEN {"paused"} ELSE {})
  /\ UNCHANGED <<audio, held, ion, pulse, enc, client, budget, failed>>

\* AudioPulseClient::Stop posts the stop and joins the thread.
StopPulse ==
  /\ call = "stop_pulse" /\ call' = "join_pulse"
  /\ pulse' = Post(pulse, Message("stop", <<>>))
  /\ UNCHANGED <<audio, held, ion, source, enc, client, budget, failed, events>>

\* The thread has ended; what it still had is forgotten and its messages are cleared.
JoinPulse ==
  /\ call = "join_pulse" /\ pulse.pc = "gone"
  /\ pulse' = NoThread
  /\ source' = [source EXCEPT !.stop_called_ = TRUE]
  /\ call' = IF Raw THEN "join_source" ELSE "stop_codec"
  /\ UNCHANGED <<audio, held, ion, enc, client, budget, failed, events>>

\* The raw source joins its own thread and clears its messages.
JoinSource ==
  /\ call = "join_source" /\ source.pc = "gone"
  /\ source' = NoSource /\ call' = "idle"
  /\ UNCHANGED <<audio, held, ion, pulse, enc, client, budget, failed, events>>

\* StopTrackEncoder: AudioTrackEncoder::Stop calls StopCodec(true), which joins the codec's
\* threads; the component gives back the outputs it has, and the codec is deleted.
StopTrackEncoder ==
  /\ call = "stop_codec" /\ call' = "join_codec"
  /\ enc' = [enc EXCEPT !.input_stop_ = TRUE]
  /\ UNCHANGED <<audio, held, ion, pulse, source, client, budget, failed, events>>

StopCodec ==
  /\ call = "join_codec" /\ enc.in = "none" /\ enc.out = "none"
  /\ call' = "await_eos"
  /\ enc' = [enc EXCEPT !.on = FALSE, !.state = "idle", !.outputs = <<>>]
  /\ client' = [client EXCEPT !.has = @ \cup {Buffer(enc.outputs[i], FALSE) :
                                              i \in DOMAIN enc.outputs}]
  /\ UNCHANGED <<audio, held, ion, pulse, source, budget, failed, events>>

\* AudioTrackEncoder::Stop then waits five seconds for the last buffer to return.
AwaitEos ==
  /\ call = "await_eos" /\ call' = "idle"
  /\ \/ enc.eos_received_ /\ UNCHANGED <<budget, events>>
     \/ Spend("faults") /\ Mark({"impatient"})
  /\ UNCHANGED <<audio, held, ion, pulse, source, enc, client, failed>>

(***************************************************************************)
(* The next-state relation.                                                 *)
(***************************************************************************)
PulseThread == PulseLoop \/ FillBuffer
RawThread == RawLoop \/ RawDelivers \/ RawRecycles
DeliverInput == GetInput \/ EmptyInput \/ NotifyStop
DeliverOutput == GetOutput \/ FillOutput
Component == EmptyBufferDone \/ FillBufferDone
Stop == StopPulse \/ JoinPulse \/ JoinSource \/ StopTrackEncoder \/ StopCodec \/ AwaitEos
CreateTrackSource ==
  NewContext \/ ConnectContext \/ FormatStream \/ ConnectStream \/ UpdateTimingInfo
  \/ InitSource \/ UndoInit

AudioNext ==
  /\ failed = "no"
  /\ \/ CreateTrackSource \/ DeleteTrackSource \/ StartTrackSource \/ StartTrackEncoder
     \/ PauseSession \/ ResumeSession \/ StopTrackSource \/ Stop
     \/ PulseThread \/ FillFails \/ RawThread \/ SpuriousWakeUp
     \/ DeliverInput \/ DeliverOutput \/ Component \/ EmptyInputFails \/ FillOutputFails
     \/ ReturnTrackBuffer \/ ReturnsOldBuffer

(***************************************************************************)
(* Properties.                                                              *)
(***************************************************************************)

\* The places where a buffer of the source can be.
InMessages(thread) ==
  [i \in DOMAIN thread.messages_ |-> thread.messages_[i].list]
Occurs(b, list) == Cardinality({i \in DOMAIN list : list[i].b = b})
OccursIn(b, lists) ==
  LET count[i \in 0..Len(lists)] == IF i = 0 THEN 0 ELSE count[i - 1] + Occurs(b, lists[i])
  IN count[Len(lists)]
AtClient(b) == Cardinality({e \in client.has : e.b = b})
PcmHolders(b) ==
  OccursIn(b, InMessages(pulse)) + Occurs(b, pulse.buffers)
  + OccursIn(b, InMessages(source)) + Occurs(b, source.buffers)
  + Occurs(b, source.bn_buffers) + Occurs(b, enc.got) + Occurs(b, enc.inputs)
  + (IF Raw THEN AtClient(b) ELSE 0)
OutHolders(b) ==
  Occurs(b, enc.buffers_) + Cardinality({i \in DOMAIN enc.outputs : enc.outputs[i] = b})
  + AtClient(b)

Running == call \in {"running", "pausing", "paused", "resuming"} /\ source.pc # "begin"

\* No PCM buffer and no output buffer of the encoder is in two places, and none is
\* lost while the track runs, unless the component refused it.  Not so when the
\* application kept buffers over a restart, or the encoded source starts with buffers
\* of the run before (AudioRawTrackSource::Thread, AudioEncodedTrackSource::StartTrack,
\* AudioTrackEncoder::Start).
AudioInOnePlace ==
  events \cap {"kept", "stale"} = {} =>
    /\ \A i \in DOMAIN PcmBuffers :
         LET n == PcmHolders(PcmBuffers[i])
         IN n <= 1 /\ (Running /\ i \in DOMAIN ion.source => n = 1 \/ "refused" \in events)
    /\ ~Raw => \A i \in DOMAIN OutBuffers :
         LET n == OutHolders(OutBuffers[i])
         IN n <= 1 /\ (Running /\ i \in DOMAIN ion.encoder => n = 1 \/ "refused" \in events)

\* A stopped track is at rest: no thread of it exists and the codec is gone, and a
\* track that could not be created holds nothing of PulseAudio.  The application got
\* nothing after the buffer marked as the last (AudioPulseClient::Stop, ::Configure,
\* AudioRawTrackSource::StopTrack, AudioTrackEncoder::Stop).
AudioStoppedIsAtRest ==
  /\ call = "idle" => /\ pulse.pc = "none" /\ source.pc = "none"
                      /\ ~enc.on /\ enc.in = "none" /\ enc.out = "none"
  /\ call = "none" => held = {} /\ ion.source = <<>> /\ ion.encoder = <<>>
  /\ Raw => "after" \notin events

\* The buffers of an audio track circulate while it runs, and a stopped track
\* has no thread and no codec left.
AudioBuffersCirculate == AudioInOnePlace /\ AudioStoppedIsAtRest

\* A thread sleeps although a message waits for it: the wake-up came between its
\* test and its wait.
Missed == \E t \in {pulse, source} : t.pc = "asleep" /\ t.messages_ # <<>>

Stopping == call \in {"stop_pulse", "join_pulse", "join_source", "stop_codec", "join_codec",
                      "await_eos"}

\* StopSession of an audio track returns, when the application returns its buffers,
\* unless a thread sleeps for ever on a message, the allocator left too few buffers,
\* the codec was paused, the component refused a buffer, or the encoded source began
\* with buffers of the run before, whose last ended this one
\* (AudioPulseClient::Stop, AudioRawTrackSource::StopTrack, NotifyPortEvent).
AudioStopReturns ==
  \/ <>[]Missed
  \/ Stopping ~> (~Stopping \/ failed # "no"
                  \/ events \cap {"short", "paused", "stale", "refused"} # {})
=============================================================================
