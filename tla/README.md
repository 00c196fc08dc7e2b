# A verification of the QMMF SDK

TLA+ modules for the concurrent parts of the QMMF SDK (a camera and audio
recording service), the TLC configurations that check them on small instances,
and proofs of their main properties that TLAPS checks for every value of the
constants.

`PROJECT.json` lists components, runs, theorems, hazards and findings, and maps
every definition to the source lines it models.

## The system

An application links the **client library** (`RecorderClient`), which talks over
binder to the **service** (`RecorderService`, one per device). The service has
one `RecorderImpl`, shared by all clients, that keeps who owns which camera and
which sessions and tracks exist. It drives a `CameraSource` (one `CameraContext`
per open camera, one `TrackSource` per video track), an `EncoderCore` (one
`TrackEncoder` per encoded track, each around an OMX `AVCodec`), and the audio
counterparts of both. Under a `CameraContext` sits the **camera adaptor**:
`Camera3DeviceClient` and its parts, which drive the vendor's camera HAL.

| part | state | operations | talks to | module |
|---|---|---|---|---|
| `Camera3Monitor` | state per monitor, queue of changes, composite state | acquire, release, change; thread reports | device client (`idle_notify_`) | `Camera3Monitor`, `StateReporter` |
| `Camera3Stream` | status, buffer pool, counters | configure, prepare, GetBuffer, ReturnBuffer, TearDown, Close | HAL, monitor, request and prepare threads | `Camera3Stream` |
| `ThreadHelper` | `state_`, a `std::thread` | Run, RequestExit, RequestExitAndWait | all adaptor threads | `ThreadHelper` |
| `Camera3PrepareHandler` | streams to prepare | Prepare, Clear; thread | streams, `prepare_cb_` | `Camera3PrepareHandler` |
| `Camera3RequestHandler` | queue, streaming list, frame numbers, pause flags | queue, repeat, clear, pause, submit; thread | HAL, streams, monitor | `Camera3RequestHandler` |
| `Camera3DeviceClient` | device state, streams, pending requests | configure, create, delete, submit, cancel, flush; HAL callbacks | all of the above | `Camera3Results`, `CameraContext` |
| `CameraContext`, ports | streams, streaming request, still captures, ZSL queue | open, close, capture, add and remove consumers | device client | `CameraContext`, `CameraContextHal1`, `Hal1Modes` |
| `RecorderService` | callbacks and death notifiers of clients | Connect, Disconnect, client death, forwarded calls | `RecorderImpl` | `RecorderCameras`, `RecorderSessions` |
| `RecorderImpl` | clients, camera owners, sessions, tracks | start and stop camera; create, start, pause, stop, delete sessions and tracks | sources, encoders | `RecorderCameras`, `RecorderSessions` |
| `TrackSource` | a track's buffers and queues | start, stop, pause, flush, frame arrival, buffer return | `CameraContext`, encoder, client | `TrackSource` |
| FRC | expected time of the next frame | frame arrival, rate changes | track source | `FrameRateController` |
| rescaler | a queue, a pool and a thread | frame arrival, buffer return, start, stop | two FRCs | `CameraRescaler` |
| `TrackEncoder`, `AVCodec` | OMX state, headers, input and output buffers | configure, start, stop, pause, flush, port reconfiguration | OMX, track source, client | `AVCodec`, `CodecConfig` |
| audio sources, encoders | buffers, messages, two threads | create, start, pause, stop, delete | PulseAudio, codec, client | `AudioTrack` |
| `RecorderClient` | sessions, tracks, callbacks, mapped buffers | every call of the API, callbacks, death of the service | service | `RecorderClient`, `RecorderBinder` |

What is hard to get right and hard to test here: two or three locks per
component taken one after the other, so that a check and the act on it fall
into different critical sections; threads that stop by themselves while someone
restarts them; a pause protocol between the device client and the request
thread that goes through a third thread (the monitor); frame numbers promised
before they are given out; buffers that the HAL, the encoder, a linked track and
the client hold while a track is stopped; one queue of events that several
threads pop; a client or a service that dies in the middle of a call.
`PROJECT.json` lists each as a hazard at its line, with the properties that
would catch it.

## Modules

Each module has a header comment; here is how it corresponds to the code. In
several of them a history variable (`conduct`, `events`, `mishaps`, `troubles`)
records circumstances that the code does not cope with, or that its callers are
expected to avoid. A property that holds only without some of them names them,
in its formula and in its comment; every one of them is reached in the run.

### Camera adaptor

**`Camera3Monitor`** One action per critical section. `lock_` guards the states,
`input_lock_` the queue; `ThreadLoop` is in one of `top`, `wait`, `apply`,
`notify`. Callers between their two critical sections are counted by
`signalling`. `notified` and `requested` are history variables.

**`StateReporter`** What the monitor promises: the client is told every change of
one composite state, in order, each once. `Camera3Monitor` implements it with the
composite state for `actual`, the last notification for `told` and the states the
thread has still to report for `backlog`.

**`Camera3Stream`** Every method runs under `lock_` and is one action; `GetBuffer`
may sleep (`waiting`). `place` says who holds each buffer. `Quiesced` says
whether the owner reconfigures only idle streams, as the device client does
when its view of idle is right. The `uint32` counters wrap at `CounterModulus`.

**`ThreadHelper`** A call is a sequence of steps; `MainLoop` interleaves with
them. The module has no specification of its own: the prepare handler, whose
`ThreadLoop` returns by itself, is the user it is checked with. That `std::thread`
throws in `Run` is `RunFails` there.

**`Camera3PrepareHandler`** Composed with `ThreadHelper`: it extends it and uses
its steps for starting and joining the thread.

**`Camera3RequestHandler`** The thread's place is `pc`, the device client's place
in the pause protocol is `owner`. Requests have an id, and the id of the
streaming list they come from. `promised` records the frame numbers told to
the client. `mishaps` records that a buffer could not be had or that a
reconfiguration failed and left the handler paused. Reprocessing is left out.

**`Camera3Results`** The requests in flight: `pending` is
`pending_requests_vector_`, `errors` the keys of `pending_error_requests_vector_`.
`NotifyShutter`, `NotifyError` and `HandleCaptureResult` each run under
`pending_requests_lock_` and are one action, together with the HAL's step that
calls them; what they have in common (`SendCaptureResult`, `ReturnOutputBuffers`,
`RemovePendingRequestLocked`) works on a record of the entry, the client's view
and the counters. Metadata is the set of the parts it is made of, a timestamp is
known or not. The HAL keeps the contract stated in the module: each piece once,
parts in order, shutters and last parts in frame order, an error message at any
time. Going out of order, and a frame number that a normal and a reprocess
request use at the same time, are `troubles`.

**`CameraContext`** A camera composed of `CameraContext`, its ports and the
`Camera3DeviceClient` below, whose request handler, streams and monitor are
reduced to what their own modules show. The client has one call in the service
at a time. A call is an `agenda` of steps, one for what happens between two
waits, so that a call that calls others (a capture that pauses ports, deletes
streams, configures and restarts) is the concatenation of theirs, and an early
return drops the rest. Beside it run the request handler, the HAL's buffers,
errors and results, and the monitor's reports. A ZSL picture is reprocessed: its
input buffer comes out of the queue, goes to the HAL and back to its stream
(`Pickable`, `ReturnZSLInputBuffer`). The HAL may refuse to open, a configuration or
a request, on which the code asserts.

**`CameraContextHal1`** The same interface over a HAL of the first version, with a
preview and a video port: streams take a port when they start and move when the
other one stops. Memory is a set of descriptors the HAL asks for and gives back.
What the HAL says to a start or to `take_picture` is not looked at, so that a port
may count as started without frames and a picture may never come.
What the code reads uninitialised, or after it was erased, takes each outcome the
build can produce. **`Hal1Modes`** has its mode tables and their look-up.

### Recorder service

**`RecorderCameras`** `RecorderService`, the client and camera maps of
`RecorderImpl`, and the `camera_map_` of `CameraSource` together. Each client has
the thread of its call and the thread that handles its death. A call that is in
the recorder when it is destroyed is `lost`.

**`RecorderThreads`** The two threads of each client, shared by the modules here.

**`RecorderSessions`** The maps of sessions, tracks, session states and session
mutexes of `RecorderImpl`, with the state of each track source and track encoder.
A step is one critical section of `client_session_lock_`, or what a loop does to
one track; `Outcomes` gives the results a call on a track can have, a failed
assertion included. The call of a client and its cleanup are two threads that
run the same functions. `operator[]` makes the entries it does not find, as in
the code. The checks of a call's client, session and track are made together, when
the call begins. A freed entry that is still used, or a failed assertion, sets `crashed`
and ends the behaviour.

### Video and audio tracks

**`TrackSource`** The four threads that meet in a track: the camera's, the
encoder's input thread, the OMX component's and the client's. `buffers_`,
`buffer_map_` and the queues count references to each buffer; a linked track is
a consumer that returns them one by one. `EnableFrameRepeat` makes the controller
above bring the last frame again; `astray` has the buffers whose references went
wrong, so that the properties go on to hold of all the others.

**`FrameRateController`** The pacing of one controller: which frames are skipped,
passed on and repeated. Times are whole ticks; each turn of the repeat loop is a
step. `due` and `adjusted` split the expected time into what was passed on and
what early frames took off it.

**`CameraRescaler`** The pipe of a rescaled track between two controllers: its
thread, its queue, its pool with the failures of the allocator, and the order in
which `StartTrack` and `StopTrack` start and stop them. `late` records that a frame
passed `fsc_` while it was being drained and reached the queue afterwards, where
nobody flushes it.

**`AVCodec`** The object that up to five threads share: control, flush, input,
output and port reconfiguration. All but the input thread pop events from
`signal_queue_`, whoever comes first. The component is external: it answers
commands in order, within the time `Pop` waits, and may refuse a command or a
buffer. The output queues are those of `TrackEncoder`; the source before it ends
the stream when the track is stopped. An event popped by a thread that did not wait
for it is noted (`stolen`).

**`CodecConfig`** The calls of `ConfigureCodec` for the four kinds of codec, as
sequences computed from the parameters and made one by one, each of which the
component may refuse; the tables of levels and of rate controls, and what the
build's options leave out; the agreement on buffer counts and the header arrays.

**`AudioTrack`** A PCM or an encoded audio track: the PulseAudio thread, the raw
track's thread or the encoded track's queue with its codec, the ION buffers and
the calls of `RecorderImpl`. A thread that tests its queues and then waits has a
step in between, in which a message wakes nobody.

### Client

**`RecorderBinder`** What each side of the binder writes and reads, for every
command and callback, as sequences of typed items without names. The metadata of a
capture is counted with 8 bits (`Packed`), and `onTransact` returns before it does
anything when metadata is empty or cannot be read (`Unread`).

**`RecorderClient`** The client over these parcels: a call takes `lock_`, looks at
the client's lists, writes and waits; callbacks come on a binder thread and frames
go back on another, both without `lock_`; a third tells of the service's death.
The proxy in the service sends a buffer's descriptors once and its index from then
on, so that the client's map has to stay in step.

Operators marked `Slip:` are plausible mistakes in the definition after them;
substituting one breaks the property it is listed with in `PROJECT.json`.

## Runs

An `MC` module gives the constants their values. Modules that share no state are
checked in one run: the behaviours of such a run are those of one module or of
another, chosen in the initial state by `part`.

| run | modules | shows | bounds |
|---|---|---|---|
| `threads` | `Camera3Monitor`, `Camera3PrepareHandler` with `ThreadHelper` | no change is slept on, every change is told in order and once (refinement of `StateReporter`), the final state is reported; streams are prepared once, `std::thread` rules are kept, every Prepare is answered while the device client lives | 2 monitors, queue of 3; 2 streams of 2 buffers |
| `stream` | `Camera3Stream` | buffer accounting, counters, monitor follows pending buffers | 4 handles, 2 callers, pools of 2 and 3 |
| `requests` | `Camera3RequestHandler` | nothing reaches the HAL during a reconfiguration; promised frame numbers hold; settings reach the HAL; pauses take effect and queued requests are taken | bursts of 2, 3 ids, 3 frames, batches of 1 and 2 |
| `results` | `Camera3Results` | every buffer goes back once, every frame is served in full and with its shutter first, a HAL that keeps its contract causes no device error, a failed request leaves no buffer behind | 2 normal requests and 1 reprocess request of 2 buffers each, 2 parts, 1 failure or trouble |
| `camera_context` | `CameraContext`, `CameraContextHal1` | no assertion fails but those on the HAL's refusals and the one of a capture that finds a track not running, the repeating request is that of the started tracks, a stopped track is drained; with the older HAL each track is fed by one port, the pictures listed are those a client holds, and modes are read back | 2 tracks or 1 track and each image mode, 5 or 6 calls, 3 frames, 3 buffers out; older HAL: 2 or 3 tracks, 6 or 7 calls |
| `recorder` | `RecorderSessions`, `RecorderCameras` | session maps agree although ids restart, the tracks of a session follow its state, nothing runs on or is left behind; one owner per camera, closed by its owner only; every call on sessions and tracks ends, and every cleanup of a dead client | 2 clients, one of which records and may die, 2 tracks in one session or 1 in each of two; 1 camera, deaths, slave mode |
| `track_source` | `TrackSource`, `FrameRateController`, `CameraRescaler`, `CodecConfig` | a track's buffers circulate and a stopped track holds none; the frame rate is kept; the rescaler gives every buffer back and its stop is not kept waiting; header arrays match the ports and a configured codec has what was asked for | 2 buffers, 2 starts, 3 formats; two output intervals and five gaps, faster, slower and a tie, 1500 ticks; pools of 2; about 130 codecs with one refusal |
| `codec` | `AVCodec` | buffers circulate, every event popped is the one awaited unless two uses of the queue overlap, a drained stop returns | an encoder of 2 buffers started twice, a decoder of 2 buffers; 1 flush, port change or refusal |
| `audio_track` | `AudioTrack` | buffers circulate, a stopped track is at rest, the stop returns | 1 or 2 buffers on each side, 2 starts, or a pause, or a fault |
| `client` | `RecorderClient`, `RecorderBinder` | parcels are read as written, a held frame is mapped to the memory the service filled, lists agree, assertions hold, the death of the service gets through | 2 sessions, a video and an audio track of 1 buffer, nine uses of 4 to 12 calls, with up to 256 metadata and 11 devices |

Two monitors are enough to disagree, and to come and go while changes of both are
queued; four handles exceed the largest pool, so a refused allocation happens;
three frames hold a burst and a request queued before or after it; two normal
requests are one that overtakes another and one whose number a reprocess request
repeats, with two buffers and parts so that each may come before and after the
shutter. The calls of `camera_context` are enough to open, start, capture, stop
and close, and for two tracks to start and stop around each other. Two clients
are an owner and a rival or slave, each with a call and a death handler; clients
meet in the session ids alone, and two ids are enough to reuse one. Two buffers
let one wait while another is in use; two starts show what one recording leaves
to the next. The horizon of the frame rate is longer than three output intervals,
and its theorem has no horizon. Bounds on events (`MaxEvents`, `faults`,
`refusals`, `MaxTroubles`) are 1 so that the effect of each is seen by itself.

The violation runs each state a sentence of the repository that the code does
not keep; `findings` quotes it.

| run | what the code does |
|---|---|
| `late_results` | of the late results of a failed request only the first is ignored; the second puts the device in error |
| `recorder_death` | the cleanup forgets a dead client before it stops its cameras, which stay open |

`CHECK_DEADLOCK FALSE` stands where the system may stop: bounds on ids, frames and
calls, threads that exited, clients that are gone, a failed assertion.

What the properties have to except, because the code does not cope with it, is
part of what the runs show. The larger cases, each with its tag in the module:

- `CameraContext`: a reconfiguration the HAL refuses leaves the request handler
  paused; a capture pauses and restarts all ports and asserts that they are started,
  which a track that is only created, stopped or paused is not.
- `CameraContextHal1`: a third stream, for which there is no port; a restart with
  frames out; images returned for a dead client that held more than one.
- `TrackSource`: a frame on its way in while the encoder stops, a linked track that
  outlives its master's stop, a frame repeated while it is encoded, and a cycle of
  locks between `EnableFrameRepeat` and the camera's thread.
- `FrameRateController`: a repeat loop that runs away from its timestamp when the
  camera is faster than the track or exactly half an interval late.
- `AVCodec`: a flush or a port reconfiguration beside a start, a stop, the end of the
  stream or one another takes the other's event; a stop does not return if the codec
  is paused, its output port changes meanwhile, or the end of the stream never comes.
- `CodecConfig`: a component that needs more output buffers than the encoder core
  allocates; a level and a rate control that the tables do not have.
- `AudioTrack`: a wake-up missed between test and wait, after which the stop may wait
  for ever; a start that finds buffers of the run before.
- `RecorderClient`: a track id used in two sessions; callbacks after `Disconnect`; a
  service gone before `linkToDeath`, whose result is not looked at; a capture with
  more than 255 metadata, which packs for ever with `lock_` held; commands with empty
  metadata, which are dropped and answered as if they were served.

## Fairness

Threads that are able to run do run: weak fairness of the monitor, prepare and
request threads, of the codec's and the audio track's threads, and of a caller
between two critical sections. Of the outside world the liveness properties need
that the OMX component answers (`AVCodec`, `AudioTrack`: its waits are timed, and a
component that is silent is one that refused), that the application returns the
frames it was given (a stop that drains waits for them by design), and that the
binder ends a call whose service is gone and delivers the death notice
(`RecorderClient`). Nothing else is assumed of clients. In `recorder`, a cleanup is
not overtaken for ever at `stop_camera_lock_` (strong fairness: whoever has it
gives it up after at most its timeout); a session's mutex is wanted by at most two
threads, for which weak fairness is enough.

## Proofs

Each theorem holds for every value of the constants; TLC checks the same property,
and checked the inductive invariant, on a small instance. No property below is
inductive as it stands; what had to be added is named here and stated in the
module. Assumptions are those written as `ASSUME` in the modules, or in the theorem.

`Camera3Threads_proofs`, about the monitor: `TypeOK`, and for any number of monitors
and any queue length `SleepsOnlyWhenReported`, `NoRepeatedNotification`, `LastRequestWins` and
`ReportsEveryChange`. The first two rest on an invariant that ties
`composite_state_`, the chain of states still to be reported and the last one
reported (`Alternates`, `Progress`); the third on ids being fresh (`FreshIds`). The
last is the refinement of `StateReporter`: every step of the monitor maps to a
change, to a notification or to a stutter. And about the prepare handler with its
`ThreadHelper`: `PreparedOnce`, for any number of streams and buffers. `PrepareInv`
lists what may be left of a call (ten places in a `Prepare` that restarts the thread,
eight in the destruction) and what each says of `state_` and of the `std::thread`
(`Calling`), that the thread runs for `prepare_running_` or is just being started and
leaves nothing behind (`Working`), and that what is queued or in its hands is
`PREPARE_ACTIVE` and there once (`Queueing`). The assumptions are that the client is
one of the callers and that NULL is no stream.

`Camera3Stream_proofs`: `TypeOK`, and for any set of buffers and callers, quiesced
or not, the buffer accounting (`PoolCorrect`). The invariant ties pool, slots,
places and `pending_buffer_count_`; cardinality lemmas come from
FiniteSetTheorems. `MonitorCorrect` needs `Quiesced`: a stream that is reconfigured
with buffers out gets a new monitor, which is told nothing of them. Its
`MonitorInv` adds that a stream being configured has nothing out and nobody
waiting, and that one being prepared is watched like a configured one.

`Camera3RequestHandler_proofs`: `QuietWhilePaused`, `FrameNumbersKept` and
`SettingsReachHal`, for any number of requests, batch sizes and frames. `Pausing`
relates the two pause flags, the monitor and the place of the device client in the
pause protocol. `Numbering` says of each queued request which frame number it will
get if nothing is cleared, and that this is what was promised. `Settled` says whose
settings the HAL has, as `old_request_` knows it, but for a reconfiguration that
the thread has not noticed yet.

`Camera3Results_proofs`: `TypeOK`, and `BuffersReturnedOnce` for any number of
requests, buffers and metadata parts, any order of messages and any failures.
`BuffersReturnedOnce` says nothing of the count by which
`RemovePendingRequestLocked` decides. The invariant `IInv` adds that an entry's
`buffersRemaining` is the number of buffers the HAL has, that a kept buffer is the
request's own and not the HAL's, that a request without an entry has no buffers
in the HAL, and that a request whose number was taken over gets no message any
more (`Apart`, as long as no number was shared); and in any case that entries
belong to requests that were sent (`Basic`). The lemmas say what each shared
step gives back, so that each handler's proof only adds them up.

`Camera3ResultsServed_proofs` builds on it: `ServedInFull`, `NoneStranded` and
`NoDeviceError`. `JInv` says what an entry has kept of a request, given what the HAL
has delivered and the client has heard (`Fitting`), that a request without a fault
has its entry until the HAL is done and that the client knows all it could know by
then (`Clean`), and that `nextShutter` and `nextResult` are never past a request that
still needs them (`InTurn`), without which a piece in order would raise an error.

`RescaledTrack_proofs`: `PacedAsAsked` for every set of positive intervals and gaps,
without the horizon of the run. The invariant `FrcInv` splits the expected time into
what was due and what early frames took off it, which is at most a hundredth
(`Balance`), and bounds how far it runs ahead of the camera (`Ahead`, and
`AheadSteady` for the repeat loop). And `RescaledFramesCirculate` for any buffers on
either side. `PipeInv` adds the frame in the camera's hands to the places of a
frame, the buffer of a failed `ThreadLoop` to those of the pool, and the equation
on which the pool rests: `pending_buffer_count_` is the number of buffers in use, or
one less from the moment `PopulateMetaInfo` has failed.

`RecorderCameras_proofs`: `OwnershipIsSound` for any clients and cameras. A camera
has one claim at most, by who opens it or by who owns it and has not closed it, and
is open as the claim says (`OneClaim`). This needs that who closes a camera has
`stop_camera_lock_` and still owns it (`Closing`), that the cleanup of a dead client
never gets past the checks of `StopCamera`, since the client is already forgotten
(`Burials`), and that a client without an entry has no cameras (`Entries`).

`RecorderSessions_proofs`: `SessionMapsAgree` for any clients, sessions and tracks, as
long as no client dies inside a call and no track is left behind by a failure
(`Tidy`). `Order` says that the maps keyed by session have the same keys (`Keyed`),
and of each client that the call and the cleanup are not at work together (`Alone`),
that the place of either says what is listed of its session and its track
(`Placed`), that the cleanup misses no session and no track (`Thorough`), and that
sources and encoders are there exactly for the tracks that are listed, or about to
be, and not about to be erased (`Exists`). That service ids do not collide is
arithmetic (`IdsDiffer`): a session id has 8 bits and a track id 16.

Model-checked only: liveness (fairness and ENABLED are out of the prover's reach),
and the safety properties of the components that this section does not name, with
`TracksFollowSession` of the sessions. Most of their invariants depend on agendas of
calls, whose shape the model computes, or on folds over lists of buffers
(`TrackSource`); what a function computes over a sequence of any length needs an
induction that the prover cannot do.

## Not modelled

- Pixel work and vendor libraries: resizers, overlay, JPEG, what the rescaler
  draws. Calls with no state the rest depends on.
- EXIF, extra parameters, smooth zoom, property look-up: sequential conversions.
- Allocator adapters (gralloc, GBM), the main function of the server, logging.
- Of `CameraContext`: the pairing of ZSL buffers with their metadata, batches for
  high frame rates and the choice of sensor modes, postprocessing pipelines, the
  wait for the exposure to settle. Of the HAL1 variant: numeric parameters.
- Of `Camera3RequestHandler`: the loop for reprocess requests. Their results are in
  `Camera3Results`.
- Of `Camera3DeviceClient`: several callers at once. `CameraContext` holds
  `device_access_lock_` around its calls.
- Of the codecs: contents and sizes of buffers, the public `AVCodec` wrapper.
- The allocation of track ids.
