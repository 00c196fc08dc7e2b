------------------------- MODULE CameraContextHal1 -------------------------
(***************************************************************************)
(* CameraContext for a camera HAL of the first version: a camera has two   *)
(* ports, kPreview and kVideo, and a stream only takes one when it starts. *)
(* Stopping the preview port's stream while both run stops both and puts   *)
(* the other one on the preview port.  The HAL asks for memory by file     *)
(* descriptor and gives it back (g_allocated_fd_buffer_list_); a frame is  *)
(* lent to the stream's consumer and comes back through the producer       *)
(* handle the consumer has by then.  Pictures are taken one call at a      *)
(* time, and the modes of a metadata buffer become names of the HAL's      *)
(* parameters and back.                                                    *)
(*                                                                         *)
(* A failed assertion ends the process and stays in aborted.               *)
(***************************************************************************)
EXTENDS Sequences, FiniteSets, TLC, Hal1Modes

CONSTANTS
  Hal1Uses,  \* what a run does with the camera: kind, tracks, calls, undefined,
             \* and for parameters the names the HAL supports
  Fds        \* the file descriptors of each port's memory

VARIABLES
  use,              \* one of Hal1Uses
  camera,           \* "new", "open", "failed", "closed" or "gone"
  streams_params_,  \* the tracks with a stream
  consumers_,       \* the tracks with a consumer entry
  ports_,           \* a record per port type
  producer,         \* the port whose producer handle each track's consumer has
  memory,           \* g_allocated_fd_buffer_list_: isInUse of each descriptor
  frames,           \* the frames consumers hold
  entering,         \* the frame of each port's callback in progress
  todo,             \* what is left of the running call
  running,          \* the tracks that the callers started and did not stop
  settings,         \* mParameters_: frame rate, tracks of the preview and video sizes
  snap,             \* the snapshot's state
  params,           \* the mode names of mParameters_, of the HAL, and those asked for
  calls,            \* calls left
  events, aborted

hal1vars == <<use, camera, streams_params_, consumers_, ports_, producer, memory,
              frames, entering, todo, running, settings, snap, params, calls,
              events, aborted>>

streamVars == <<streams_params_, consumers_, ports_, producer, memory,
                frames, entering, todo, running, settings>>

PortTypes == {"kPreview", "kVideo"}
Rate(t) == 15 * t

Idle == todo = <<>> /\ aborted = {} /\ camera = "open" /\ calls > 0
Spend == calls' = calls - 1

-----------------------------------------------------------------------------
(* Opening and closing. *)

\* CameraPort: the constructor leaves track_id_ as the heap had it.
CameraPort(id) ==
  [track |-> id, state |-> "CREATED", rate |-> 0, consumers |-> {}, hal |-> "off",
   buffer_map |-> {}, buffer_count |-> 0, lent |-> {}]

\* OpenCamera: a HAL that does not open leaves camera_id_ set.
OpenCamera ==
  /\ camera = "new"
  /\ \/ camera' = "failed" /\ UNCHANGED ports_
     \/ /\ camera' = "open"
        /\ \E id \in {0} \cup (IF use.undefined THEN {1} ELSE {}) :
             ports_' = [p \in PortTypes |-> CameraPort(IF p = "kVideo" THEN id ELSE 0)]
  /\ events' = IF camera' = "open" /\ ports_'["kVideo"].track # 0
               THEN events \cup {"garbage"} ELSE events
  /\ UNCHANGED <<use, streams_params_, consumers_, producer, memory, frames,
                 entering, todo, running, settings, snap, params, calls, aborted>>

\* CloseCamera, of CameraSource::StopCamera once no track is left.
CloseCamera ==
  /\ todo = <<>> /\ aborted = {} /\ camera = "open" /\ streams_params_ = {}
  /\ camera' = "closed"
  /\ UNCHANGED <<use, streamVars, snap, params, calls, events, aborted>>

\* ~CameraContext: frees what the HAL did not, and closes the camera unless it
\* was closed; a camera that never opened is closed through a null device.
DestroyContext ==
  /\ camera \in {"failed", "closed"} /\ aborted = {}
  /\ camera' = "gone"
  /\ memory' = <<>>
  /\ aborted' = IF camera = "failed" THEN {"nullDevice"} ELSE {}
  /\ events' = IF camera = "failed" THEN events \cup {"openFailed"} ELSE events
  /\ UNCHANGED <<use, streams_params_, consumers_, ports_, producer, frames,
                 entering, todo, running, settings, snap, params, calls>>

-----------------------------------------------------------------------------
(* The HAL's memory. *)

\* __get_memory, for each buffer of the port that starts.
GetMemory(p) ==
  [f \in DOMAIN memory \cup Fds[p] |-> IF f \in Fds[p] THEN FALSE ELSE memory[f]]

\* __put_memory, for each buffer of the port that stops; the message that tells
\* the clients to map their buffers again is left out.
PutMemory(p) == [f \in DOMAIN memory \ Fds[p] |-> memory[f]]

-----------------------------------------------------------------------------
(* Streams. *)

\* CreateStream admits a third stream.
CreateStream(t) ==
  /\ Idle /\ Spend /\ t \notin streams_params_
  /\ Cardinality(streams_params_) <= 2
  /\ streams_params_' = streams_params_ \cup {t}
  /\ events' = IF Cardinality(streams_params_') > 2 THEN events \cup {"third"} ELSE events
  /\ UNCHANGED <<use, camera, consumers_, ports_, producer, memory, frames,
                 entering, todo, running, settings, snap, params, aborted>>

\* DeleteStream, of a stopped track: the wait for the port's buffers is never
\* met, DeInit has cleared the port's track_id_.
DeleteStream(t) ==
  /\ Idle /\ Spend /\ t \in streams_params_ \ running
  /\ \A f \in frames : f.track \in running
  /\ IF \E p \in PortTypes : ports_[p].track = t /\ ports_[p].state # "CREATED"
     THEN aborted' = {"deleteStream"} /\ UNCHANGED streams_params_
     ELSE /\ \A p \in PortTypes : ports_[p].track = t => ports_[p].buffer_count = 0
          /\ streams_params_' = streams_params_ \ {t}
          /\ UNCHANGED aborted
  /\ UNCHANGED <<use, camera, consumers_, ports_, producer, memory, frames,
                 entering, todo, running, settings, snap, params, events>>

\* GetFreePort: the first in the order of the port types.
GetFreePort ==
  IF ports_["kPreview"].state = "CREATED" THEN "kPreview"
  ELSE IF ports_["kVideo"].state = "CREATED" THEN "kVideo" ELSE "none"

\* What both ports' Init sets of the port itself.
InitPort(p, t) == [ports_[p] EXCEPT !.track = t, !.rate = Rate(t), !.state = "INITIALIZED"]

\* PreviewPort::Init: the preview takes the stream's size, the video 320x240.
PreviewInit(t) == [settings EXCEPT !.preview = t, !.video = 0]

\* VideoPort::Init: the video takes the stream's size.
VideoInit(t) == [settings EXCEPT !.video = t]

\* CameraPort::AddConsumer.
AddConsumer(port, t) == [port EXCEPT !.consumers = @ \cup {t}]

\* The higher rate of the two ports.
MaxFps(ports) == Max({ports[p].rate : p \in PortTypes})

\* A stream's way to port p, of StartStream and of StopStream's restart: Init,
\* AddConsumer, SetFps and the HAL's start call, which asks for memory unless it
\* refuses; the port's state follows when that call returns, whatever it says.
Begin(p, t, next) ==
  /\ \E hal \in {"on", "refused"} :
       ports_' = [ports_ EXCEPT ![p] = [AddConsumer(InitPort(p, t), t) EXCEPT !.hal = hal]]
  /\ producer' = [producer EXCEPT ![t] = p]
  /\ settings' = [(IF p = "kPreview" THEN PreviewInit(t) ELSE VideoInit(t))
                    EXCEPT !.fps = MaxFps(ports_')]
  /\ memory' = IF ports_'[p].hal = "on" THEN GetMemory(p) ELSE memory
  /\ aborted' = aborted \cup {a \in {"consumer"} : t \notin consumers_'}
                        \cup {a \in {"memory"} : /\ ports_'[p].hal = "on"
                                              /\ Fds[p] \cap DOMAIN memory # {}}
  /\ todo' = <<[do |-> "started", port |-> p]>> \o next

\* AddConsumer and StartStream, of TrackSource::StartTrack, which asserts that
\* both succeed.
StartStream(t) ==
  /\ Idle /\ Spend /\ t \in streams_params_ \ running
  /\ \A f \in frames : f.track \in running
  /\ consumers_' = consumers_ \cup {t}
  /\ running' = running \cup {t}
  /\ IF GetFreePort = "none"
     THEN /\ aborted' = {"startTrack"}
          /\ UNCHANGED <<ports_, producer, settings, memory, todo>>
     ELSE Begin(GetFreePort, t, <<>>)
  /\ UNCHANGED <<use, camera, streams_params_, frames, entering, snap, params,
                 events>>

\* The port StopStream finds: the last one with the track's id.
PortOf(t) ==
  IF ports_["kVideo"].track = t THEN "kVideo"
  ELSE IF ports_["kPreview"].track = t THEN "kPreview" ELSE "none"

BothActive == \A p \in PortTypes : ports_[p].state = "STARTED"

\* StopStream, of TrackSource::StopTrack, which goes on to RemoveConsumer.
StopStream(t) ==
  /\ Idle /\ Spend /\ t \in running
  /\ \A f \in frames : f.track \in running
  /\ running' = running \ {t}
  /\ aborted' = IF PortOf(t) = "none" THEN {"stopStream"} ELSE {}
  /\ todo' = (IF PortOf(t) = "kPreview" /\ BothActive
              THEN <<[do |-> "stop", port |-> "kVideo"], [do |-> "stop", port |-> "kPreview"],
                     [do |-> "restart", without |-> t]>>
              ELSE <<[do |-> "stop", port |-> PortOf(t)]>>) \o <<[do |-> "remove", track |-> t]>>
  /\ UNCHANGED <<use, camera, streams_params_, consumers_, ports_, producer, memory,
                 frames, entering, settings, snap, params, events>>

At(step) == todo # <<>> /\ Head(todo).do = step /\ aborted = {}

\* The end of PreviewPort::Start and of VideoPort::Start.
Started ==
  /\ At("started")
  /\ ports_' = [ports_ EXCEPT ![Head(todo).port].state = "STARTED"]
  /\ todo' = Tail(todo)
  /\ UNCHANGED <<use, camera, streams_params_, consumers_, producer, memory,
                 frames, entering, running, settings, snap, params, calls, events,
                 aborted>>

\* CameraPort::RemoveConsumer, of the consumer of the port's track; one that is
\* not connected stays away.
PortRemoveConsumer(port) == [port EXCEPT !.consumers = @ \ {port.track}]

\* CameraPort::DeInit.
DeInit(port) == [port EXCEPT !.track = 0, !.rate = 0, !.state = "CREATED"]

\* A port after the HAL's stop call, RemoveConsumer and DeInit.
Stopped(port) == [DeInit(PortRemoveConsumer(port)) EXCEPT !.hal = "off", !.lent = {}]

\* Stop of either port, RemoveConsumer and DeInit.  The HAL's stop call returns
\* when no callback of its runs any more, and its memory is released; a port
\* that is not started has nothing to stop.  __put_memory goes on from the map
\* entry it erased, which is undefined: it finds the next one, or crashes.
StopPort ==
  /\ At("stop")
  /\ LET p == Head(todo).port
     IN /\ entering[p] = 0
        /\ memory' = IF ports_[p].state = "STARTED" /\ ports_[p].hal = "on"
                     THEN PutMemory(p) ELSE memory
        /\ \/ /\ aborted' = {a \in {"deInit"} : PortRemoveConsumer(ports_[p]).consumers # {}}
              /\ UNCHANGED events
           \/ /\ use.undefined /\ ports_[p].state = "STARTED" /\ ports_[p].hal = "on"
              /\ aborted' = {"erasedEntry"} /\ events' = events \cup {"erasedEntry"}
        /\ ports_' = [ports_ EXCEPT ![p] = Stopped(@)]
  /\ todo' = Tail(todo)
  /\ UNCHANGED <<use, camera, streams_params_, consumers_, producer, frames, entering,
                 running, settings, snap, params, calls>>

\* Slip: the first stream.
FirstStream(t) == Min(streams_params_)

\* The stream StopStream restarts: the first one that is not the stopped one.
OtherStream(t) ==
  LET others == streams_params_ \ {t} IN IF others = {} THEN 0 ELSE Min(others)

\* StopStream's restart of the stream whose port was stopped with the other.
Restart ==
  /\ At("restart")
  /\ LET t == OtherStream(Head(todo).without)
     IN IF t \notin consumers_
        THEN /\ aborted' = {"consumer"}
             /\ UNCHANGED <<consumers_, ports_, producer, settings, memory, todo,
                            events>>
        ELSE /\ UNCHANGED consumers_
             /\ Begin(GetFreePort, t, Tail(todo))
             /\ events' = events \cup {e \in {"moved"} : frames # {}}
  /\ UNCHANGED <<use, camera, streams_params_, frames, entering, running, snap,
                 params, calls>>

\* RemoveConsumer, of TrackSource::StopTrack, which asserts that it succeeds.
RemoveConsumer ==
  /\ At("remove")
  /\ LET t == Head(todo).track
     IN /\ aborted' = {a \in {"removeConsumer"} :
                         \E p \in PortTypes : ports_[p].track = t /\ ports_[p].state = "STARTED"}
        /\ consumers_' = consumers_ \ {t}
  /\ todo' = Tail(todo)
  /\ UNCHANGED <<use, camera, streams_params_, ports_, producer, memory,
                 frames, entering, running, settings, snap, params, calls, events>>

-----------------------------------------------------------------------------
(* Frames. *)

\* StreamCallback up to its decision: a frame for nobody, or of a port that is
\* not started, goes straight back to the HAL.
StreamCallback(p, fd) ==
  /\ aborted = {} /\ entering[p] = 0
  /\ ports_[p].hal = "on" /\ fd \in Fds[p] \ ports_[p].lent
  /\ ports_[p].consumers # {} /\ ports_[p].state = "STARTED"
  /\ entering' = [entering EXCEPT ![p] = fd]
  /\ ports_' = [ports_ EXCEPT ![p].lent = @ \cup {fd}]
  /\ IF fd \in DOMAIN memory
     THEN memory' = [memory EXCEPT ![fd] = TRUE] /\ UNCHANGED aborted
     ELSE aborted' = {"memory"} /\ UNCHANGED memory
  /\ UNCHANGED <<use, camera, streams_params_, consumers_, producer, frames,
                 todo, running, settings, snap, params, calls, events>>

\* The rest of StreamCallback: the frame is counted and given to the consumer.
NotifyBuffer(p) ==
  /\ aborted = {} /\ entering[p] # 0
  /\ ports_' = [ports_ EXCEPT ![p].buffer_count = @ + 1,
                              ![p].buffer_map = @ \cup {entering[p]}]
  /\ frames' = frames \cup {[track |-> t, port |-> p, fd |-> entering[p]]
                              : t \in ports_[p].consumers}
  /\ entering' = [entering EXCEPT ![p] = 0]
  /\ UNCHANGED <<use, camera, streams_params_, consumers_, producer, memory,
                 todo, running, settings, snap, params, calls, events, aborted>>

\* CameraPort::NotifyBufferReturned.
TakeBack(port, fd) == [port EXCEPT !.buffer_count = @ - 1, !.buffer_map = @ \ {fd},
                                   !.lent = @ \ {fd}]

\* A consumer gives a frame back to the producer it knows: one that did not
\* send it ignores it.
ReturnFrame(f) ==
  /\ aborted = {}
  /\ frames' = frames \ {f}
  /\ IF producer[f.track] # f.port THEN UNCHANGED <<ports_, aborted>>
     ELSE IF f.fd \notin ports_[f.port].buffer_map
          THEN aborted' = {"notOut"} /\ UNCHANGED ports_
          ELSE ports_' = [ports_ EXCEPT ![f.port] = TakeBack(@, f.fd)] /\ UNCHANGED aborted
  /\ UNCHANGED <<use, camera, streams_params_, consumers_, producer, memory,
                 entering, todo, running, settings, snap, params, calls, events>>
-----------------------------------------------------------------------------
(* Pictures. *)

Modes == {"kStill", "kVideo", "kZsl", "kContinuous"}

\* SetUpCapture: a context in kZsl keeps its type and size.
SetUpCapture(s) == IF s.type = "kZsl" THEN s ELSE [s EXCEPT !.type = s.new, !.size = TRUE]

\* ConfigImageCapture, then SetUpCapture, of CameraSource::ConfigImageCapture:
\* without a snapshot type the last one stays.
ConfigImageCapture(type) ==
  /\ Idle /\ Spend /\ use.kind = "pictures" /\ snap.client
  /\ snap' = SetUpCapture([snap EXCEPT !.new = IF type = "none" THEN @ ELSE type])
  /\ UNCHANGED <<use, camera, streamVars, params, events, aborted>>

\* ValidateCaptureConfig, or a raw format that is none: nothing changes.
RefuseImageConfig ==
  /\ Idle /\ Spend /\ use.kind = "pictures"
  /\ UNCHANGED <<use, camera, streamVars, snap, params, events, aborted>>

\* How many pictures a call takes.
PicturesOf(type, n) == IF type = "kZsl" THEN 0 ELSE IF type = "kContinuous" THEN 1 ELSE n

\* CaptureImage of n images: refused until SetUpCapture set a size; what
\* take_picture says is not looked at, so that some may never come.
CaptureImage(n) ==
  /\ Idle /\ Spend /\ use.kind = "pictures" /\ snap.client
  /\ \E taken \in IF snap.size THEN 0..PicturesOf(snap.type, n) ELSE {0} :
       snap' = [snap EXCEPT !.cb = TRUE, !.pending = @ + taken]
  /\ UNCHANGED <<use, camera, streamVars, params, events, aborted>>

\* SnapshotCallback: the HAL's next picture is listed and given to the client.
SnapshotCallback(fd) ==
  /\ aborted = {} /\ camera = "open" /\ snap.pending > 0 /\ fd \notin snap.list
  /\ snap' = [snap EXCEPT !.pending = @ - 1, !.list = @ \cup {fd},
                          !.held = IF snap.client THEN @ \cup {fd} ELSE @,
                          !.late = IF snap.client THEN @ ELSE @ \cup {fd}]
  /\ aborted' = IF snap.cb THEN {} ELSE {"snapshotCb"}
  /\ UNCHANGED <<use, camera, streamVars, params, calls, events>>

\* ReturnImageCaptureBuffer, of the client.
ReturnImageCaptureBuffer(fd) ==
  /\ aborted = {} /\ snap.client /\ fd \in snap.held
  /\ snap' = [snap EXCEPT !.list = @ \ {fd}, !.held = @ \ {fd}]
  /\ UNCHANGED <<use, camera, streamVars, params, calls, events, aborted>>

\* What the loop of ReturnAllImageCaptureBuffers leaves: it counts up while the
\* list it takes the first from gets shorter, so that it stops halfway.
ReturnsAll(list) ==
  LET turns == (Cardinality(list) + 1) \div 2
  IN {fd \in list : Cardinality({x \in list : x < fd}) >= turns}

\* The client died: RecorderImpl returns its images for it.
ReturnAllImageCaptureBuffers ==
  /\ todo = <<>> /\ aborted = {} /\ camera = "open"
  /\ use.kind = "pictures" /\ snap.client
  /\ snap' = [snap EXCEPT !.client = FALSE, !.held = {}, !.list = ReturnsAll(@)]
  /\ events' = events \cup {e \in {"half"} : Cardinality(snap.list) > 1}
  /\ UNCHANGED <<use, camera, streamVars, params, calls, aborted>>
-----------------------------------------------------------------------------
(* Modes: the HAL names them, the application numbers them. *)

\* The modes GetCameraCharacteristics lists: those of the names the HAL
\* supports that the table knows; it has no list for antibanding.
Advertised(key) ==
  IF key = "antibanding" THEN {}
  ELSE {lookupAttr(Table(key), name) : name \in use.supported[key]} \ {"NAME_NOT_FOUND"}

\* SetCameraParam: a mode without a name is skipped and the call succeeds; what
\* the HAL says to the new parameters is not looked at.
SetCameraParam(meta) ==
  /\ Idle /\ Spend /\ use.kind = "modes"
  /\ LET name(key) == IF key \in DOMAIN meta
                      THEN lookupNameByValue(Table(key), meta[key]) ELSE "NULL"
         set == [key \in Keys |-> IF name(key) = "NULL" THEN params.set[key] ELSE name(key)]
         asked == [key \in Keys |-> IF name(key) = "NULL" THEN params.asked[key]
                                    ELSE IF meta[key] \in Advertised(key) THEN meta[key]
                                    ELSE "none"]
         noSunset == /\ "scene-mode" \in DOMAIN meta /\ meta["scene-mode"] = "SCENE_SUNSET"
                     /\ "sunset" \notin use.supported["scene-mode"]
     IN \E hal \in {set, params.hal} :
          /\ params' = [set |-> set, hal |-> hal, asked |-> asked]
          /\ events' = events \cup {e \in {"refused"} : hal # set}
                              \cup {e \in {"steadyphoto"} : noSunset}
  /\ UNCHANGED <<use, camera, streamVars, snap, aborted>>

\* What GetCameraParam reads for a key that is set: the low byte of
\* NAME_NOT_FOUND for a name the table does not have.
GetCameraParam(key) == lookupAttr(Table(key), params.set[key])

-----------------------------------------------------------------------------
Hal1Init ==
  /\ use \in Hal1Uses
  /\ camera = "new"
  /\ streams_params_ = {} /\ consumers_ = {} /\ running = {}
  /\ ports_ = [p \in PortTypes |-> CameraPort(0)]
  /\ producer = [t \in use.tracks |-> "none"]
  /\ memory = <<>> /\ frames = {}
  /\ entering = [p \in PortTypes |-> 0]
  /\ todo = <<>> /\ settings = [fps |-> 0, preview |-> 0, video |-> 0]
  \* The constructor sets neither snapshot type.
  /\ \E type \in (IF use.kind = "pictures" THEN Modes ELSE {"kStill"}) :
       snap = [type |-> type, new |-> type, size |-> FALSE, cb |-> FALSE, client |-> TRUE,
               pending |-> 0, list |-> {}, held |-> {}, late |-> {}]
  /\ params = [x \in {"set", "hal"} |->
                 [key \in Keys |-> CASE key = "effect" -> "none"
                                      [] Table(key) = TRUE_FALSE_MAP -> "false"
                                      [] OTHER -> "auto"]]
              @@ ("asked" :> [key \in Keys |-> "none"])
  /\ calls = use.calls
  /\ events = {} /\ aborted = {}

Hal1Calls ==
  \/ \E t \in use.tracks : CreateStream(t) \/ DeleteStream(t) \/ StartStream(t) \/ StopStream(t)
  \/ \E type \in Modes \cup {"none"} : ConfigImageCapture(type)
  \/ RefuseImageConfig \/ \E n \in 1..2 : CaptureImage(n)
  \/ ReturnAllImageCaptureBuffers
  \/ \E fd \in 1..3 : ReturnImageCaptureBuffer(fd)
  \/ \E key \in Keys : \E i \in DOMAIN Table(key) : SetCameraParam(key :> Table(key)[i][2])
  \/ SetCameraParam("effect" :> "EFFECT_AQUA" @@ "scene-mode" :> "UNKNOWN")
  \/ OpenCamera \/ CloseCamera \/ DestroyContext

Hal1Steps ==
  \/ Started \/ StopPort \/ Restart \/ RemoveConsumer
  \/ \E p \in PortTypes : NotifyBuffer(p) \/ \E fd \in Fds[p] : StreamCallback(p, fd)
  \/ \E f \in frames : ReturnFrame(f)
  \/ \E fd \in 1..3 : SnapshotCallback(fd)

Hal1Next == Hal1Calls \/ Hal1Steps

-----------------------------------------------------------------------------
(* Properties.  events records what puts a behaviour outside of them: a    *)
(* third stream ("third"), a port whose unset track_id_ is a track's       *)
(* ("garbage"), an erased map entry gone on from ("erasedEntry"), a camera *)
(* that did not open ("openFailed"), a restart with frames out, some of a  *)
(* producer the consumer no longer knows or of a port that counts the same *)
(* descriptor again ("moved"), images returned for a client that held more *)
(* than one ("half"), parameters the HAL refused ("refused") and sunset    *)
(* where the HAL only has steadyphoto ("steadyphoto").                     *)

\* StartStream, StopStream and the restart: a track that was started and not
\* stopped is on one started port, with its consumer connected to it and to no
\* other, the HAL's rate covers its own and its port has its size (a preview
\* that starts resets the video's), no assertion fails, and every frame out is
\* counted by the port it came from.  A port whose start the HAL refused counts
\* as started, as in the code.
Hal1StreamsFed ==
  events \cap {"third", "garbage", "erasedEntry", "openFailed"} = {} =>
    /\ todo = <<>> =>
         \A t \in running : \E p \in PortTypes :
           /\ ports_[p].track = t /\ ports_[p].state = "STARTED"
           /\ ports_[p].hal # "off" /\ ports_[p].consumers = {t}
           /\ t \notin ports_[IF p = "kVideo" THEN "kPreview" ELSE "kVideo"].consumers
           /\ producer[t] = p /\ settings.fps >= Rate(t)
           /\ t = IF p = "kPreview" THEN settings.preview ELSE settings.video
    /\ "moved" \notin events =>
         aborted = {} /\ \A p \in PortTypes :
           /\ ports_[p].buffer_count = Cardinality(ports_[p].buffer_map)
           /\ ports_[p].buffer_map = {f.fd : f \in {g \in frames : g.port = p}}

\* SnapshotCallback and the returns: the context lists exactly the images a
\* client holds, and after the client's death those that came too late for it.
Hal1ImagesServed == "half" \notin events => snap.list = snap.held \cup snap.late

\* SetCameraParam, GetCameraParam and GetCameraCharacteristics: a mode the
\* camera advertised and the application set is read back as it was set, under
\* a name the HAL supports.
Hal1ModesKept ==
  \A key \in Keys :
    params.asked[key] # "none" =>
      /\ GetCameraParam(key) = params.asked[key]
      /\ {"refused", "steadyphoto"} \cap events = {} => params.hal[key] \in use.supported[key]

====
