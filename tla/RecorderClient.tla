--------------------------- MODULE RecorderClient ---------------------------
(***************************************************************************)
(* A recorder client: RecorderClient of recorder/src/client/               *)
(* qmmf_recorder_client.cc, with the service it talks to.                  *)
(*                                                                         *)
(* A call takes lock_, looks at the client's own lists, writes a parcel    *)
(* and waits for the reply (Begin, Serve, End).  The service's callbacks   *)
(* come one way, in order, on a binder thread that takes no lock_; the     *)
(* buffers are returned without lock_ too, by another thread of the        *)
(* application; a third thread tells of the service's death.  The service  *)
(* may die at any moment.                                                  *)
(*                                                                         *)
(* The proxy in the service remembers which buffers it has sent (sent) and *)
(* from then on sends the index alone: the client finds the memory in its  *)
(* own map (maps).  A buffer is the pair of its id, which the service uses *)
(* again for another buffer once this one is freed, and its memory, which  *)
(* is never used again.  A track has one buffer.                           *)
(***************************************************************************)
EXTENDS RecorderBinder, FiniteSets, TLC

CONSTANTS SessionIds,   \* what CreateSession gives out, from 1 on
          VideoTracks,  \* ids of video tracks
          AudioTracks,  \* ids of audio tracks, from 100 on
          Uses,         \* the ways the client is used: records, see Init
          MaxMemory,    \* bound: buffers ever allocated
          MaxQueue      \* bound: callbacks on their way

ASSUME ClientAssumption ==
  /\ SessionIds \subseteq Nat \ {0} /\ MaxMemory \in Nat /\ MaxQueue \in Nat
  /\ \A t \in VideoTracks : t \in Nat \ {0} /\ IsVideoId(t)
  /\ \A t \in AudioTracks : t \in Nat /\ ~IsVideoId(t)

Tracks == VideoTracks \cup AudioTracks
BufferIds == 1..Cardinality(SessionIds \X Tracks)
ImageFd == 99           \* the image's descriptor, which stands for its memory
ImageOut == <<0, 0>>    \* stands for the image among the frames that are out
CameraId == 0
Unmapped == 0
Failed == -1            \* MAP_FAILED: what mmap gives for no descriptor

VARIABLES
  use,       \* how the client is used
  client,    \* what the client keeps: see Init
  maps,      \* track_buffers_map_ and buffer_ion_: the memory behind each buffer id
  snapshot,  \* snapshot_buffers_: an image is mapped
  app,       \* the call under way
  returning, \* the thread in ReturnTrackBuffer: the frame it returns
  binder,    \* the binder thread in NotifyVideoTrackData: message and address
  queue,     \* callbacks on their way: message, parcel, and what the proxy knew
  service,   \* the service: see Init
  sent,      \* the proxy's track_buffers_map_: buffer ids per track
  death,     \* the death notice: "none" or "due"
  held,      \* frames the application has
  calls,     \* how many calls were begun
  aborted,   \* an assertion failed, or a null pointer was used
  conduct    \* what happened: "shared": a track id used in two sessions at a
             \* time, "left": disconnected with a track or an image there,
             \* "late": a callback or a death notice after the
             \* connection went, "early": an image before CaptureImage returned, "raced": a
             \* frame returned while disconnecting, "dying": a call met a
             \* service that was gone, "refused": a service that said no,
             \* "remapped": the buffers were replaced, "again": a running session
             \* was started, "unlinked": the service went before linkToDeath

vars == <<use, client, maps, snapshot, app, returning, binder, queue, service,
          sent, death, held, calls, aborted, conduct>>
inside == <<maps, snapshot>>
outside == <<use, returning, binder, queue, sent, held>>

Idle == [pc |-> "idle", cmd |-> "none", args |-> <<>>, got |-> <<>>, reply |-> <<>>]
NoMaps == [t \in Tracks |-> [b \in BufferIds |-> Unmapped]]
NoBuffers == [x \in {} |-> Unmapped]
Fresh(memory) ==
  [up |-> TRUE, memory |-> memory, registered |-> FALSE, camera |-> FALSE, sessions |-> {},
   made |-> 0, buffers |-> NoBuffers, running |-> {}, live |-> {}, out |-> {}, image |-> FALSE]
Gone == [Fresh(service.memory) EXCEPT !.up = FALSE]

\* A use: the commands, the number of calls, how much metadata comes with a
\* capture and how many devices with an audio track, and whether the service may
\* die, refuse, and replace its buffers.  The client: recorder_service_ is set, the
\* death notice is linked, the handle is dead, ...
Init ==
  /\ use \in Uses
  /\ client = [service |-> FALSE, linked |-> FALSE, dead |-> FALSE, client_id |-> 0,
               ion |-> FALSE, sessions |-> {}, tracks |-> {}, cbs |-> {},
               imageCb |-> FALSE, metadataCb |-> FALSE, tags |-> FALSE]
  /\ maps = NoMaps /\ snapshot = FALSE
  /\ app = Idle /\ returning = {} /\ binder = {} /\ queue = <<>>
  /\ service = Fresh(0) /\ sent = [t \in VideoTracks |-> {}]
  /\ death = "none" /\ held = {} /\ calls = 0 /\ aborted = FALSE /\ conduct = {}

Note(what) == conduct' = conduct \cup what
When(condition, tag) == IF condition THEN {tag} ELSE {}

-----------------------------------------------------------------------------
(* Mapping.                                                                *)

\* Without a descriptor mmap answers MAP_FAILED, which MapBuffer takes for an
\* address: it compares with nullptr.
MapBuffer(ion_fd) == IF ion_fd = -1 THEN Failed ELSE ion_fd

\* Once a frame had no memory nothing more is asked of the client.
Broken == aborted \/ \E t \in Tracks, b \in BufferIds : maps[t][b] = Failed

\* UnmapBuffer, or RecorderClientIon::Release, of all the buffers of tracks.
Released(ts) == [t \in Tracks |-> IF t \in ts THEN NoMaps[t] ELSE maps[t]]
AnyMapped(ts) == \E t \in ts, b \in BufferIds : maps[t][b] # Unmapped

-----------------------------------------------------------------------------
(* What a call passes.  An argument the client makes nothing of is a name. *)

\* Past the end of its devices the parameter has its sample rate.
AudioParam(format, devices) ==
  [in_devices |-> [i \in 1..devices |-> IF i = 1 THEN "device1"
                                        ELSE IF i <= MaxInDevices THEN "device2" ELSE "rate"],
   sample_rate |-> "rate",
   channels |-> "channels", bit_depth |-> "depth", profile |-> "profile",
   format |-> format, codec_params |-> CodecFields(format),
   out_device |-> "out", flags |-> "flags"]
AudioFormats == {"kPCM", "kAAC", "kAMR", "kG711", "kMPEGH", "kMP3"}
Metas(n, last) == [i \in 1..n |-> IF i < n THEN "first" ELSE last]

Who == [client_id |-> client.client_id]
Cam == With(Who, [camera_id |-> CameraId])
OfSession(s) == With(Who, [session_id |-> s])
OfTrack(s, t) == With(OfSession(s), [track_id |-> t])

\* The calls that leave the client as it is.
PlainCalls ==
  {<<"StopCamera", Cam>>, <<"CancelCaptureImage", Cam>>,
   <<"ConfigImageCapture", With(Cam, [param |-> "param", config |-> "config"])>>,
   <<"SetCameraParam", With(Cam, [meta |-> "last"])>>,
   <<"SetCameraParam", With(Cam, [meta |-> "empty"])>>, <<"GetCameraParam", Cam>>,
   <<"GetDefaultCaptureParam", Cam>>, <<"GetCameraCharacteristics", Cam>>}
PlainSessionCalls ==
  {<<cmd, OfSession(s)>> : cmd \in {"PauseSession", "ResumeSession"}, s \in client.sessions}
PlainTrackCalls ==
  {<<IF x[2] \in VideoTracks THEN "SetVideoTrackParam" ELSE "SetAudioTrackParam",
     With(OfTrack(x[1], x[2]), [type |-> "type", param |-> "param"])>> : x \in client.tracks}

-----------------------------------------------------------------------------
(* The beginning of a call, up to the transaction.                         *)

Begin(cmd) ==
  /\ app.pc = "idle" /\ ~Broken /\ cmd \in use.cmds /\ calls < use.calls
  /\ calls' = calls + 1

\* The parcel goes out; a service that is gone leaves the reply empty.  A parcel
\* without an end keeps the caller packing, with lock_.
Transact(cmd, args, dead) ==
  app' = [pc |-> IF ~Packed(cmd, args) THEN "packing" ELSE IF dead THEN "replied" ELSE "sent",
          cmd |-> cmd, args |-> args, got |-> <<>>, reply |-> <<>>]

\* CheckServiceStatus, assert(client_id_ > 0), and the transaction.
Call(cmd, args) ==
  /\ Begin(cmd) /\ client.service
  /\ aborted' = (client.client_id = 0)
  /\ Transact(cmd, args, client.dead)
  /\ Note(When(client.dead, "dying"))
  /\ UNCHANGED <<outside, service, death>>

\* Slip: linkToDeath is not called.
ConnectUnlinked ==
  /\ Begin("Connect") /\ ~client.service /\ service.up
  /\ client' = [client EXCEPT !.ion = TRUE, !.service = TRUE]
  /\ Transact("Connect", [service_cb |-> "handler"], FALSE)
  /\ UNCHANGED <<outside, inside, service, conduct, death, aborted>>

\* dying: the service goes between getService and linkToDeath, which fails
\* unnoticed.  Without an ION device the call returns, and without a service it
\* returns with the ION device open.
Connect ==
  /\ Begin("Connect") /\ ~client.service
  /\ \/ /\ service.up
        /\ \E dying \in IF use.dies THEN BOOLEAN ELSE {FALSE} :
             /\ client' = [client EXCEPT !.ion = TRUE, !.service = TRUE,
                                         !.linked = ~dying, !.dead = dying]
             /\ service' = IF dying THEN Gone ELSE service
             /\ Note(IF dying THEN {"dying", "unlinked"} ELSE {})
             /\ Transact("Connect", [service_cb |-> "handler"], dying)
     \/ /\ "Connect" \in use.refuses /\ client' = [client EXCEPT !.ion = FALSE]
        /\ UNCHANGED <<app, service, conduct>>
     \/ /\ ~service.up /\ client' = [client EXCEPT !.ion = TRUE]
        /\ UNCHANGED <<app, service, conduct>>
  /\ UNCHANGED <<outside, inside, death, aborted>>

Unfinished == client.tracks # {} \/ service.image \/ ImageOut \in service.out

\* Disconnect asserts nothing.  The application stops its sessions first.
Disconnect ==
  /\ Begin("Disconnect") /\ client.service /\ service.running = {}
  /\ Transact("Disconnect", Who, client.dead)
  /\ Note(When(client.dead, "dying") \cup When(Unfinished, "left"))
  /\ UNCHANGED <<outside, inside, client, service, death, aborted>>

StartCamera ==
  \E result_cb \in BOOLEAN :
    /\ Call("StartCamera",
            With(Cam, [frame_rate |-> "rate", enable_result_cb |-> result_cb,
                       extra_param |-> "extra"]))
    /\ client' = [client EXCEPT !.metadataCb = @ \/ result_cb]
    /\ UNCHANGED inside

CreateSession ==
  /\ service.made < Cardinality(SessionIds)
  /\ Call("CreateSession", Who) /\ UNCHANGED <<client, inside>>

DeleteSession ==
  \E s \in client.sessions :
    /\ {x \in client.tracks : x[1] = s} = {} /\ s \notin service.running
    /\ Call("DeleteSession", OfSession(s)) /\ UNCHANGED <<client, inside>>

\* The audio buffers of before are released, even if the session is running.
StartSession ==
  \E s \in client.sessions :
    /\ Begin("StartSession") /\ client.service
    /\ aborted' = (client.client_id = 0)
    /\ Transact("StartSession", OfSession(s), client.dead)
    /\ maps' = Released({t \in AudioTracks : <<s, t>> \in client.tracks})
    /\ Note(When(client.dead, "dying") \cup When(s \in service.running, "again"))
    /\ UNCHANGED <<outside, service, death, client, snapshot>>

StopSession ==
  \E s \in client.sessions, do_flush \in BOOLEAN :
    /\ Call("StopSession", With(OfSession(s), [do_flush |-> do_flush]))
    /\ UNCHANGED <<client, inside>>

CreateTrack ==
  \E s \in client.sessions, t \in Tracks :
    /\ <<s, t>> \notin client.tracks
    /\ IF t \in AudioTracks
       THEN \E f \in AudioFormats, n \in use.devices :
              Call("CreateAudioTrack", With(OfTrack(s, t), [param |-> AudioParam(f, n)]))
       ELSE \/ Call("CreateVideoTrack", With(OfTrack(s, t), [param |-> "param"]))
            \/ Call("CreateVideoTrackExtra",
                    With(OfTrack(s, t), [param |-> "param", extra_param |-> "extra"]))
    /\ UNCHANGED <<client, inside>>

\* The buffers are unmapped before the service is asked.  The application
\* deletes the tracks of stopped sessions.
DeleteTrack ==
  \E x \in client.tracks :
    /\ x[1] \notin service.running
    /\ Call(IF x[2] \in VideoTracks THEN "DeleteVideoTrack" ELSE "DeleteAudioTrack",
            OfTrack(x[1], x[2]))
    /\ maps' = Released({x[2]})
    /\ UNCHANGED <<client, snapshot>>

CaptureImage ==
  \E n \in use.metas, last \in {"last", "empty"} :
    /\ Call("CaptureImage", With(Cam, [num_images |-> 1, meta |-> Metas(n, last)]))
    /\ UNCHANGED <<client, inside>>

PlainCall ==
  \E c \in PlainCalls \cup PlainSessionCalls \cup PlainTrackCalls :
    Call(c[1], c[2]) /\ UNCHANGED <<client, inside>>

\* What Recorder, the interface of the library, passes on to its client.
ConnectionCalls == Connect \/ Disconnect \/ StartCamera
SessionCalls == CreateSession \/ DeleteSession \/ StartSession \/ StopSession
TrackCalls == CreateTrack \/ DeleteTrack
CameraCalls == CaptureImage \/ PlainCall

-----------------------------------------------------------------------------
(* The service.  It acts on what it reads in the parcel.                   *)

Answer(got, status, value) ==
  app' = [app EXCEPT !.pc = "replied", !.got = got, !.reply = <<status, value>>]

\* What a command got makes of the service.  The recorder goes with its last
\* client; the sessions' numbers start again when there are none.
ServeConnection(cmd) ==
  IF cmd = "Connect" THEN [service EXCEPT !.registered = TRUE] ELSE Fresh(service.memory)

ServeSession(cmd, got) ==
  CASE cmd = "CreateSession" ->
         [service EXCEPT !.made = @ + 1, !.sessions = @ \cup {service.made + 1}]
    [] cmd = "DeleteSession" ->
         [service EXCEPT !.sessions = @ \ {got.session_id},
                         !.made = IF service.sessions \ {got.session_id} = {} THEN 0 ELSE @]
    [] cmd = "StartSession" /\ got.session_id \notin service.running ->
         [service EXCEPT !.running = @ \cup {got.session_id},
                         !.live = @ \cup {x \in DOMAIN service.buffers : x[1] = got.session_id}]
    [] cmd = "StopSession" ->
         [service EXCEPT !.running = @ \ {got.session_id},
                         !.live = {x \in @ : x[1] # got.session_id}]
    [] OTHER -> service

\* A new track has one buffer: the first id that is free, and new memory.
FreeIds == BufferIds \ {service.buffers[x].id : x \in DOMAIN service.buffers}
ServeTrack(cmd, got) ==
  LET x == <<got.session_id, got.track_id>> IN
  CASE cmd \in {"CreateAudioTrack", "CreateVideoTrack", "CreateVideoTrackExtra"} ->
         [service EXCEPT !.memory = @ + 1,
            !.buffers = (x :> [id |-> CHOOSE i \in FreeIds : \A j \in FreeIds : i <= j,
                               mem |-> service.memory + 1]) @@ @]
    [] cmd \in {"DeleteAudioTrack", "DeleteVideoTrack"} ->
         [service EXCEPT !.buffers = [y \in DOMAIN @ \ {x} |-> @[y]]]
    [] OTHER -> service

ServeCamera(cmd) == [service EXCEPT !.camera = (cmd = "StartCamera")]

ServeImage(cmd) ==
  CASE cmd = "CaptureImage" -> [service EXCEPT !.image = TRUE]
    [] cmd = "CancelCaptureImage" -> [service EXCEPT !.image = FALSE]
    [] OTHER -> service

Served(cmd, got) ==
  CASE cmd \in {"Connect", "Disconnect"} -> ServeConnection(cmd)
    [] cmd \in {"StartCamera", "StopCamera"} -> ServeCamera(cmd)
    [] cmd \in TrackCommands -> ServeTrack(cmd, got)
    [] cmd \in ImageCommands -> ServeImage(cmd)
    [] cmd \in SessionCommands \cup {"CreateSession"} -> ServeSession(cmd, got)
    [] OTHER -> service

\* Without a recorder the service answers NO_INIT; the camera's commands need
\* the camera.
Accepts(cmd) ==
  /\ cmd # "Connect" => service.registered
  /\ cmd \in (ImageCommands \cup ParamCommands) \ {"GetVendorTagDescriptor"} => service.camera

\* Slip: the proxy is not told that the track is deleted.
KeepsSent(cmd, got) == IF cmd = "Disconnect" THEN [t \in VideoTracks |-> {}] ELSE sent

\* NotifyDeleteVideoTrack, once the track is deleted; the proxy itself goes
\* with the connection.
Forgotten(cmd, got) ==
  CASE cmd = "Disconnect" -> [t \in VideoTracks |-> {}]
    [] cmd = "DeleteVideoTrack" -> [sent EXCEPT ![got.track_id] = {}]
    [] OTHER -> sent

Creates(cmd) == cmd \in {"CreateAudioTrack", "CreateVideoTrack", "CreateVideoTrackExtra"}
Shares(cmd, got) ==
  Creates(cmd) /\ \E x \in DOMAIN service.buffers :
                    x[2] = got.track_id /\ x[1] # got.session_id

\* StopSession waits for the frames that are out.
Serve ==
  /\ app.pc = "sent" /\ service.up
  /\ LET cmd == app.cmd  got == Read(cmd, Write(cmd, app.args)) IN
     /\ ~Unread(cmd, got)
     /\ cmd = "StopSession" => \A x \in service.out : x[1] # got.session_id
     /\ Creates(cmd) => service.memory < MaxMemory
     /\ IF Accepts(cmd)
        THEN /\ Answer(got, 0, IF cmd = "CreateSession" THEN service.made + 1 ELSE 1)
             /\ service' = Served(cmd, got) /\ sent' = Forgotten(cmd, got)
             /\ Note(When(Shares(cmd, got), "shared"))
        ELSE Answer(got, -1, 0) /\ UNCHANGED <<service, sent, conduct>>
  /\ UNCHANGED <<use, client, inside, returning, binder, queue, death, held, calls,
                 aborted>>

\* onTransact drops a command whose metadata is empty, or cannot be read: nothing
\* is called, and the status the client reads is NO_ERROR.
Dropped == [dropped |-> TRUE]
DropUnread ==
  /\ app.pc = "sent" /\ service.up
  /\ LET got == Read(app.cmd, Write(app.cmd, app.args)) IN
     Unread(app.cmd, got) \/ (Metadata(app.cmd, got) # {} /\ app.cmd \in use.refuses)
  /\ Answer(Dropped, 0, 0)
  /\ UNCHANGED <<use, client, inside, returning, binder, queue, service, sent, death,
                 held, calls, aborted, conduct>>

\* The service says no, and leaves all as it is.  The value of the reply is
\* whatever stood in its variable.
Refuse ==
  /\ app.pc = "sent" /\ service.up /\ app.cmd \in use.refuses
  /\ \E junk \in 0..1 : Answer(Read(app.cmd, Write(app.cmd, app.args)), -1, junk)
  /\ Note({"refused"})
  /\ UNCHANGED <<use, client, inside, returning, binder, queue, service, sent, death,
                 held, calls, aborted>>

-----------------------------------------------------------------------------
(* The end of a call: what the client does with the reply.                 *)

\* Slip: the connection's id goes, recorder_service_ stays.
KeepsService(c) ==
  [c EXCEPT !.linked = FALSE, !.dead = FALSE, !.client_id = 0, !.ion = FALSE, !.sessions = {},
            !.tracks = {}, !.cbs = {}]

Disconnected(c) ==
  [c EXCEPT !.service = FALSE, !.linked = FALSE, !.dead = FALSE, !.client_id = 0,
            !.ion = FALSE, !.sessions = {}, !.tracks = {}, !.cbs = {}]

\* Slip: the session's tracks are kept when one is deleted.
KeepsTrack(add, x) ==
  IF add THEN [client EXCEPT !.tracks = @ \cup {x}, !.cbs = @ \cup {x}]
  ELSE [client EXCEPT !.cbs = @ \ {x}]

\* UpdateSessionTopology, and the track's callbacks.
UpdateSessionTopology(add, x) ==
  IF add THEN [client EXCEPT !.tracks = @ \cup {x}, !.cbs = @ \cup {x}]
  ELSE [client EXCEPT !.tracks = @ \ {x}, !.cbs = @ \ {x}]

\* A call to a service that is gone looks served; the session's id is then
\* whatever the application's variable held.
Replied ==
  LET ok == ReadStatus(app.reply, 1) = 0
      a == app.args
      x == IF "track_id" \in DOMAIN a THEN <<a.session_id, a.track_id>> ELSE <<0, 0>> IN
  CASE app.cmd = "Connect" ->
         {[client EXCEPT !.client_id = ReadStatus(app.reply, 2), !.cbs = {}]}
    [] app.cmd = "Disconnect" -> {[Disconnected(client) EXCEPT !.tags = FALSE]}
    [] app.cmd = "CreateSession" ->
         IF ok THEN {[client EXCEPT !.sessions = @ \cup {s}] :
                       s \in IF app.reply = <<>> THEN SessionIds ELSE {app.reply[2]}}
         ELSE {client}
    [] app.cmd = "DeleteSession" ->
         {[client EXCEPT !.sessions = @ \ {a.session_id}]}
    [] Creates(app.cmd) -> {IF ok THEN UpdateSessionTopology(TRUE, x) ELSE client}
    [] app.cmd \in {"DeleteAudioTrack", "DeleteVideoTrack"} ->
         {IF ok THEN UpdateSessionTopology(FALSE, x) ELSE client}
    [] app.cmd = "CaptureImage" -> {[client EXCEPT !.imageCb = TRUE]}
    [] OTHER -> {client}

\* The first StartCamera that is served asks for the vendor tags at once,
\* still under lock_; the client keeps its descriptor even if it is refused.
AsksForTags == app.cmd = "StartCamera" /\ ReadStatus(app.reply, 1) = 0 /\ ~client.tags

\* A notice of death that is on its way stays after unlinkToDeath.
End ==
  /\ app.pc = "replied"
  /\ IF AsksForTags
     THEN /\ client' = [client EXCEPT !.tags = TRUE]
          /\ Transact("GetVendorTagDescriptor", <<>>, client.dead)
     ELSE client' \in Replied /\ app' = Idle
  /\ Note(When(app.cmd = "Disconnect" /\ returning # {}, "raced"))
  /\ UNCHANGED <<use, inside, returning, binder, queue, service, sent, death, held,
                 calls, aborted>>

-----------------------------------------------------------------------------
(* The frames and the events of the service.                               *)

MetaFd == 7
Buffer(t, id, mem) ==
  [ion_fd |-> mem, ion_meta_fd |-> IF t \in VideoTracks THEN MetaFd ELSE -1,
   size |-> 4, buffer_id |-> id, flag |-> 0]

Room == ~Broken /\ service.up /\ Len(queue) < MaxQueue

Send(m, isMapped) ==
  queue' = Append(queue, [m |-> m, parcel |-> WriteCallback(m, isMapped), mapped |-> isMapped])

\* BpRecorderServiceCallback::NotifyVideoTrackData sends what it has sent
\* before as an index.
SendVideo ==
  \E x \in service.live \ service.out :
    LET t == x[2]  id == service.buffers[x].id IN
    /\ Room /\ t \in VideoTracks
    /\ Send([call |-> "VideoTrackData", session_id |-> x[1], track_id |-> t,
             buffers |-> <<Buffer(t, id, service.buffers[x].mem)>>, metas |-> <<"meta">>],
            <<id \in sent[t]>>)
    /\ sent' = [sent EXCEPT ![t] = @ \cup {id}]
    /\ service' = [service EXCEPT !.out = @ \cup {x}]
    /\ UNCHANGED <<use, client, inside, app, returning, binder, death, held, calls,
                   aborted, conduct>>

SendAudio ==
  \E x \in service.live \ service.out :
    LET t == x[2] IN
    /\ Room /\ t \in AudioTracks
    /\ Send([call |-> "AudioTrackData", session_id |-> x[1], track_id |-> t,
             buffers |-> <<Buffer(t, service.buffers[x].id, service.buffers[x].mem)>>,
             metas |-> <<>>], <<>>)
    /\ service' = [service EXCEPT !.out = @ \cup {x}]
    /\ UNCHANGED <<use, client, inside, app, returning, binder, sent, death, held,
                   calls, aborted, conduct>>

SendImage ==
  /\ Room /\ service.image /\ ImageOut \notin service.out
  /\ Send([call |-> "SnapshotData", camera_id |-> CameraId, count |-> 0,
           buffer |-> [Buffer(0, 1, ImageFd) EXCEPT !.ion_meta_fd = MetaFd], meta |-> "meta"],
          <<>>)
  /\ service' = [service EXCEPT !.image = FALSE, !.out = @ \cup {ImageOut}]
  /\ UNCHANGED <<use, client, inside, app, returning, binder, sent, death, held,
                 calls, aborted, conduct>>

Notices ==
  {[call |-> "RecorderEvent", event_type |-> "kCameraError", data |-> "none"],
   [call |-> "RecorderEvent", event_type |-> "kCameraError", data |-> "error"],
   [call |-> "AudioTrackEvent", session_id |-> 1, track_id |-> 100, event_type |-> "kEOSRendered"],
   [call |-> "CameraResult", camera_id |-> CameraId, result |-> "metadata"]}

SendNotice ==
  /\ Room /\ use.notices /\ service.registered
  /\ \E m \in Notices : Send(m, <<>>)
  /\ UNCHANGED <<use, client, inside, app, returning, binder, service, sent, death,
                 held, calls, aborted, conduct>>

\* The camera's memory is replaced: every buffer has other memory, and the
\* proxy has sent none of it.
SendRemap ==
  /\ Room /\ "remapped" \notin conduct /\ use.remap
  /\ DOMAIN service.buffers # {}
  /\ Send([call |-> "RecorderEvent", event_type |-> "kCameraError",
           data |-> "REMAP_ALL_BUFFERS"], <<>>)
  /\ service' = [service EXCEPT !.memory = MaxMemory,
       !.buffers = [x \in DOMAIN @ |-> [id |-> @[x].id, mem |-> MaxMemory + @[x].id]]]
  /\ sent' = [t \in VideoTracks |-> {}]
  /\ Note({"remapped"})
  /\ UNCHANGED <<use, client, inside, app, returning, binder, death, held, calls,
                 aborted>>

-----------------------------------------------------------------------------
(* The binder thread of the client.  It takes no lock_.                    *)

First == Head(queue)
Message == ReadCallback(First.m.call, First.parcel)
Take(call) == binder = {} /\ ~Broken /\ queue # <<>> /\ First.m.call = call /\ queue' = Tail(queue)
HasCb(m) == <<m.session_id, m.track_id>> \in client.cbs

\* A frame the application gets: where it looks, and where the picture is.
Frame(m, addr, mem) ==
  [session_id |-> m.session_id, track_id |-> m.track_id,
   buffer_id |-> m.buffers[1].buffer_id, addr |-> addr, mem |-> mem]

\* MapBuffer asserts that the ION device is open.  addr is what the map has,
\* or what is mapped now.
NotifyVideoTrackData ==
  /\ Take("VideoTrackData")
  /\ LET m == Message  b == m.buffers[1]  known == maps[m.track_id][b.buffer_id] IN
     /\ binder' = {[m |-> m, addr |-> IF known # Unmapped THEN known ELSE MapBuffer(b.ion_fd),
                    mem |-> First.m.buffers[1].ion_fd, known |-> known # Unmapped]}
     /\ aborted' = (known = Unmapped /\ ~client.ion)
     /\ Note(When(~client.ion, "late"))
  /\ UNCHANGED <<use, client, inside, app, returning, service, sent, death, held,
                 calls>>

\* The new entry does not replace one that came meanwhile; then the track's
\* callback.
DeliverVideo ==
  \E r \in binder :
    LET t == r.m.track_id  id == r.m.buffers[1].buffer_id IN
    /\ ~Broken /\ binder' = {}
    /\ maps' = IF r.known \/ maps[t][id] # Unmapped THEN maps ELSE [maps EXCEPT ![t][id] = r.addr]
    /\ held' = IF HasCb(r.m) THEN held \cup {Frame(r.m, r.addr, r.mem)} ELSE held
    /\ UNCHANGED <<use, client, snapshot, app, returning, queue, service, sent, death,
                   calls, aborted, conduct>>

\* RecorderClientIon::Associate: a buffer that is known keeps its memory.
Associate(t, b) == IF maps[t][b.buffer_id] # Unmapped THEN maps[t][b.buffer_id] ELSE b.ion_fd

NotifyAudioTrackData ==
  /\ Take("AudioTrackData")
  /\ LET m == Message  addr == Associate(m.track_id, m.buffers[1]) IN
     /\ maps' = [maps EXCEPT ![m.track_id][m.buffers[1].buffer_id] = addr]
     /\ held' = IF HasCb(m) THEN held \cup {Frame(m, addr, First.m.buffers[1].ion_fd)} ELSE held
  /\ UNCHANGED <<use, client, snapshot, app, returning, binder, service, sent, death,
                 calls, aborted, conduct>>

\* image_capture_cb_ is set when CaptureImage returns.
NotifySnapshotData ==
  /\ Take("SnapshotData")
  /\ aborted' = (~client.imageCb \/ Message.buffer.ion_fd < 1 \/ ~client.ion)
  /\ snapshot' = ~aborted'
  /\ held' = IF aborted' THEN held
             ELSE held \cup {[session_id |-> 0, track_id |-> 0,
                              buffer_id |-> Message.buffer.buffer_id,
                              addr |-> Message.buffer.ion_fd, mem |-> ImageFd]}
  /\ Note(When(~client.imageCb, "early") \cup When(~client.ion, "late"))
  /\ UNCHANGED <<use, client, maps, app, returning, binder, service, sent, death,
                 calls>>

\* On REMAP_ALL_BUFFERS the tracks are erased from the map that is being
\* walked, which may go wrong.  The other events are passed on.
NotifyRecorderEvent ==
  /\ Take("RecorderEvent")
  /\ IF Message.data = "REMAP_ALL_BUFFERS"
     THEN /\ maps' = Released(VideoTracks)
          /\ aborted' \in IF AnyMapped(VideoTracks) THEN BOOLEAN ELSE {FALSE}
     ELSE UNCHANGED <<maps, aborted>>
  /\ UNCHANGED <<use, client, snapshot, app, returning, binder, service, sent, death,
                 held, calls, conduct>>

\* NotifyAudioTrackEvent and NotifyCameraResult: the application's callback,
\* if there is one.
NotifyOther ==
  /\ Take("AudioTrackEvent") \/ Take("CameraResult")
  /\ UNCHANGED <<use, client, inside, app, returning, binder, service, sent, death,
                 held, calls, aborted, conduct>>

-----------------------------------------------------------------------------
(* The application's other thread returns frames, without lock_.           *)

ReturnArgs(h) ==
  IF h.track_id = 0 THEN With(Cam, [buffer_id |-> h.buffer_id])
  ELSE With(OfTrack(h.session_id, h.track_id),
            [buffers |-> <<[ion_fd |-> h.buffer_id, ion_meta_fd |-> -1, size |-> 4,
                            buffer_id |-> h.buffer_id, flag |-> 0]>>])
ReturnCommand(h) == IF h.track_id = 0 THEN "ReturnImageCaptureBuffer" ELSE "ReturnTrackBuffer"

\* CheckServiceStatus; an image is unmapped first.
BeginReturn ==
  \E h \in held :
    /\ ~Broken /\ returning = {} /\ client.service
    /\ h.track_id = 0 => snapshot
    /\ snapshot' = IF h.track_id = 0 THEN FALSE ELSE snapshot
    /\ returning' = {h} /\ held' = held \ {h}
    /\ UNCHANGED <<use, client, maps, app, binder, queue, service, sent, death, calls,
                   aborted, conduct>>

\* assert(client_id_ > 0), and recorder_service_ is used as it is by now.
SendReturn ==
  \E h \in returning :
    LET got == Read(ReturnCommand(h), Write(ReturnCommand(h), ReturnArgs(h))) IN
    /\ ~Broken /\ returning' = {}
    /\ aborted' = (client.client_id = 0 \/ ~client.service)
    /\ service' = IF client.dead THEN service
                  ELSE [service EXCEPT !.out = @ \ {IF h.track_id = 0 THEN ImageOut
                                                    ELSE <<got.session_id, got.track_id>>}]
    /\ UNCHANGED <<use, client, inside, app, binder, queue, sent, death, held, calls,
                   conduct>>

-----------------------------------------------------------------------------
(* The death of the service.                                               *)

ServiceDies ==
  /\ service.up /\ use.dies /\ ~Broken
  /\ service' = Gone /\ sent' = [t \in VideoTracks |-> {}]
  /\ client' = [client EXCEPT !.dead = client.service]
  /\ death' = IF client.linked THEN "due" ELSE death
  /\ app' = IF app.pc = "sent" THEN [app EXCEPT !.pc = "replied"] ELSE app
  /\ Note(When(app.pc = "sent", "dying"))
  /\ UNCHANGED <<use, inside, returning, binder, queue, held, calls, aborted>>

Restart ==
  /\ ~service.up
  /\ service' = Fresh(service.memory)
  /\ UNCHANGED <<use, client, inside, app, returning, binder, queue, sent, death,
                 held, calls, aborted, conduct>>

\* It unmaps the video buffers, not the audio ones, and waits for lock_.  The
\* application gives up its frames when it is told.
ServiceDeathHandler ==
  /\ death = "due" /\ app.pc = "idle" /\ ~Broken
  /\ death' = "none"
  /\ maps' = Released(VideoTracks) /\ snapshot' = FALSE
  /\ aborted' = ~client.service
  /\ client' = [Disconnected(client) EXCEPT !.imageCb = FALSE, !.metadataCb = FALSE]
  /\ held' = {}
  /\ Note(When(~client.service \/ ~client.dead \/ binder # {} \/ queue # <<>>, "late")
            \cup When(AnyMapped(AudioTracks), "left") \cup When(returning # {}, "raced"))
  /\ UNCHANGED <<use, app, returning, binder, queue, service, sent, calls>>

-----------------------------------------------------------------------------

Next ==
  \/ ConnectionCalls \/ SessionCalls \/ TrackCalls \/ CameraCalls
  \/ Serve \/ DropUnread \/ Refuse \/ End
  \/ SendVideo \/ SendAudio \/ SendImage \/ SendNotice \/ SendRemap
  \/ NotifyVideoTrackData \/ DeliverVideo \/ NotifyAudioTrackData \/ NotifySnapshotData
  \/ NotifyRecorderEvent \/ NotifyOther
  \/ BeginReturn \/ SendReturn
  \/ ServiceDies \/ Restart \/ ServiceDeathHandler

\* A call ends once it is answered, and binder tells of a death.
Fairness == WF_vars(End) /\ WF_vars(ServiceDeathHandler)

Spec == Init /\ [][Next]_vars /\ Fairness

-----------------------------------------------------------------------------
(* Properties.                                                             *)

\* What each side reads is what the other wrote: the commands that
\* BpRecorderService packs and onTransact unpacks, the frames on their way
\* back, and the callbacks of BpRecorderServiceCallback, but that a frame
\* whose buffer was sent before comes without descriptors.  Two commands are
\* not: one whose metadata is empty or unreadable is dropped, and the devices of
\* an audio track beyond the size of the array are taken for what follows them.
ParcelsReadAsWritten ==
  /\ app.got # <<>> =>
       \/ app.got = app.args
       \/ /\ app.got = Dropped
          /\ Unread(app.cmd, app.args)
               \/ (app.cmd \in {"CaptureImage", "SetCameraParam"} /\ app.cmd \in use.refuses)
       \/ app.cmd = "CreateAudioTrack" /\ Len(app.args.param.in_devices) > MaxInDevices
  /\ \A h \in returning : Read(ReturnCommand(h), Write(ReturnCommand(h), ReturnArgs(h)))
                            = ReturnArgs(h)
  /\ \A i \in DOMAIN queue :
       LET q == queue[i] IN
       ReadCallback(q.m.call, q.parcel)
         = IF q.mapped = <<TRUE>>
           THEN [q.m EXCEPT !.buffers[1].ion_fd = -1, !.buffers[1].ion_meta_fd = -1] ELSE q.m

\* A frame the application holds is mapped, and is the memory the service
\* filled: the index that NotifyVideoTrackData finds in the client's map
\* leads to the right buffer, though ids are used again.  Excepted are two
\* sessions with the same track id, tracks there when the client
\* disconnected, deletions the service refused, buffers replaced, and a
\* running session started again, which unmaps its audio.
HeldFramesMapped ==
  \/ conduct \cap {"shared", "left", "refused", "remapped", "late", "dying", "again"} # {}
  \/ \A h \in held :
       /\ h.addr = h.mem
       /\ IF h.track_id = 0 THEN snapshot ELSE maps[h.track_id][h.buffer_id] = h.addr

\* Between calls the client's sessions and tracks are the service's, and
\* every track has its callback: the lists that DeleteSession and
\* ReturnTrackBuffer rely on (sessions_, track_cb_list_).
ListsAgree ==
  (app.pc = "idle" /\ client.service /\ ~client.dead
     /\ conduct \cap {"refused", "dying", "late"} = {})
  => /\ client.sessions = service.sessions
     /\ client.tracks = DOMAIN service.buffers
     /\ client.cbs = client.tracks

\* The client's assertions hold (client_id_ > 0, ion_device_ > 0,
\* image_capture_cb_ != nullptr) and it uses no null service, but for
\* callbacks or a death notice after Disconnect, an image left behind or come
\* before CaptureImage returned, a frame returned while the connection goes, a service gone or
\* refusing in Connect, and REMAP_ALL_BUFFERS.
ClientAssertionsHold ==
  aborted => conduct \cap {"left", "late", "early", "raced", "dying", "refused", "remapped"} # {}

\* A client whose service died is rid of it in the end: Connect links to the
\* death before it is connected, a call under way, even StopSession that waits for
\* frames, ends when the service goes, so that ServiceDeathHandler gets lock_; or
\* the application disconnects.  Excepted are a service gone before linkToDeath,
\* and CaptureImage with more than 255 metadata, which never gives lock_ back.
DeathIsTold ==
  (client.dead /\ "unlinked" \notin conduct) ~> (~client.dead \/ Broken \/ app.pc = "packing")
=============================================================================
