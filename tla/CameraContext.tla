---------------------------- MODULE CameraContext ----------------------------
(***************************************************************************)
(* A camera: CameraContext with its ports (recorder/src/service/           *)
(* qmmf_camera_context.cc) on top of Camera3DeviceClient (common/          *)
(* cameraadaptor/qmmf_camera3_device_client.cc), whose request handler,    *)
(* streams and monitor are reduced to what their own modules show.         *)
(*                                                                         *)
(* The client that owns the camera has one call in the service at a time   *)
(* (RecorderClient::lock_).  The call is an agenda of steps; a step is     *)
(* what happens between two waits.  Concurrent with it: the request        *)
(* handler, the HAL's buffers and results, and the monitor's reports.      *)
(***************************************************************************)
EXTENDS Integers, Sequences, SequencesExt, FiniteSets

CONSTANTS Tracks,      \* track ids
          Zsl,         \* zsl_port_id_, above every track id
          Scenarios,   \* what the client uses: its tracks, modes, image sizes
                       \* and bursts, the faults of the HAL, and a bound on
                       \* its calls
          Depth,       \* zsl_queue_depth_
          MaxFrame,    \* bound: largest frame number
          MaxOut       \* bound: buffers out at a time

Modes == {"kNone", "kVideo", "kStill", "kContinuous", "kStillPlusRaw", "kZsl"}

ASSUME ContextAssumption ==
  /\ Tracks \subseteq Nat /\ Zsl \in Nat /\ \A t \in Tracks : t < Zsl
  /\ \A c \in Scenarios : /\ c.tracks \subseteq Tracks /\ c.modes \subseteq Modes
                          /\ c.sizes \cup c.images \cup {c.calls} \subseteq Nat \ {0}
                          /\ c.faults \subseteq {"refuse", "error"}
  /\ {Depth, MaxFrame, MaxOut} \subseteq Nat \ {0}

VARIABLES
  dev,      \* Camera3DeviceClient: state_, reconfig_, streams_, next_stream_id_,
            \* input_stream_, next_request_id_ (1 stands for every positive id)
  rh,       \* its request handler: toggle_pause_state_, requests_ and
            \* streaming_requests_ (their stream ids), current_frame_number_,
            \* streaming_last_frame_number_, and ~paused_state_ (feeding)
  out,      \* buffers out of their pool: stream, frame, and where: "hal",
            \* "zsl" (in the ZSL queue), "picked" (zsl_input_buffer_), "input"
            \* (zsl_input_buffer_, with the HAL), "client"
  checks,   \* buffers back, and frames failed (stream -1), that
            \* CameraContext has yet to look at
  reports,  \* the monitor's reports to come: TRUE, active
  ports,    \* active_ports_: stream, port_state_ and ready_to_start_
  req,      \* streaming_active_requests_ (has an entry; its streamIds), the ids
            \* of the streaming and the capture request, stopped_stream_ids_,
            \* port_paused_
  pend,     \* removed_stream_ids_, last_frame_number_map_, last_frame_number_
  img,      \* snapshot_request_.streamIds, snapshot_type_, snapshot_param_,
            \* snapshot_stream_param_, continuous_mode_is_on, cancel_capture_
  zsl,      \* the ZslPort: zsl_running_, zsl_queue_ (frame numbers)
  scenario, \* of the client
  agenda,   \* the steps its call has yet to take
  seen,     \* the state the call waits for was reported
  asked,    \* what the client last asked of each track
  calls,    \* calls made
  aborted,  \* the assertion that failed, or "no"
  conduct   \* history: see the properties

flow == <<out, checks, reports>>
client == <<scenario, asked, calls, conduct>>
vars == <<dev, rh, flow, ports, req, pend, img, zsl, client, agenda, seen, aborted>>

NewDevice == [state |-> "CLOSED", reconfig |-> TRUE, streams |-> {}, next |-> 0,
              input |-> -1, id |-> 0]
NewHandler == [paused |-> FALSE, queue |-> <<>>, repeating |-> {}, frame |-> 0,
               last |-> -1, feeding |-> FALSE]
NewRequest == [has |-> FALSE, active |-> {}, streaming |-> -1, capture |-> -1,
               stopped |-> {}, paused |-> FALSE]
NewPending == [removed |-> {}, map |-> <<>>, frame |-> -1]
NewImage == [streams |-> <<>>, type |-> "kVideo", new |-> "kVideo", param |-> 0,
             stream_param |-> 0, continuous |-> FALSE, cancel |-> FALSE]
NewZsl == [running |-> FALSE, queue |-> <<>>]

Init ==
  /\ dev = NewDevice /\ rh = NewHandler /\ req = NewRequest /\ pend = NewPending
  /\ img = NewImage /\ zsl = NewZsl
  /\ out = {} /\ checks = {} /\ reports = <<>> /\ ports = <<>>
  /\ agenda = <<>> /\ seen = FALSE
  /\ scenario \in Scenarios
  /\ asked = [t \in Tracks |-> "none"] /\ calls = 0 /\ aborted = "no" /\ conduct = {}

-----------------------------------------------------------------------------
(* Steps of a call.                                                        *)

Do(op) == <<[op |-> op]>>
Top == Head(agenda)
At(op) == aborted = "no" /\ agenda # <<>> /\ Top.op = op
Then(steps) == agenda' = steps \o Tail(agenda)
InCall(op) == \E i \in DOMAIN agenda : agenda[i].op = op

\* A failed assertion ends the service.
Abort(why) ==
  /\ aborted' = why
  /\ UNCHANGED <<dev, rh, flow, ports, req, pend, img, zsl, client, agenda, seen>>

\* An error ends the call; ConfigImageCapture asserts that StartZSL has none.
Failed ==
  IF InCall("zslStarted")
  THEN aborted' = "StartZSL" /\ UNCHANGED <<agenda, conduct>>
  ELSE agenda' = <<>> /\ conduct' = conduct \cup {"failed"} /\ UNCHANGED aborted

Unless(b, tag) == IF b THEN {tag} ELSE {}
StreamOf(T) == {ports[t].stream : t \in T}
PortsIn(s) == {t \in DOMAIN ports : ports[t].state = s}
Images == Range(img.streams)
ZslPresent == img.type = "kZsl" /\ Zsl \in DOMAIN ports
others == <<scenario, asked, calls>>

-----------------------------------------------------------------------------
(* Camera3DeviceClient.                                                    *)

Active == rh.feeding \/ out # {}

\* The monitor reports every change of the composite state.
Report == reports' = IF Active' = Active THEN reports ELSE Append(reports, Active')

\* What a configuration may come to: success, and the device after it.
ConfigureStreamsLocked(d) ==
  IF d.state \notin {"NOT_CONFIGURED", "CONFIGURED"} THEN {<<FALSE, d>>}
  ELSE IF ~d.reconfig THEN {<<TRUE, d>>}
  ELSE {<<TRUE, [d EXCEPT !.reconfig = FALSE, !.state = "CONFIGURED"]>>}
       \cup (IF "refuse" \in scenario.faults
             THEN {<<FALSE, [d EXCEPT !.state = "NOT_CONFIGURED"]>>, <<FALSE, d>>}
             ELSE {})

\* NotifyStatus, and what WaitUntilStateThenRelock sees of it.  It takes lock_,
\* which a stream's creation or deletion holds.
NotifyStatus ==
  /\ aborted = "no" /\ reports # <<>> /\ ~At("add") /\ ~At("drop")
  /\ reports' = Tail(reports)
  /\ LET s == IF Head(reports) THEN "RUNNING" ELSE "CONFIGURED"
         known == dev.state \in {"RUNNING", "CONFIGURED"}
     IN /\ dev' = IF known THEN [dev EXCEPT !.state = s] ELSE dev
        /\ seen' = \/ seen
                    \/ /\ known /\ agenda # <<>>
                       /\ Top.op = IF Head(reports) THEN "awaitRunning" ELSE "awaitIdle"
  /\ UNCHANGED <<rh, out, checks, ports, req, pend, img, zsl, client, agenda, aborted>>

\* The wait ends at once in the awaited state, and else when it is reported.
WaitUntilStateThenRelock ==
  /\ \/ At("awaitIdle") /\ (seen \/ dev.state # "RUNNING")
     \/ At("awaitRunning") /\ (seen \/ dev.state = "RUNNING")
  /\ Then(<<>>) /\ seen' = FALSE
  /\ UNCHANGED <<dev, rh, flow, ports, req, pend, img, zsl, client, aborted>>

\* SnapshotCaptureCallback takes capture_lock_, which ConfigImageCapture holds
\* while it starts or stops ZSL; an image of the client comes back by a call.
Held(b) == \/ b.at \notin {"hal", "input"}
           \/ b.s \in Images /\ InCall("zslMode")

\* The device cannot become idle: it is fed, or every buffer out stays out.
NeverIdle ==
  /\ reports = <<>> /\ dev.state = "RUNNING" /\ ~seen
  /\ IF rh.feeding THEN ~rh.paused /\ rh.repeating # {}
     ELSE \A b \in out : Held(b)

\* The wait for the idle state times out.  That for the running state would
\* only with the handler paused, which no call that submits leaves it.
WaitUntilIdleTimesOut ==
  /\ At("awaitIdle") /\ NeverIdle
  /\ IF Top.error = "assert" THEN Abort("WaitUntilIdle")
     ELSE /\ dev' = [dev EXCEPT !.state = "ERROR"]
          /\ rh' = [rh EXCEPT !.paused = TRUE]
          /\ Failed
          /\ UNCHANGED <<flow, ports, req, pend, img, zsl, others, seen>>

AwaitIdle(error) == <<[op |-> "awaitIdle", error |-> error]>>
AwaitRunning(locked) == <<[op |-> "awaitRunning", locked |-> locked]>>

\* CreateStream and CreateInputStream, inside CreateDeviceStream: ZSL is
\* flushed and a running device paused first.
Create(what, t, cache) ==
  <<[op |-> "create", what |-> what, t |-> t, cache |-> cache, active |-> FALSE, id |-> 0]>>

CreateStream ==
  /\ At("create")
  /\ LET flushes == ZslPresent /\ zsl.running /\ Top.what # "input"
         back == {b \in out : b.at = "zsl" /\ flushes}
         add == <<[Top EXCEPT !.op = "add", !.active = dev.state = "RUNNING"]>>
     IN /\ out' = out \ back /\ checks' = checks \cup {[s |-> b.s, f |-> b.f] : b \in back}
        /\ zsl' = IF flushes THEN NewZsl ELSE zsl
        /\ rh' = [rh EXCEPT !.paused = @ \/ dev.state = "RUNNING"]
        /\ IF dev.state = "ERROR" THEN Failed
           ELSE /\ Then((IF dev.state = "RUNNING" THEN AwaitIdle("fail") ELSE <<>>) \o add)
                /\ UNCHANGED <<conduct, aborted>>
        /\ UNCHANGED <<dev, ports, req, pend, img, others, seen>>
        /\ Report

\* The new stream is added; a device that was paused for it is configured and
\* resumed.  EndConfigure follows, unless the stream is cached or the streaming
\* request is there.
AddStream ==
  /\ At("add")
  /\ LET new == [dev EXCEPT !.reconfig = TRUE,
                            !.streams = IF Top.what = "input" THEN @ ELSE @ \cup {dev.next}]
         pending == rh.queue # <<>> \/ rh.repeating # {}
     IN \E c \in IF Top.active THEN ConfigureStreamsLocked(new) ELSE {<<TRUE, new>>} :
          /\ dev' = [c[2] EXCEPT !.next = IF c[1] THEN @ + 1 ELSE @]
          /\ rh' = [rh EXCEPT !.paused = @ /\ ~(Top.active /\ c[1])]
          /\ IF ~c[1] THEN Failed
             ELSE /\ Then((IF Top.active /\ pending THEN AwaitRunning(FALSE) ELSE <<>>)
                          \o (IF req.streaming < 0 /\ ~Top.cache THEN Do("endConfigure") ELSE <<>>)
                          \o <<[Top EXCEPT !.op = "made", !.id = dev.next]>>)
                  /\ UNCHANGED <<conduct, aborted>>
  /\ UNCHANGED <<flow, ports, req, pend, img, zsl, others, seen>>

EndConfigure ==
  /\ At("endConfigure")
  /\ \E c \in ConfigureStreamsLocked(dev) :
       IF ~c[1] THEN Abort("EndConfigure")
       ELSE /\ dev' = c[2] /\ Then(<<>>)
            /\ UNCHANGED <<rh, flow, ports, req, pend, img, zsl, client, seen, aborted>>

\* What is done with the id: a port, a snapshot stream, the input stream.
Port(id) == [stream |-> id, state |-> "CREATED", ready |-> FALSE]
WithPort(t, p) == [u \in DOMAIN ports \cup {t} |-> IF u = t THEN p ELSE ports[u]]
WithoutPort(t) == [u \in DOMAIN ports \ {t} |-> ports[u]]

StreamMade ==
  /\ At("made")
  /\ LET w == Top.what IN
       /\ ports' = IF w = "port" THEN WithPort(Top.t, Port(Top.id)) ELSE ports
       /\ img' = IF w = "image" THEN [img EXCEPT !.streams = Append(@, Top.id)] ELSE img
       /\ dev' = IF w = "input" THEN [dev EXCEPT !.input = Top.id] ELSE dev
       /\ req' = [req EXCEPT !.has = @ \/ w = "port"]
       /\ zsl' = [zsl EXCEPT !.running = @ \/ w = "input" \/ (ZslPresent /\ ~Top.cache)]
  /\ Then(<<>>)
  /\ UNCHANGED <<rh, flow, pend, client, seen, aborted>>

\* DeleteStream, inside DeleteDeviceStream: ZSL is flushed and the streaming
\* request cancelled; a stream that is not cached pauses the device.
Delete(s, cache) == <<[op |-> "delete", s |-> s, cache |-> cache, resume |-> FALSE]>>
CancelRequest == Do("cancel")

DeleteDeviceStream ==
  /\ At("delete")
  /\ LET flushes == ZslPresent /\ zsl.running /\ req.streaming >= 0
         back == {b \in out : b.at = "zsl" /\ flushes}
     IN /\ out' = out \ back /\ checks' = checks \cup {[s |-> b.s, f |-> b.f] : b \in back}
        /\ zsl' = IF flushes THEN NewZsl ELSE zsl
        /\ Then((IF flushes THEN CancelRequest ELSE <<>>)
                \o <<[Top EXCEPT !.op = "pauseDelete", !.resume = flushes]>>)
        /\ UNCHANGED <<dev, rh, ports, req, pend, img, client, seen, aborted>>
        /\ Report

PauseToDelete ==
  /\ At("pauseDelete")
  /\ IF dev.state = "ERROR" THEN Abort("DeleteStream")
     ELSE /\ rh' = [rh EXCEPT !.paused = @ \/ ~Top.cache]
          /\ Then((IF Top.cache THEN <<>> ELSE AwaitIdle("assert"))
                  \o <<[Top EXCEPT !.op = "drop"]>>)
          /\ UNCHANGED <<dev, flow, ports, req, pend, img, zsl, client, seen, aborted>>

\* Slip: the running device is marked for reconfiguration as well.
MarksReconfigure(d) == [d EXCEPT !.streams = @ \ {Top.s}, !.reconfig = TRUE]

\* A cached stream leaves the reconfiguration to the next request, and a
\* running device as it is.
Cached(d) ==
  [d EXCEPT !.streams = @ \ {Top.s}, !.reconfig = @ \/ d.state # "RUNNING"]

InRequests(s) == s \in rh.repeating \/ \E i \in DOMAIN rh.queue : s \in rh.queue[i]

\* The input stream, and a stream with neither requests nor buffers, go.
DropStream ==
  /\ At("drop")
  /\ LET left == dev.streams \ {Top.s}
         resumes == ~Top.cache /\ left # {} /\ Top.s # dev.input
         pending == rh.queue # <<>> \/ rh.repeating # {}
         finish == IF ZslPresent THEN <<[Top EXCEPT !.op = "zslResume"]>> ELSE <<>>
     IN \E c \in IF Top.s = dev.input THEN {<<TRUE, [dev EXCEPT !.input = -1]>>}
                 ELSE IF resumes
                 THEN ConfigureStreamsLocked([dev EXCEPT !.streams = left, !.reconfig = TRUE])
                 ELSE {<<TRUE, Cached(dev)>>} :
          IF \/ ~c[1]
             \/ Top.s # dev.input /\ \/ Top.s \notin dev.streams \/ InRequests(Top.s)
                                     \/ \E b \in out : b.s = Top.s
          THEN Abort("DeleteStream")
          ELSE /\ dev' = c[2] /\ rh' = [rh EXCEPT !.paused = @ /\ ~resumes]
               /\ Then((IF resumes /\ pending THEN AwaitRunning(FALSE) ELSE <<>>) \o finish)
               /\ UNCHANGED <<flow, ports, req, pend, img, zsl, client, seen, aborted>>

\* The rest of DeleteDeviceStream in ZSL mode.
Submit(ids, n, streaming, why) ==
  <<[op |-> "submit", ids |-> ids, n |-> n, streaming |-> streaming, why |-> why,
     watched |-> {}, removed |-> {}]>>

ResumeZSL ==
  /\ At("zslResume")
  /\ \E c \in ConfigureStreamsLocked(dev) :
       IF ~c[1] THEN Abort("EndConfigure")
       ELSE /\ dev' = c[2] /\ zsl' = [zsl EXCEPT !.running = TRUE]
            /\ Then(IF Top.resume THEN Submit(req.active, 1, TRUE, "zslResume") ELSE <<>>)
            /\ UNCHANGED <<rh, flow, ports, req, pend, img, client, seen, aborted>>

-----------------------------------------------------------------------------
(* Requests.                                                               *)

\* A request configures the streams when they changed.
GenerateCaptureRequestLocked ==
  IF dev.reconfig \/ dev.state = "NOT_CONFIGURED" THEN ConfigureStreamsLocked(dev)
  ELSE {<<TRUE, dev>>}

\* The list goes to the request handler.
AddRequestListLocked(queued) ==
  rh' = [rh EXCEPT !.feeding = @ \/ ~rh.paused,
                   !.repeating = IF Top.streaming THEN Top.ids ELSE @,
                   !.last = IF Top.streaming THEN -1 ELSE @,
                   !.queue = IF Top.streaming THEN @ ELSE queued]

\* SubmitRequestList: a list of n requests for ids, repeating or not.  The
\* caller asserts that it succeeds, except CaptureZSLImage.
SubmitRequestList ==
  /\ At("submit")
  /\ LET rejected == \/ dev.state = "ERROR" \/ Top.ids = {}
                     \/ ~(Top.ids \ {dev.input} \subseteq dev.streams)
         queued == rh.queue \o [i \in 1..Top.n |-> Top.ids]
         last == IF Top.streaming THEN rh.last ELSE rh.frame + Len(queued) - 1
     IN \E c \in IF rejected THEN {<<FALSE, dev>>} ELSE GenerateCaptureRequestLocked :
          IF ~c[1] /\ Top.why # "zslImage" THEN Abort("SubmitRequest")
          ELSE IF ~c[1]
          THEN dev' = c[2] /\ Failed
               /\ UNCHANGED <<rh, flow, ports, req, pend, img, zsl, others, seen>>
          ELSE /\ dev' = [c[2] EXCEPT !.id = 1]
               /\ AddRequestListLocked(queued)
               /\ UNCHANGED <<out, checks>>
               /\ img' = IF Top.why = "image" THEN [img EXCEPT !.cancel = FALSE] ELSE img
               /\ Then(AwaitRunning(Top.why \in {"update", "image", "param"})
                       \o <<[op |-> "requested", id |-> dev.id, last |-> last,
                             streaming |-> Top.streaming, why |-> Top.why,
                             watched |-> Top.watched, removed |-> Top.removed]>>)
               /\ UNCHANGED <<ports, req, pend, zsl, client, seen, aborted>>
               /\ Report

\* What the caller notes of its request.  UpdateRequest keeps the last frame
\* of each stream, and waits for the last one of a removed stream.
Requested ==
  /\ At("requested")
  /\ LET last == IF Top.last = -1 THEN pend.frame ELSE Top.last
         map == [s \in DOMAIN pend.map \cup Top.watched |->
                   IF s \notin Top.watched THEN pend.map[s]
                   ELSE IF s \notin DOMAIN pend.map THEN -1
                   ELSE IF last # -1 THEN last ELSE pend.map[s]]
     IN /\ pend' = CASE Top.why = "update" ->
                          [removed |-> pend.removed \cup {s \in Top.removed : map[s] # -1},
                           map |-> map, frame |-> last]
                     [] Top.why \in {"image", "param"} -> [pend EXCEPT !.frame = last]
                     [] OTHER -> pend
        /\ req' = CASE Top.why = "zslImage" -> req
                    [] Top.streaming -> [req EXCEPT !.streaming = Top.id]
                    [] OTHER -> [req EXCEPT !.capture = Top.id]
        /\ Then(IF Top.why = "update" THEN Do("awaitRemoved") ELSE <<>>)
        /\ UNCHANGED <<dev, rh, flow, ports, img, zsl, client, seen, aborted>>

LastFrameReturned ==
  /\ At("awaitRemoved") /\ pend.removed = {}
  /\ Then(<<>>)
  /\ UNCHANGED <<dev, rh, flow, ports, req, pend, img, zsl, client, seen, aborted>>

\* The wait times out when the last frame has come back already.
LastFrameTimesOut ==
  /\ At("awaitRemoved") /\ checks = {}
  /\ \E s \in pend.removed : ~\E b \in out : b.s = s /\ b.f = pend.map[s]
  /\ Then(<<>>) /\ conduct' = conduct \cup {"timedOut"}
  /\ UNCHANGED <<dev, rh, flow, ports, req, pend, img, zsl, others, seen, aborted>>

\* Slip: a stream stays in the request when its port stops.
KeepsStopped == req.active \cup StreamOf(PortsIn("READYTOSTART"))

\* The streams of the next request: those of the ports that start are added,
\* those of the ports that stop are removed.
NextStreams ==
  (req.active \cup StreamOf(PortsIn("READYTOSTART"))) \ StreamOf(PortsIn("READYTOSTOP"))

\* UpdateRequest: the request with the ports that start and without those that
\* stop; without a stream it is cancelled.
UpdateRequest ==
  /\ At("update")
  /\ LET next == NextStreams
         removed == req.active \ next
         watched == removed \cup StreamOf(PortsIn("READYTOSTART") \cup PortsIn("STARTED"))
     IN /\ req' = [req EXCEPT !.active = next]
        /\ Then(IF next = {} THEN CancelRequest
                ELSE <<[Submit(next, 1, TRUE, "update")[1] EXCEPT !.watched = watched,
                                                                  !.removed = removed]>>)
  /\ UNCHANGED <<dev, rh, flow, ports, pend, img, zsl, client, seen, aborted>>

\* Flush: the handler drops its requests, queued ones fail.
Flush ==
  /\ rh' = [rh EXCEPT !.queue = <<>>, !.repeating = {}, !.last = -1,
                      !.frame = @ + Len(rh.queue)]
  /\ checks' = checks \cup {[s |-> -1, f |-> rh.frame + i - 1] : i \in DOMAIN rh.queue}

CancelsRequest ==
  /\ At("cancel")
  /\ IF req.streaming < 0 /\ req.capture < 0
     THEN Then(<<>>) /\ UNCHANGED <<rh, checks>>
     ELSE Flush /\ Then(AwaitIdle("assert") \o Do("cancelled"))
  /\ UNCHANGED <<dev, out, reports, ports, req, pend, img, zsl, client, seen, aborted>>

Cancelled ==
  /\ At("cancelled")
  /\ req' = [req EXCEPT !.streaming = -1, !.capture = -1]
  /\ pend' = [pend EXCEPT !.frame = -1]
  /\ Then(<<>>)
  /\ UNCHANGED <<dev, rh, flow, ports, img, zsl, client, seen, aborted>>

\* PauseActiveStreams: flush, wait, and every port is told.
PauseActiveStreams ==
  /\ At("pause")
  /\ IF (req.streaming < 0 /\ req.capture < 0) \/ req.paused
     THEN Then(<<>>) /\ UNCHANGED <<rh, checks>>
     ELSE Flush /\ Then(AwaitIdle("assert") \o Do("paused"))
  /\ UNCHANGED <<dev, out, reports, ports, req, pend, img, zsl, client, seen, aborted>>

StreamsPaused ==
  /\ At("paused")
  /\ IF PortsIn("STARTED") # DOMAIN ports \/ req.stopped # {} THEN Abort("Pause")
     ELSE /\ ports' = [t \in DOMAIN ports |-> [ports[t] EXCEPT !.state = "PAUSED"]]
          /\ req' = [req EXCEPT !.stopped = req.active, !.active = {}, !.paused = TRUE,
                                !.streaming = -1, !.capture = -1]
          /\ pend' = [pend EXCEPT !.frame = -1]
          /\ Then(<<>>)
          /\ UNCHANGED <<dev, rh, flow, img, zsl, client, seen, aborted>>

\* ResumeActiveStreams: the ports' states only, or each port is started again.
OfPort(op, t) == <<[op |-> op, t |-> t]>>
Resume(state_only) == <<[op |-> "resume", state_only |-> state_only]>>
InOrder(T) == SetToSortSeq(T, LAMBDA a, b : a < b)

ResumeActiveStreams ==
  /\ At("resume")
  /\ IF req.stopped = {}
     THEN /\ req' = [req EXCEPT !.paused = FALSE] /\ Then(<<>>)
          /\ UNCHANGED <<dev, rh, flow, ports, pend, img, zsl, client, seen, aborted>>
     ELSE IF ~Top.state_only
     THEN /\ Then([i \in 1..Cardinality(DOMAIN ports) |->
                     OfPort("start", InOrder(DOMAIN ports)[i])[1]] \o Do("resumed"))
          /\ UNCHANGED <<dev, rh, flow, ports, req, pend, img, zsl, client, seen, aborted>>
     ELSE IF PortsIn("PAUSED") # DOMAIN ports THEN Abort("Resume")
     ELSE /\ ports' = [t \in DOMAIN ports |-> [ports[t] EXCEPT !.state = "STARTED"]]
          /\ Then(Do("resumed"))
          /\ UNCHANGED <<dev, rh, flow, req, pend, img, zsl, client, seen, aborted>>

Resumed ==
  /\ At("resumed")
  /\ req' = [req EXCEPT !.stopped = {}, !.paused = FALSE]
  /\ Then(<<>>)
  /\ UNCHANGED <<dev, rh, flow, ports, pend, img, zsl, client, seen, aborted>>

-----------------------------------------------------------------------------
(* CameraPort.                                                             *)

SetPort(t, s, ready) ==
  ports' = [ports EXCEPT ![t] = [stream |-> @.stream, state |-> s, ready |-> ready]]

\* Start, and Stop of a port that was started: UpdateRequest in between.
PortMoves(op, skips, through, ready, to) ==
  /\ At(op)
  /\ IF ports[Top.t].state = skips THEN Then(<<>>) /\ UNCHANGED ports
     ELSE /\ SetPort(Top.t, through, ready)
          /\ Then(Do("update") \o <<[op |-> "moved", t |-> Top.t, to |-> to]>>)
  /\ UNCHANGED <<dev, rh, flow, req, pend, img, zsl, client, seen, aborted>>

PortStart == PortMoves("start", "STARTED", "READYTOSTART", TRUE, "STARTED")
PortStop == PortMoves("stop", "CREATED", "READYTOSTOP", FALSE, "STOPPED")

PortMoved ==
  /\ At("moved")
  /\ SetPort(Top.t, Top.to, ports[Top.t].ready) /\ Then(<<>>)
  /\ UNCHANGED <<dev, rh, flow, req, pend, img, zsl, client, seen, aborted>>

\* DeInit, and the port is erased once its streams are deleted.
PortDeInit ==
  /\ At("deinit")
  /\ LET stream == Delete(ports[Top.t].stream, TRUE) IN
     IF ports[Top.t].ready THEN Abort("DeInit")
     ELSE /\ Then((IF Top.t = Zsl THEN Delete(dev.input, TRUE) ELSE <<>>)
                  \o stream \o OfPort("erase", Top.t))
          /\ UNCHANGED <<dev, rh, flow, ports, req, pend, img, zsl, client, seen, aborted>>

PortErased ==
  /\ At("erase")
  /\ ports' = WithoutPort(Top.t) /\ Then(<<>>)
  /\ UNCHANGED <<dev, rh, flow, req, pend, img, zsl, client, seen, aborted>>

-----------------------------------------------------------------------------
(* Image capture.                                                          *)

\* CreateSnapshotStream: a changed size replaces the stream, with the streams
\* paused; a raw stream comes on top.
Snapshot(size, cache) == <<[op |-> "snapshot", size |-> size, cache |-> cache]>>

CreateSnapshotStream ==
  /\ At("snapshot")
  /\ Then((IF Top.size # img.stream_param
           THEN Do("pause") \o <<[Top EXCEPT !.op = "replace"]>> ELSE <<>>)
          \o <<[Top EXCEPT !.op = "raw"]>>)
  /\ UNCHANGED <<dev, rh, flow, ports, req, pend, img, zsl, client, seen, aborted>>

DeleteSnapshotStream(cache) == <<[op |-> "unsnap", cache |-> cache]>>

ReplaceSnapshotStream ==
  /\ At("replace")
  /\ IF Len(img.streams) > 1 THEN Failed
     ELSE /\ Then((IF img.streams = <<>> THEN <<>> ELSE DeleteSnapshotStream(TRUE))
                  \o Create("image", 0, Top.cache))
          /\ UNCHANGED <<conduct, aborted>>
  /\ UNCHANGED <<dev, rh, flow, ports, req, pend, img, zsl, others, seen>>

CreateRawStream ==
  /\ At("raw")
  /\ Then(IF img.type = "kStillPlusRaw" THEN Create("image", 0, Top.cache) ELSE <<>>)
  /\ UNCHANGED <<dev, rh, flow, ports, req, pend, img, zsl, client, seen, aborted>>

DeletesSnapshotStream ==
  /\ At("unsnap")
  /\ LET cache == Top.cache \/ req.streaming = -1 IN
       Then([i \in DOMAIN img.streams |-> Delete(img.streams[i], cache)[1]] \o Do("unsnapped"))
  /\ UNCHANGED <<dev, rh, flow, ports, req, pend, img, zsl, client, seen, aborted>>

SnapshotStreamDeleted ==
  /\ At("unsnapped")
  /\ img' = [img EXCEPT !.streams = <<>>, !.stream_param = 0, !.type = "kNone"]
  /\ req' = [req EXCEPT !.capture = -1]
  /\ Then(<<>>)
  /\ UNCHANGED <<dev, rh, flow, ports, pend, zsl, client, seen, aborted>>

\* IsNeedReconfigSnapshotStream: only the raw mode needs other streams.
IsNeedReconfigSnapshotStream ==
  img.type # img.new /\ "kStillPlusRaw" \in {img.type, img.new}

\* SetUpCapture, which CameraSource calls after ConfigImageCapture.
SetUpCapture ==
  /\ At("setUp")
  /\ IF img.type = "kZsl"
     THEN /\ IF Top.size = img.param THEN Then(<<>>) /\ UNCHANGED <<conduct, aborted>>
             ELSE Failed
          /\ UNCHANGED img
     ELSE /\ img' = [img EXCEPT !.param = Top.size, !.type = img.new]
          /\ Then(IF \/ img.streams = <<>> \/ img.param # Top.size
                     \/ IsNeedReconfigSnapshotStream
                  THEN Snapshot(Top.size, FALSE) \o <<[Top EXCEPT !.op = "stored"]>>
                  ELSE <<>>)
          /\ UNCHANGED <<conduct, aborted>>
  /\ UNCHANGED <<dev, rh, flow, ports, req, pend, zsl, others, seen>>

SnapshotStored ==
  /\ At("stored")
  /\ img' = [img EXCEPT !.param = Top.size, !.stream_param = Top.size]
  /\ Then(<<>>)
  /\ UNCHANGED <<dev, rh, flow, ports, req, pend, zsl, client, seen, aborted>>

\* StartZSL and StopZSL; zslMode ends what ConfigImageCapture does with
\* capture_lock_ held.
StartZSL(size) ==
  Do("pause") \o Snapshot(size, TRUE) \o Create("port", Zsl, FALSE)
  \o Create("input", Zsl, TRUE) \o OfPort("start", Zsl) \o Resume(FALSE) \o Do("zslStarted")

StopZSL ==
  Do("zslFlush") \o Do("pause") \o OfPort("stop", Zsl) \o DeleteSnapshotStream(TRUE)
  \o OfPort("deinit", Zsl) \o Resume(FALSE)

SetMode(op, mode) == <<[op |-> op, mode |-> mode]>>

PauseAndFlushZSLQueue ==
  /\ At("zslFlush")
  /\ LET back == {b \in out : b.at = "zsl"} IN
       /\ out' = out \ back /\ checks' = checks \cup {[s |-> b.s, f |-> b.f] : b \in back}
  /\ zsl' = NewZsl
  /\ Then(<<>>)
  /\ UNCHANGED <<dev, rh, ports, req, pend, img, client, seen, aborted>>
  /\ Report

ModeSet ==
  /\ At("zslStarted") \/ At("zslMode") \/ At("mode")
  /\ img' = IF Top.op = "zslStarted" THEN img ELSE [img EXCEPT !.type = Top.mode]
  /\ Then(<<>>)
  /\ UNCHANGED <<dev, rh, flow, ports, req, pend, zsl, client, seen, aborted>>

-----------------------------------------------------------------------------
(* The request handler and the buffers.                                    *)

\* A request goes to the HAL with a buffer of each of its streams, and one that
\* reprocesses with the picked one (GetZSLInputBuffer).
SubmitRequest ==
  /\ aborted = "no" /\ ~rh.paused
  /\ rh.queue # <<>> \/ rh.repeating # {}
  /\ LET all == IF rh.queue # <<>> THEN Head(rh.queue) ELSE rh.repeating
         ids == all \ {dev.input}
         input == {b \in out : b.at = "picked" /\ dev.input \in all}
     IN
       /\ rh.frame < MaxFrame /\ Cardinality(out) + Cardinality(ids) <= MaxOut
       /\ out' = (out \ input) \cup {[b EXCEPT !.at = "input"] : b \in input}
                 \cup {[s |-> s, f |-> rh.frame, at |-> "hal"] : s \in ids}
       /\ rh' = [rh EXCEPT !.frame = @ + 1, !.feeding = TRUE,
                           !.queue = IF @ = <<>> THEN @ ELSE Tail(@),
                           !.last = IF rh.queue = <<>> THEN rh.frame ELSE @]
  /\ UNCHANGED checks
  /\ UNCHANGED <<dev, ports, req, pend, img, zsl, client, agenda, seen, aborted>>
  /\ Report

\* GetRequest finds none, or WaitOnPause: the handler is idle.
HandlerIdles ==
  /\ aborted = "no" /\ rh.feeding
  /\ rh.paused \/ (rh.queue = <<>> /\ rh.repeating = {})
  /\ rh' = [rh EXCEPT !.feeding = FALSE]
  /\ UNCHANGED <<out, checks>>
  /\ UNCHANGED <<dev, ports, req, pend, img, zsl, client, agenda, seen, aborted>>
  /\ Report

Returnable(b) == dev.state \in {"CONFIGURED", "RUNNING"} /\ b.s \in dev.streams
BufferStep(b) == aborted = "no" /\ b.at = "hal"

\* StreamCallback: the frame goes through the track and comes back, or the
\* ZSL port is not running: ReturnStreamBuffer.
ReturnStreamBuffer(b) ==
  /\ BufferStep(b) /\ b.s \notin Images
  /\ Zsl \in DOMAIN ports /\ ports[Zsl].stream = b.s => ~zsl.running
  /\ IF ~Returnable(b) THEN Abort("ReturnStreamBuffer")
     ELSE /\ out' = out \ {b} /\ checks' = checks \cup {[s |-> b.s, f |-> b.f]}
          /\ UNCHANGED <<dev, rh, ports, req, pend, img, zsl, client, agenda, seen, aborted>>
          /\ Report

\* ZSLCaptureCallback: the frame is queued, the oldest one beyond the depth
\* goes back.
ZSLCaptureCallback(b) ==
  /\ BufferStep(b) /\ Zsl \in DOMAIN ports /\ ports[Zsl].stream = b.s /\ zsl.running
  /\ LET queue == Append(zsl.queue, b.f)
         full == Len(queue) >= Depth + 1
         oldest == {x \in out : full /\ x.s = b.s /\ x.f = Head(queue)}
     IN /\ out' = (out \ (oldest \cup {b})) \cup ({[b EXCEPT !.at = "zsl"]} \ oldest)
        /\ zsl' = [zsl EXCEPT !.queue = IF full THEN Tail(queue) ELSE queue]
        /\ checks' = checks \cup {[s |-> x.s, f |-> x.f] : x \in oldest}
  /\ UNCHANGED <<dev, rh, ports, req, pend, img, client, agenda, seen, aborted>>
  /\ Report

\* ReturnZSLInputBuffer: the reprocessed frame goes back to its stream.
ReturnZSLInputBuffer(b) ==
  /\ aborted = "no" /\ b.at = "input"
  /\ IF ~Returnable(b) THEN Abort("ReturnStreamBuffer")
     ELSE /\ out' = out \ {b} /\ checks' = checks \cup {[s |-> b.s, f |-> b.f]}
          /\ UNCHANGED <<dev, rh, ports, req, pend, img, zsl, client, agenda, seen, aborted>>
          /\ Report

\* SnapshotCaptureCallback: the image goes to the client, unless cancelled.
SnapshotCaptureCallback(b) ==
  /\ BufferStep(b) /\ b.s \in Images /\ ~Held(b)
  /\ IF img.cancel /\ ~Returnable(b) THEN Abort("ReturnStreamBuffer")
     ELSE /\ out' = (out \ {b}) \cup (IF img.cancel THEN {} ELSE {[b EXCEPT !.at = "client"]})
          /\ UNCHANGED checks
          /\ UNCHANGED <<dev, rh, ports, req, pend, img, zsl, client, agenda, seen, aborted>>
          /\ Report

\* The HAL returns a buffer in error, and tells of it (CameraErrorCb).
BufferError(b) ==
  /\ BufferStep(b) /\ "error" \in scenario.faults
  /\ out' = out \ {b} /\ checks' = checks \cup {[s |-> -1, f |-> b.f]}
  /\ UNCHANGED <<dev, rh, ports, req, pend, img, zsl, client, agenda, seen, aborted>>
  /\ Report

\* Slip: any frame of a removed stream ends the wait for it.
AnyFrame(c) == {s \in pend.removed : c.s \in {s, -1}}

\* The removed streams whose last frame this is.
Removed(c) == {s \in pend.removed : c.s \in {s, -1} /\ pend.map[s] = c.f}

\* The rest of ReturnStreamBuffer, and CameraErrorCb: both take
\* pending_frames_lock_, which a caller of SubmitRequestList may hold.
CheckLastFrame(c) ==
  /\ aborted = "no"
  /\ ~(At("awaitRunning") /\ Top.locked)
  /\ LET done == Removed(c) IN
       /\ pend' = [pend EXCEPT !.removed = @ \ done,
                               !.map = [s \in DOMAIN @ \ done |-> @[s]]]
       /\ conduct' = conduct \cup
            Unless(\E b \in out : b.s \in done /\ b.f <= c.f, "early")
  /\ checks' = checks \ {c}
  /\ UNCHANGED <<dev, rh, out, reports, ports, req, img, zsl, scenario, asked, calls,
                 agenda, seen, aborted>>

-----------------------------------------------------------------------------
(* The calls of the client.                                                *)

Open == dev.state # "CLOSED"
ImagesAt(places) == {b \in out : b.s \in Images /\ b.at \in places}
ImagePending == ImagesAt({"hal", "client"}) # {}
                \/ \E i \in DOMAIN rh.queue : rh.queue[i] \cap Images # {}

\* A call begins; conduct notes what it is made in the middle of, and after
\* that no further call is of interest.
Begin(steps, tags) ==
  /\ aborted = "no" /\ agenda = <<>> /\ calls < scenario.calls /\ conduct = {}
  /\ agenda' = steps /\ calls' = calls + 1
  /\ conduct' = conduct \cup tags \cup Unless(reports # <<>>, "unreported")
  /\ UNCHANGED <<scenario, aborted>>

OnTrack ==
  Unless(req.paused, "betweenCalls")
  \cup Unless(ImagePending \/ img.continuous, "imagePending")

\* The device client is made and opens the camera.  Initialize may fail, which the
\* caller is told; every later refusal is asserted (OpenCamera, GetCameraInfo,
\* DisableFlushRestart, CreateCaptureRequest).
DeviceOpened == [dev EXCEPT !.state = "NOT_CONFIGURED"]

OpenCamera ==
  /\ ~Open
  /\ \/ /\ Begin(<<>>, {})
        /\ dev' \in {DeviceOpened} \cup (IF "refuse" \in scenario.faults THEN {dev} ELSE {})
        /\ UNCHANGED <<rh, flow, ports, req, pend, img, zsl, asked, seen>>
     \/ /\ "refuse" \in scenario.faults /\ aborted = "no" /\ agenda = <<>>
        /\ Abort("OpenCamera")

TrackCall(t, from, to, steps) ==
  /\ Open /\ t \in scenario.tracks /\ asked[t] \in from
  /\ Begin(steps, OnTrack) /\ asked' = [asked EXCEPT ![t] = to]
  /\ UNCHANGED <<dev, rh, flow, ports, req, pend, img, zsl, seen>>

\* CreateStream failed when the port is missing: the client sees it.
Known(t) == t \in DOMAIN ports
CreateTrack(t) == ~Known(t) /\ TrackCall(t, {"none"}, "created", Create("port", t, FALSE))
StartTrack(t) == Known(t) /\ TrackCall(t, {"created", "stopped"}, "started", OfPort("start", t))
StopTrack(t) == Known(t) /\ TrackCall(t, {"started", "paused"}, "stopped", OfPort("stop", t))
DeleteTrack(t) == Known(t) /\ TrackCall(t, {"created", "stopped"}, "none", OfPort("deinit", t))

\* PauseStream and ResumeStream only change, and assert, the port's state.
PauseOrResume(t, from, state, to) ==
  /\ Open /\ Known(t) /\ asked[t] = from
  /\ Begin(<<>>, OnTrack) /\ asked' = [asked EXCEPT ![t] = to]
  /\ SetPort(t, state, ports[t].ready)
  /\ UNCHANGED <<dev, rh, flow, req, pend, img, zsl, seen>>

PauseStream(t) == PauseOrResume(t, "started", "PAUSED", "paused") /\ ports[t].state = "STARTED"
ResumeStream(t) == PauseOrResume(t, "paused", "STARTED", "started") /\ ports[t].state = "PAUSED"

ConfigImageCapture(mode, size) ==
  /\ Open /\ mode \in scenario.modes /\ size \in scenario.sizes
  /\ LET starts == img.type # "kZsl" /\ mode = "kZsl"
         stops == img.type = "kZsl" /\ mode # "kZsl"
     IN /\ Begin((IF starts THEN StartZSL(size) \o SetMode("zslMode", "kZsl") ELSE <<>>)
                 \o (IF stops THEN StopZSL \o SetMode("zslMode", mode) ELSE <<>>)
                 \o <<[op |-> "setUp", size |-> size]>>,
                 Unless(ImagePending \/ img.continuous, "imagePending"))
        /\ img' = [img EXCEPT !.new = mode, !.param = IF starts THEN size ELSE @]
        /\ req' = [req EXCEPT !.has = @ \/ starts]
  /\ UNCHANGED <<dev, rh, flow, ports, pend, zsl, asked, seen>>

\* CaptureImage with a burst of n.  In the video and continuous modes the
\* request takes the streams of the tracks with it.
CaptureImage(n) ==
  /\ Open /\ n \in scenario.images /\ img.streams # <<>> /\ img.type # "kZsl"
  /\ LET streaming == img.type = "kContinuous"
         joins == img.type \in {"kVideo", "kContinuous"} /\ req.has
         tracks == IF ~joins THEN {} ELSE IF req.paused THEN req.stopped ELSE req.active
     IN IF img.continuous
        THEN Begin(<<>>, {}) /\ UNCHANGED <<dev, rh, flow, ports, req, pend, img, zsl, asked, seen>>
        ELSE IF joins /\ req.paused /\ req.active # {} /\ agenda = <<>> /\ aborted = "no"
        THEN Abort("CaptureImage")
        ELSE /\ Begin(Submit(Images \cup tracks, IF streaming THEN 1 ELSE n, streaming, "image")
                      \o Resume(streaming), {})
             /\ img' = [img EXCEPT !.continuous = streaming]
             /\ req' = [req EXCEPT !.active = @ \cup tracks, !.paused = @ /\ ~joins]
             /\ UNCHANGED <<dev, rh, flow, ports, pend, zsl, asked, seen>>

\* PickZSLBuffer: an entry of the queue, unless the last one picked is still out.
Pickable == IF \E b \in out : b.at \in {"picked", "input"} THEN {} ELSE DOMAIN zsl.queue

\* CaptureZSLImage: the picked entry is reprocessed, else a plain request.
CaptureZSLImage ==
  /\ Open /\ img.type = "kZsl" /\ img.streams # <<>>
  /\ \E i \in Pickable \cup {0} :
       LET picked == {b \in out : b.at = "zsl" /\ i # 0 /\ b.f = zsl.queue[i]} IN
         /\ out' = (out \ picked) \cup {[b EXCEPT !.at = "picked"] : b \in picked}
         /\ zsl' = [zsl EXCEPT !.queue = SelectSeq(@, LAMBDA f : \A b \in picked : b.f # f)]
         /\ Begin(Submit(IF i = 0 THEN Images ELSE {dev.input, img.streams[1]}, 1, FALSE,
                         "zslImage"),
                  Unless(ImagePending, "imagePending"))
  /\ UNCHANGED <<dev, rh, checks, reports, ports, req, pend, img, asked, seen>>

CancelCaptureImage ==
  /\ Open
  /\ IF img.type = "kZsl"
     THEN /\ Begin(StopZSL \o SetMode("mode", "kStill"), Unless(ImagePending, "imagePending"))
          /\ UNCHANGED img
     ELSE /\ img.streams # <<>>
          /\ Begin(Do("pause") \o DeleteSnapshotStream(FALSE) \o Resume(FALSE),
                   Unless(ImagesAt({"client"}) # {}, "imagePending"))
          /\ img' = [img EXCEPT !.cancel = TRUE, !.continuous = FALSE]
  /\ UNCHANGED <<dev, rh, flow, ports, req, pend, zsl, asked, seen>>

ReturnImageCaptureBuffer(b) ==
  /\ Open /\ aborted = "no" /\ agenda = <<>> /\ b \in ImagesAt({"client"})
  /\ IF ~Returnable(b) THEN Abort("ReturnStreamBuffer")
     ELSE /\ out' = out \ {b}
          /\ UNCHANGED <<dev, rh, checks, ports, req, pend, img, zsl, client, agenda, seen, aborted>>
          /\ Report

SetCameraParam ==
  /\ Open /\ req.has
  /\ Begin(IF req.streaming >= 0 /\ img.type # "kContinuous"
           THEN Submit(req.active, 1, TRUE, "param") ELSE <<>>, {})
  /\ UNCHANGED <<dev, rh, flow, ports, req, pend, img, zsl, asked, seen>>

\* CloseCamera, once the tracks are deleted.
CloseCamera ==
  /\ Open /\ \A t \in Tracks : asked[t] = "none"
  /\ Begin(DeleteSnapshotStream(FALSE) \o Do("close"),
           Unless(ImagePending \/ img.continuous \/ img.type = "kZsl", "imagePending"))
  /\ UNCHANGED <<dev, rh, flow, ports, req, pend, img, zsl, asked, seen>>

CloseDevice ==
  /\ At("close")
  /\ IF req.streaming > 0 THEN Failed ELSE Then(AwaitIdle("assert") \o Do("closed"))
                                            /\ UNCHANGED <<conduct, aborted>>
  /\ UNCHANGED <<dev, rh, flow, ports, req, pend, img, zsl, others, seen>>

\* The context and its device are destroyed.
Closes ==
  /\ At("closed") /\ Then(<<>>)
  /\ dev' = NewDevice /\ rh' = NewHandler /\ req' = NewRequest /\ pend' = NewPending
  /\ img' = NewImage /\ zsl' = NewZsl
  /\ out' = {} /\ checks' = {} /\ reports' = <<>> /\ ports' = <<>>
  /\ UNCHANGED <<client, seen, aborted>>

-----------------------------------------------------------------------------

Device ==
  \/ NotifyStatus \/ WaitUntilStateThenRelock \/ WaitUntilIdleTimesOut
  \/ CreateStream \/ AddStream \/ EndConfigure \/ StreamMade
  \/ DeleteDeviceStream \/ PauseToDelete \/ DropStream \/ ResumeZSL \/ SubmitRequestList

Context ==
  \/ Requested \/ LastFrameReturned \/ LastFrameTimesOut \/ UpdateRequest
  \/ CancelsRequest \/ Cancelled \/ PauseActiveStreams \/ StreamsPaused
  \/ ResumeActiveStreams \/ Resumed \/ PortStart \/ PortStop \/ PortMoved
  \/ PortDeInit \/ PortErased \/ CreateSnapshotStream \/ ReplaceSnapshotStream
  \/ CreateRawStream \/ DeletesSnapshotStream \/ SnapshotStreamDeleted
  \/ SetUpCapture \/ SnapshotStored \/ PauseAndFlushZSLQueue \/ ModeSet
  \/ CloseDevice \/ Closes

Camera ==
  \/ SubmitRequest \/ HandlerIdles
  \/ \E b \in out : \/ ReturnStreamBuffer(b) \/ ZSLCaptureCallback(b)
                    \/ SnapshotCaptureCallback(b) \/ BufferError(b)
                    \/ ReturnZSLInputBuffer(b)
  \/ \E c \in checks : CheckLastFrame(c)

Calls ==
  \/ OpenCamera \/ CaptureZSLImage \/ CancelCaptureImage \/ SetCameraParam \/ CloseCamera
  \/ \E t \in Tracks : \/ CreateTrack(t) \/ StartTrack(t) \/ StopTrack(t) \/ DeleteTrack(t)
                       \/ PauseStream(t) \/ ResumeStream(t)
  \/ \E m \in scenario.modes, z \in scenario.sizes : ConfigImageCapture(m, z)
  \/ \E n \in scenario.images : CaptureImage(n)
  \/ \E b \in out : ReturnImageCaptureBuffer(b)

Next == Device \/ Context \/ Camera \/ Calls

Spec == Init /\ [][Next]_vars

-----------------------------------------------------------------------------
(* Properties.  conduct records what puts a behaviour outside of them: the *)
(* HAL refused a configuration and a call failed ("failed"), a track was   *)
(* used between                                                            *)
(* ConfigImageCapture and CaptureImage ("betweenCalls"), a call was made   *)
(* with an image not yet given back or in continuous mode ("imagePending"),*)
(* or while the device's last change of state was not reported yet         *)
(* ("unreported").  A wait for the last frames that ended without them, in *)
(* time ("timedOut"), or for another stream's error on the last frame or   *)
(* because that came back before an older one ("early"), only leaves the   *)
(* stop incomplete.                                                        *)

\* No assertion of the camera fails: not in the HAL's callbacks that return
\* buffers, not in a wait for the idle state, nor when a stream is deleted.  Two
\* kinds may: OpenCamera, EndConfigure and SubmitRequest assert that the HAL does
\* not refuse, and the pause and restart of the ports around a capture assert that
\* all are started, which fails only if the client itself has a track that it did
\* not start, or stopped, or paused.
CameraAssertionsHold ==
  conduct \subseteq {"timedOut", "early"} /\ aborted # "no" =>
    \/ "refuse" \in scenario.faults
       /\ aborted \in {"OpenCamera", "EndConfigure", "SubmitRequest"}
    \/ aborted = "Pause" /\ \E t \in Tracks : asked[t] \in {"created", "stopped", "paused"}

\* Between two calls the repeating request is that of the started tracks (with
\* the images in continuous mode), and the device is not left paused: what
\* UpdateRequest, the pause for a capture and its resumption leave behind.
StartedIsFed ==
  agenda = <<>> /\ aborted = "no" /\ conduct \subseteq {"timedOut", "early"} /\ ~req.paused =>
    /\ rh.repeating = StreamOf({t \in DOMAIN ports : ports[t].state \in {"STARTED", "PAUSED"}})
                      \cup (IF img.continuous THEN Images ELSE {})
    /\ ~rh.paused

\* A stop that did not time out leaves no buffer of the stopped track out when
\* its buffers come back in order: no frame is requested after the one that
\* UpdateRequest waits for.
StoppedIsDrained ==
  agenda = <<>> /\ aborted = "no" /\ conduct = {} =>
    \A t \in DOMAIN ports : ports[t].state = "STOPPED" =>
      ~\E b \in out : b.s = ports[t].stream
=============================================================================
