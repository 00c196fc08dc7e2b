--------------------------- MODULE RecorderCameras ---------------------------
(***************************************************************************)
(* Which client owns which camera: RecorderService (recorder/src/service/  *)
(* qmmf_recorder_service.cc), the camera and client maps of RecorderImpl   *)
(* (qmmf_recorder_impl.cc) and camera_map_ of CameraSource                 *)
(* (qmmf_camera_source.cc).                                                *)
(*                                                                         *)
(* A client has one call in the service at a time, but its death is        *)
(* handled by another thread while that call may still be there.  A step   *)
(* is one critical section, or one call of CameraSource.                   *)
(***************************************************************************)
EXTENDS RecorderThreads, Naturals, FiniteSets

CONSTANT Cameras

ASSUME CamerasAssumption ==
  Cameras # {} /\ None \notin Clients \cup Threads

VARIABLES
  user,        \* of a client: new, connected, dead, gone
  lock_,       \* RecorderService: the client whose death holds it, or None
  recorder_,   \* there is a RecorderImpl
  callbacks,   \* keys of remote_cb_list_ and death_notifier_list_
  clients,     \* keys of client_session_map_
  known,       \* keys of client_cameraid_map_
  cameras,     \* client_cameraid_map_: no, slave or owner
  camera_map_, \* CameraSource: closed, opening or open
  stopping,    \* holder of stop_camera_lock_, or None
  pc, camera,  \* each thread: its place, its camera_id
  todo,        \* cameras the cleanup of a dead client has yet to stop
  manners      \* history: "death", "slave" (slave mode was asked for), "left"
               \* (a client disconnected without stopping its cameras)

cameraVars == <<user, lock_, recorder_, callbacks, clients, known, cameras,
                camera_map_, stopping, pc, camera, todo, manners>>
cameraMaps == <<clients, known, cameras>>
serviceVars == <<user, lock_, recorder_, callbacks>>

NoCameras == [k \in Cameras |-> "no"]

CamerasInit ==
  /\ user = [c \in Clients |-> "new"]
  /\ lock_ = None /\ recorder_ = FALSE
  /\ callbacks = {} /\ clients = {} /\ known = {}
  /\ cameras = [c \in Clients |-> NoCameras]
  /\ camera_map_ = [k \in Cameras |-> "closed"]
  /\ stopping = None
  /\ pc = [t \in Threads |-> "idle"]
  /\ camera = [t \in Threads |-> CHOOSE k \in Cameras : TRUE]
  /\ todo = {} /\ manners = {}

Move(t, to) == pc' = [pc EXCEPT ![t] = to]

\* A call of the client returns; a StopCamera of the cleanup goes on with it.
Back(t) == IF t[2] = "call" THEN "idle" ELSE "cameras"
Done(t) == Move(t, Back(t))

-----------------------------------------------------------------------------
(* RecorderService.                                                        *)

\* Connect, with RegisterClient; the first client creates the recorder.
Connect(c) ==
  /\ user[c] = "new" /\ lock_ = None
  /\ user' = [user EXCEPT ![c] = "connected"]
  /\ recorder_' = TRUE
  /\ callbacks' = callbacks \cup {c}
  /\ clients' = clients \cup {c}
  /\ known' = known \cup {c}
  /\ UNCHANGED <<lock_, cameras, camera_map_, stopping, pc, camera, todo, manners>>

\* The end of Disconnect and DisconnectInternal: the last client to leave
\* takes the recorder, and with it every map, along.  A call that is still
\* in the recorder goes on in freed memory: it is "lost".
Leave(c, knownLeft, camerasLeft, clientsLeft) ==
  LET last == callbacks = {c} IN
  /\ user' = [user EXCEPT ![c] = "gone"]
  /\ callbacks' = callbacks \ {c}
  /\ recorder_' = ~last
  /\ clients' = IF last THEN {} ELSE clientsLeft
  /\ known' = IF last THEN {} ELSE knownLeft
  /\ cameras' = IF last THEN [d \in Clients |-> NoCameras] ELSE camerasLeft
  /\ camera_map_' = IF last THEN [k \in Cameras |-> "closed"] ELSE camera_map_
  /\ stopping' = IF last THEN None ELSE stopping
  /\ pc' = [t \in Threads |->
              IF t = <<c, "death">> THEN "idle"
              ELSE IF last /\ pc[t] # "idle" THEN "lost" ELSE pc[t]]
  /\ lock_' = None

\* Disconnect, with DeRegisterClient(client_id, false): only an empty entry
\* of client_cameraid_map_ is erased.
Disconnect(c) ==
  /\ user[c] = "connected" /\ lock_ = None
  /\ pc[<<c, "call">>] = "idle"
  /\ manners' = IF cameras[c] = NoCameras THEN manners ELSE manners \cup {"left"}
  /\ Leave(c, IF cameras[c] = NoCameras THEN known \ {c} ELSE known, cameras,
           clients)
  /\ UNCHANGED <<camera, todo>>

\* StartCamera and StopCamera of the service: IsRecorderInitialized.
CallCamera(c, k, to) ==
  LET t == <<c, "call">> IN
  /\ user[c] = "connected" /\ pc[t] = "idle"
  /\ lock_ = None /\ recorder_
  /\ Move(t, to)
  /\ camera' = [camera EXCEPT ![t] = k]
  /\ manners' = IF to = "startSlave" THEN manners \cup {"slave"} ELSE manners
  /\ UNCHANGED <<serviceVars, cameraMaps, camera_map_, stopping, todo>>

ClientDies(c) ==
  /\ user[c] = "connected"
  /\ user' = [user EXCEPT ![c] = "dead"]
  /\ manners' = manners \cup {"death"}
  /\ UNCHANGED <<lock_, recorder_, callbacks, cameraMaps, camera_map_, stopping, pc,
                 camera, todo>>

-----------------------------------------------------------------------------
(* RecorderImpl: the checks.                                               *)

ClientValid(c) == c \in clients

\* Another client owns the camera.
IsCameraOwned(c, k) == \E d \in known \ {c} : cameras[d][k] = "owner"

IsCameraValid(c, k) == ClientValid(c) /\ cameras[c][k] = "owner"

\* operator[] and emplace: an entry that exists is left as it is.
Emplace(c, k, role) ==
  /\ known' = known \cup {c}
  /\ cameras' = [cameras EXCEPT ![c][k] = IF @ = "no" THEN role ELSE @]

Erase(c, k) ==
  /\ known' = known \cup {c}
  /\ cameras' = [cameras EXCEPT ![c][k] = "no"]

-----------------------------------------------------------------------------
(* RecorderImpl::StartCamera, "start" or, in slave mode, "startSlave".     *)

StartSlave(t) ==
  /\ pc[t] = "startSlave"
  /\ IF ClientValid(Client(t)) /\ IsCameraOwned(Client(t), camera[t])
     THEN Move(t, "slave") ELSE Done(t)
  /\ UNCHANGED <<serviceVars, cameraMaps, camera_map_, stopping, camera, todo, manners>>

\* Between the check and the entry the owner may have stopped the camera.
SlaveAdded(t) ==
  /\ pc[t] = "slave"
  /\ Emplace(Client(t), camera[t], "slave")
  /\ Done(t)
  /\ UNCHANGED <<serviceVars, clients, camera_map_, stopping, camera, todo, manners>>

Start(t) ==
  /\ pc[t] = "start"
  /\ IF \/ ~ClientValid(Client(t))
        \/ IsCameraOwned(Client(t), camera[t])
        \/ IsCameraValid(Client(t), camera[t])
     THEN Done(t) ELSE Move(t, "open")
  /\ UNCHANGED <<serviceVars, cameraMaps, camera_map_, stopping, camera, todo, manners>>

\* Slip: CameraSource opens what is already open.
AlreadyOpenNever(k) == FALSE

\* CameraSource::StartCamera
AlreadyOpen(k) == camera_map_[k] # "closed"

OpenCamera(t) ==
  /\ pc[t] = "open"
  /\ IF AlreadyOpen(camera[t])
     THEN Done(t) /\ UNCHANGED camera_map_
     ELSE /\ camera_map_' = [camera_map_ EXCEPT ![camera[t]] = "opening"]
          /\ Move(t, "opening")
  /\ UNCHANGED <<serviceVars, cameraMaps, stopping, camera, todo, manners>>

Opened(t) ==
  /\ pc[t] = "opening"
  /\ \/ /\ camera_map_' = [camera_map_ EXCEPT ![camera[t]] = "open"]
        /\ Move(t, "opened")
     \/ /\ camera_map_' = [camera_map_ EXCEPT ![camera[t]] = "closed"]
        /\ Done(t)
  /\ UNCHANGED <<serviceVars, cameraMaps, stopping, camera, todo, manners>>

\* The others are told, the client becomes the owner.
Started(t) ==
  /\ pc[t] = "opened"
  /\ Emplace(Client(t), camera[t], "owner")
  /\ Done(t)
  /\ UNCHANGED <<serviceVars, clients, camera_map_, stopping, camera, todo, manners>>

-----------------------------------------------------------------------------
(* RecorderImpl::StopCamera, under stop_camera_lock_ throughout.           *)

Slaves(k) == {c \in known : cameras[c][k] = "slave"}

\* A slave leaves, or an owner announces that it closes the camera.
Stop(t) ==
  LET c == Client(t) k == camera[t] IN
  /\ pc[t] = "stop" /\ stopping = None
  /\ \/ /\ ~ClientValid(c)
        /\ Done(t) /\ UNCHANGED <<known, cameras, stopping>>
     \/ /\ ClientValid(c) /\ IsCameraOwned(c, k)
        /\ Erase(c, k)
        /\ Done(t) /\ UNCHANGED stopping
     \/ /\ ClientValid(c) /\ ~IsCameraOwned(c, k) /\ ~IsCameraValid(c, k)
        /\ Done(t) /\ UNCHANGED <<known, cameras, stopping>>
     \/ /\ ClientValid(c) /\ ~IsCameraOwned(c, k) /\ IsCameraValid(c, k)
        /\ stopping' = t
        /\ Move(t, "closing") /\ UNCHANGED <<known, cameras>>
  /\ UNCHANGED <<serviceVars, clients, camera_map_, camera, todo, manners>>

SlavesGone(k) == Slaves(k) = {}

\* slave_camera_closed_.WaitFor: the slaves are gone, or it times out.
StopWaits(t) ==
  /\ pc[t] = "closing"
  /\ IF SlavesGone(camera[t])
     THEN Move(t, "close") /\ UNCHANGED stopping
     ELSE Done(t) /\ stopping' = None
  /\ UNCHANGED <<serviceVars, cameraMaps, camera_map_, camera, todo, manners>>

\* CameraSource::StopCamera, which may fail.
CloseCamera(t) ==
  /\ pc[t] = "close"
  /\ \/ /\ camera_map_[camera[t]] # "closed"
        /\ camera_map_' = [camera_map_ EXCEPT ![camera[t]] = "closed"]
        /\ Move(t, "closed")
        /\ UNCHANGED stopping
     \/ /\ UNCHANGED camera_map_
        /\ Done(t)
        /\ stopping' = None
  /\ UNCHANGED <<serviceVars, cameraMaps, camera, todo, manners>>

Stopped(t) ==
  /\ pc[t] = "closed"
  /\ Erase(Client(t), camera[t])
  /\ Done(t)
  /\ stopping' = None
  /\ UNCHANGED <<serviceVars, clients, camera_map_, camera, todo, manners>>

-----------------------------------------------------------------------------
(* ClientDeathHandler: DisconnectInternal and DeRegisterClient(.., true),  *)
(* which hold the service's lock_ throughout.                              *)

\* Buffers are returned and sessions deleted; client_session_map_ forgets
\* the client.
CleanUpSessions(c) ==
  /\ user[c] = "dead" /\ c \in callbacks /\ lock_ = None
  /\ lock_' = c
  /\ clients' = clients \ {c}
  /\ Move(<<c, "death">>, "copy")
  /\ UNCHANGED <<user, recorder_, callbacks, known, cameras, camera_map_,
                 stopping, camera, todo, manners>>

CopyCameras(c) ==
  /\ pc[<<c, "death">>] = "copy"
  /\ todo' = {k \in Cameras : cameras[c][k] # "no"}
  /\ Move(<<c, "death">>, "cameras")
  /\ UNCHANGED <<serviceVars, cameraMaps, camera_map_, stopping, camera, manners>>

\* StopCamera for each camera of the client.
CleanUpCamera(c, k) ==
  LET t == <<c, "death">> IN
  /\ pc[t] = "cameras"
  /\ k \in todo
  /\ todo' = todo \ {k}
  /\ Move(t, "stop")
  /\ camera' = [camera EXCEPT ![t] = k]
  /\ UNCHANGED <<serviceVars, cameraMaps, camera_map_, stopping, manners>>

\* The entry is erased whether or not the cameras were closed.
CleanUpDone(c) ==
  /\ pc[<<c, "death">>] = "cameras"
  /\ todo = {}
  /\ Leave(c, known \ {c}, [cameras EXCEPT ![c] = NoCameras], clients)
  /\ UNCHANGED <<camera, todo, manners>>

Thread(t) ==
  \/ Start(t) \/ StartSlave(t) \/ SlaveAdded(t) \/ OpenCamera(t) \/ Opened(t)
  \/ Started(t) \/ Stop(t) \/ StopWaits(t) \/ CloseCamera(t) \/ Stopped(t)

CamerasNext ==
  \/ \E c \in Clients : \/ Connect(c) \/ Disconnect(c) \/ ClientDies(c)
                        \/ CleanUpSessions(c) \/ CopyCameras(c)
                        \/ CleanUpDone(c)
  \/ \E c \in Clients, k \in Cameras :
       \/ \E to \in {"start", "startSlave", "stop"} : CallCamera(c, k, to)
       \/ CleanUpCamera(c, k)
  \/ \E t \in Threads : Thread(t)

CamerasSpec == CamerasInit /\ [][CamerasNext]_cameraVars

-----------------------------------------------------------------------------
Owns(c, k) == c \in known /\ cameras[c][k] = "owner"

\* A thread of the client has closed the camera and is about to erase it.
IsClosing(c, k) ==
  \E t \in Threads : Client(t) = c /\ pc[t] = "closed" /\ camera[t] = k

\* However the calls of the clients interleave, StartCamera never makes two clients
\* the owner of a camera; an owner may overlap only with one whose StopCamera has
\* closed the camera and has yet to erase its entry.  And a client that owns a camera
\* in client_cameraid_map_ has it open in CameraSource, until its own StopCamera
\* closes it: no other client's StartCamera, StopCamera, Disconnect or death does.
\* Nor does a camera stay open for nobody, as long as every client lives, stops its
\* cameras before it disconnects, and does without slave mode: it belongs to a client,
\* or the StartCamera that opened it is about to say so.
OwnershipIsSound ==
  \A k \in Cameras :
    /\ \A c \in Clients : Owns(c, k) /\ ~IsClosing(c, k) =>
         /\ camera_map_[k] = "open"
         /\ \A d \in Clients : Owns(d, k) /\ ~IsClosing(d, k) => c = d
    /\ manners = {} /\ camera_map_[k] = "open" =>
         \/ \E c \in Clients : Owns(c, k)
         \/ \E t \in Threads : pc[t] = "opened" /\ camera[t] = k

\* "Close the cameras owned by the client.": the StopCamera that the cleanup
\* issues for a camera the dead client owns gets as far as closing it.
CleanUpReachesCamera ==
  [][\A c \in Clients : LET t == <<c, "death">> IN
       pc[t] = "stop" /\ pc'[t] # "stop" /\ Owns(c, camera[t])
         => pc'[t] = "closing"]_cameraVars

=============================================================================
