----------------------- MODULE RecorderCameras_proofs -----------------------
(***************************************************************************)
(* OwnershipIsSound for any number of clients and cameras.                 *)
(***************************************************************************)
EXTENDS RecorderCameras, TLAPS

Caller(c) == <<c, "call">>
Burial(c) == <<c, "death">>

Places == {"idle", "start", "startSlave", "slave", "open", "opening", "opened", "stop",
           "closing", "close", "closed", "copy", "cameras", "lost"}

CamerasType ==
  /\ user \in [Clients -> {"new", "connected", "dead", "gone"}]
  /\ lock_ \in Clients \cup {None}
  /\ callbacks \subseteq Clients /\ clients \subseteq Clients /\ known \subseteq Clients
  /\ cameras \in [Clients -> [Cameras -> {"no", "slave", "owner"}]]
  /\ camera_map_ \in [Cameras -> {"closed", "opening", "open"}]
  /\ stopping \in Threads \cup {None}
  /\ pc \in [Threads -> Places]
  /\ camera \in [Threads -> Cameras]
  /\ todo \subseteq Cameras

\* A thread that buries a client has lock_, and its client is forgotten: it never
\* gets past the checks of StopCamera.
Burials ==
  \A c \in Clients :
    /\ pc[Burial(c)] \in {"idle", "copy", "cameras", "stop"}
    /\ pc[Burial(c)] # "idle" => lock_ = c /\ user[c] = "dead" /\ c \notin clients

\* A client without an entry has no cameras.
Entries == \A c \in Clients : c \notin known => cameras[c] = NoCameras

\* Who closes a camera has stop_camera_lock_ and owns the camera; the cleanup of its
\* client still has that camera to stop, for which it needs the lock.
ClosingOf(c) ==
  LET t == Caller(c) IN
  /\ pc[t] \in {"closing", "close", "closed"} => stopping = t
  /\ pc[t] \in {"closing", "close"} =>
       /\ Owns(c, camera[t])
       /\ pc[Burial(c)] = "cameras" => camera[t] \in todo
       /\ pc[Burial(c)] = "stop" => camera[t] \in todo \cup {camera[Burial(c)]}
Closing == \A c \in Clients : ClosingOf(c)

Opens(c, k) == pc[Caller(c)] \in {"opening", "opened"} /\ camera[Caller(c)] = k
Closed(c, k) == pc[Caller(c)] = "closed" /\ camera[Caller(c)] = k
Keeps(c, k) == Owns(c, k) /\ ~Closed(c, k)
Claims(c, k) == Opens(c, k) \/ Keeps(c, k)

\* A camera has one claim at most: it is being opened, or opened and about to be
\* recorded, or recorded and not closed.  It is open, or opening, as the claim says.
OneClaim ==
  \A k \in Cameras, c \in Clients : Claims(c, k) =>
    /\ \A d \in Clients : Claims(d, k) => c = d
    /\ ~(Opens(c, k) /\ Keeps(c, k))
    /\ camera_map_[k] =
         IF Opens(c, k) /\ pc[Caller(c)] = "opening" THEN "opening" ELSE "open"

\* What manners says.
Orderly ==
  manners = {} =>
    \A c \in Clients : /\ user[c] # "dead"
                       /\ pc[Caller(c)] \notin {"startSlave", "slave"}
                       /\ \A k \in Cameras : cameras[c][k] # "slave"

\* While everybody behaves, an open camera has a claim.
Attended ==
  manners = {} =>
    \A k \in Cameras : camera_map_[k] = "open" => \E c \in Clients : Claims(c, k)

IInv == CamerasType /\ Burials /\ Entries /\ Closing /\ OneClaim /\ Orderly /\ Attended

-----------------------------------------------------------------------------
\* The two threads of a client.
LEMMA ThreadsOf ==
  /\ \A c \in Clients : Caller(c) \in Threads /\ Burial(c) \in Threads
                        /\ Caller(c) # None /\ Burial(c) # None
  /\ \A t \in Threads : \E c \in Clients : t = Caller(c) \/ t = Burial(c)
  /\ \A c, d \in Clients : /\ Caller(c) # Burial(d)
                           /\ Caller(c) = Caller(d) => c = d
                           /\ Burial(c) = Burial(d) => c = d
  /\ \A c \in Clients : Client(Caller(c)) = c /\ Client(Burial(c)) = c
  /\ \A c \in Clients : Back(Caller(c)) = "idle" /\ Back(Burial(c)) = "cameras"
BY CamerasAssumption DEF Threads, Caller, Burial, Client, Back

\* Nothing is open or known at first.
LEMMA InitIInv == CamerasInit => IInv
<1> SUFFICES ASSUME CamerasInit PROVE IInv
  OBVIOUS
<1>1. CamerasType
  BY CamerasAssumption DEF CamerasInit, CamerasType, Places, NoCameras
<1>2. \A t \in Threads : pc[t] = "idle"
  BY DEF CamerasInit
<1>3. Burials /\ Entries /\ Closing
  BY <1>2, ThreadsOf DEF CamerasInit, Burials, Entries, Closing, ClosingOf
<1>4. \A c \in Clients, k \in Cameras : ~Claims(c, k)
  BY <1>2, ThreadsOf DEF CamerasInit, Claims, Opens, Keeps, Owns
<1>5. OneClaim /\ Orderly /\ Attended
  BY <1>2, <1>4, ThreadsOf DEF CamerasInit, OneClaim, Orderly, Attended, NoCameras
<1> QED
  BY <1>1, <1>3, <1>5 DEF IInv

-----------------------------------------------------------------------------
(* What a step has to leave alone.                                         *)

\* A call that is not closing a camera.
LEMMA NotClosing ==
  ASSUME NEW c \in Clients, pc'[Caller(c)] \notin {"closing", "close", "closed"}
  PROVE  ClosingOf(c)'
BY DEF ClosingOf

\* A step that concerns neither the client's threads nor its cameras.
LEMMA ClosingStays ==
  ASSUME NEW c \in Clients, ClosingOf(c), camera[Caller(c)] \in Cameras,
         pc'[Caller(c)] = pc[Caller(c)], pc'[Burial(c)] = pc[Burial(c)],
         camera'[Caller(c)] = camera[Caller(c)], camera'[Burial(c)] = camera[Burial(c)],
         \A k \in Cameras : Owns(c, k) => Owns(c, k)',
         UNCHANGED <<stopping, todo>>
  PROVE  ClosingOf(c)'
BY DEF ClosingOf

\* A step that changes no claim.
LEMMA ClaimsStay ==
  ASSUME OneClaim, Attended, UNCHANGED camera_map_, manners' = {} => manners = {},
         \A c \in Clients, k \in Cameras :
           /\ Opens(c, k)' <=> Opens(c, k)
           /\ Keeps(c, k)' <=> Keeps(c, k)
           /\ Opens(c, k) => pc'[Caller(c)] = pc[Caller(c)]
  PROVE  OneClaim' /\ Attended'
<1>1. \A c \in Clients, k \in Cameras : Claims(c, k)' <=> Claims(c, k)
  BY DEF Claims
<1>2. OneClaim'
  BY <1>1 DEF OneClaim
<1>3. Attended'
  BY <1>1 DEF Attended
<1> QED
  BY <1>2, <1>3

\* A step that concerns the claims to one camera, which are one client's afterwards.
LEMMA ClaimsMove ==
  ASSUME OneClaim, Attended, NEW c \in Clients, NEW k \in Cameras,
         manners' = {} => manners = {},
         \A d \in Clients, j \in Cameras : j # k =>
           /\ Opens(d, j)' <=> Opens(d, j)
           /\ Keeps(d, j)' <=> Keeps(d, j)
           /\ Opens(d, j) => pc'[Caller(d)] = pc[Caller(d)]
           /\ camera_map_'[j] = camera_map_[j],
         \A d \in Clients : d # c => ~Claims(d, k)',
         ~(Opens(c, k)' /\ Keeps(c, k)'),
         Opens(c, k)' => camera_map_'[k] = IF pc'[Caller(c)] = "opening"
                                           THEN "opening" ELSE "open",
         Keeps(c, k)' => camera_map_'[k] = "open",
         manners' = {} /\ camera_map_'[k] = "open" => Claims(c, k)'
  PROVE  OneClaim' /\ Attended'
<1>1. \A d \in Clients, j \in Cameras : j # k => (Claims(d, j)' <=> Claims(d, j))
  BY DEF Claims
<1>2. Attended'
  BY <1>1 DEF Attended
<1>3. SUFFICES ASSUME NEW j \in Cameras, NEW d \in Clients, Claims(d, j)'
               PROVE  /\ \A e \in Clients : Claims(e, j)' => d = e
                      /\ ~(Opens(d, j)' /\ Keeps(d, j)')
                      /\ camera_map_'[j] = IF Opens(d, j)' /\ pc'[Caller(d)] = "opening"
                                           THEN "opening" ELSE "open"
  BY <1>2 DEF OneClaim
<1>4. CASE j = k
  BY <1>3, <1>4 DEF Claims
<1>5. CASE j # k
  <2>1. Claims(d, j)
    BY <1>1, <1>3, <1>5
  <2>2. /\ \A e \in Clients : Claims(e, j) => d = e
        /\ ~(Opens(d, j) /\ Keeps(d, j))
        /\ camera_map_[j] = IF Opens(d, j) /\ pc[Caller(d)] = "opening"
                            THEN "opening" ELSE "open"
    BY <2>1 DEF OneClaim
  <2> QED
    BY <1>1, <1>5, <2>2
<1> QED
  BY <1>4, <1>5

-----------------------------------------------------------------------------
\* A step of a call moves the thread of its client, and no other.
LEMMA CallMoves ==
  ASSUME CamerasType, NEW c \in Clients, NEW to \in Places, Move(Caller(c), to)
  PROVE  /\ pc' \in [Threads -> Places] /\ pc'[Caller(c)] = to
         /\ \A d \in Clients \ {c} : pc'[Caller(d)] = pc[Caller(d)]
         /\ \A d \in Clients : pc'[Burial(d)] = pc[Burial(d)]
<1>1. pc \in [Threads -> Places] /\ Caller(c) \in Threads
  BY ThreadsOf DEF CamerasType
<1>2. pc' = [pc EXCEPT ![Caller(c)] = to]
  BY DEF Move
<1>3. \A u \in Threads : u # Caller(c) => pc'[u] = pc[u]
  BY <1>1, <1>2
<1> QED
  BY <1>1, <1>2, <1>3, ThreadsOf

\* A step of a cleanup moves the thread that buries its client, and no other.
LEMMA BurialMoves ==
  ASSUME CamerasType, NEW c \in Clients, NEW to \in Places, Move(Burial(c), to)
  PROVE  /\ pc' \in [Threads -> Places] /\ pc'[Burial(c)] = to
         /\ \A d \in Clients \ {c} : pc'[Burial(d)] = pc[Burial(d)]
         /\ \A d \in Clients : pc'[Caller(d)] = pc[Caller(d)]
<1>1. pc \in [Threads -> Places] /\ Burial(c) \in Threads
  BY ThreadsOf DEF CamerasType
<1>2. pc' = [pc EXCEPT ![Burial(c)] = to]
  BY DEF Move
<1>3. \A u \in Threads : u # Burial(c) => pc'[u] = pc[u]
  BY <1>1, <1>2
<1> QED
  BY <1>1, <1>2, <1>3, ThreadsOf

\* A step of one client's call as the other clients see it.
LEMMA OthersStay ==
  ASSUME IInv, NEW c \in Clients, NEW to \in Places, Move(Caller(c), to),
         UNCHANGED <<serviceVars, clients, camera, todo>>,
         stopping' = stopping \/ stopping \in {None, Caller(c)},
         \A d \in Clients, k \in Cameras : d # c => (Owns(d, k)' <=> Owns(d, k))
  PROVE  /\ pc' \in [Threads -> Places] /\ pc'[Caller(c)] = to
         /\ pc'[Burial(c)] = pc[Burial(c)] /\ camera[Caller(c)] \in Cameras
         /\ Burials'
         /\ \A d \in Clients : d # c => ClosingOf(d)'
         /\ \A d \in Clients : d # c => pc'[Caller(d)] = pc[Caller(d)]
         /\ \A d \in Clients, k \in Cameras : d # c =>
              (Opens(d, k)' <=> Opens(d, k)) /\ (Keeps(d, k)' <=> Keeps(d, k))
<1> USE DEF IInv, serviceVars
<1>1. /\ pc' \in [Threads -> Places] /\ pc'[Caller(c)] = to
      /\ \A d \in Clients \ {c} : pc'[Caller(d)] = pc[Caller(d)]
      /\ \A d \in Clients : pc'[Burial(d)] = pc[Burial(d)]
  BY CallMoves
<1>2. \A d \in Clients : camera[Caller(d)] \in Cameras
  BY ThreadsOf DEF CamerasType
<1>3. Burials'
  BY <1>1 DEF Burials
<1>4. ASSUME NEW d \in Clients, d # c
      PROVE  ClosingOf(d)'
  <2>1. ClosingOf(d) /\ pc'[Caller(d)] = pc[Caller(d)] /\ pc'[Burial(d)] = pc[Burial(d)]
    BY <1>1, <1>4 DEF Closing
  <2>2. CASE pc[Caller(d)] \in {"closing", "close", "closed"}
    <3>1. stopping = Caller(d)
      BY <2>1, <2>2 DEF ClosingOf
    <3>2. stopping' = stopping
      BY <1>4, <3>1, ThreadsOf
    <3> QED
      BY <1>2, <1>4, <2>1, <3>2, ClosingStays
  <2>3. CASE pc[Caller(d)] \notin {"closing", "close", "closed"}
    BY <2>1, <2>3, NotClosing
  <2> QED
    BY <2>2, <2>3
<1>5. ASSUME NEW d \in Clients, NEW k \in Cameras, d # c
      PROVE  (Opens(d, k)' <=> Opens(d, k)) /\ (Keeps(d, k)' <=> Keeps(d, k))
  BY <1>1, <1>5 DEF Opens, Keeps, Closed
<1> QED
  BY <1>1, <1>2, <1>3, <1>4, <1>5

\* Places of a call in which it neither opens nor closes a camera.
Aside == {"idle", "start", "startSlave", "slave", "open", "stop", "lost"}

\* A call that moves between such places keeps the invariant, if it changes at most
\* its client's entry for a camera the client does not own.
LEMMA AsideKeeps ==
  ASSUME IInv, NEW c \in Clients, NEW to \in Aside, Move(Caller(c), to),
         pc[Caller(c)] \in Aside,
         to \in {"startSlave", "slave"} => manners # {},
         Entries', known' \subseteq Clients,
         cameras' \in [Clients -> [Cameras -> {"no", "slave", "owner"}]],
         \A d \in Clients, k \in Cameras : Owns(d, k)' <=> Owns(d, k),
         \A d \in Clients, k \in Cameras :
           cameras'[d][k] = "slave" => manners # {},
         UNCHANGED <<serviceVars, clients, camera_map_, stopping, camera, todo, manners>>
  PROVE  IInv'
<1> USE DEF IInv
<1>1. to \in Places /\ to \notin {"opening", "opened", "closing", "close", "closed"}
  BY DEF Aside, Places
<1>2. /\ pc' \in [Threads -> Places] /\ pc'[Caller(c)] = to
      /\ Burials'
      /\ \A d \in Clients : d # c => ClosingOf(d)'
      /\ \A d \in Clients : d # c => pc'[Caller(d)] = pc[Caller(d)]
      /\ \A d \in Clients, k \in Cameras : d # c =>
           (Opens(d, k)' <=> Opens(d, k)) /\ (Keeps(d, k)' <=> Keeps(d, k))
  BY <1>1, OthersStay
<1>3. CamerasType'
  BY <1>2 DEF CamerasType, serviceVars
<1>4. Closing'
  BY <1>1, <1>2, NotClosing DEF Closing
<1>5. \A k \in Cameras :
        ~Opens(c, k) /\ ~Opens(c, k)' /\ (Keeps(c, k)' <=> Keeps(c, k))
  BY <1>1, <1>2 DEF Opens, Keeps, Closed, Aside
<1>6. \A d \in Clients, k \in Cameras :
        /\ Opens(d, k)' <=> Opens(d, k)
        /\ Keeps(d, k)' <=> Keeps(d, k)
        /\ Opens(d, k) => pc'[Caller(d)] = pc[Caller(d)]
  BY <1>2, <1>5
<1>7. OneClaim' /\ Attended'
  BY <1>6, ClaimsStay
<1>8. Orderly'
  BY <1>2 DEF Orderly, serviceVars
<1> QED
  BY <1>2, <1>3, <1>4, <1>7, <1>8

\* The same when it changes nothing but its place.
LEMMA PlaceKeeps ==
  ASSUME IInv, NEW c \in Clients, NEW to \in Aside, Move(Caller(c), to),
         pc[Caller(c)] \in Aside,
         to \in {"startSlave", "slave"} => manners # {},
         UNCHANGED <<serviceVars, cameraMaps, camera_map_, stopping, camera, todo, manners>>
  PROVE  IInv'
<1> USE DEF IInv, cameraMaps
<1>1. \A d \in Clients, k \in Cameras : Owns(d, k)' <=> Owns(d, k)
  BY DEF Owns
<1>2. Entries' /\ known' \subseteq Clients
  BY DEF Entries, CamerasType, NoCameras
<1>3. cameras' \in [Clients -> [Cameras -> {"no", "slave", "owner"}]]
  BY DEF CamerasType
<1>4. \A d \in Clients, k \in Cameras : cameras'[d][k] = "slave" => manners # {}
  BY DEF Orderly
<1> QED
  BY <1>1, <1>2, <1>3, <1>4, AsideKeeps

-----------------------------------------------------------------------------
(* Clients come and call.                                                  *)

\* A step that leaves the threads, the cameras and their owners alone.
LEMMA ThreadsStay ==
  ASSUME IInv, UNCHANGED <<camera_map_, stopping, pc, camera, todo>>,
         manners' = {} => manners = {},
         \A c \in Clients, k \in Cameras : Owns(c, k)' <=> Owns(c, k)
  PROVE  Closing' /\ OneClaim' /\ Attended'
<1> USE DEF IInv
<1>1. \A c \in Clients : camera[Caller(c)] \in Cameras
  BY ThreadsOf DEF CamerasType
<1>2. Closing'
  BY <1>1, ClosingStays DEF Closing
<1>3. \A c \in Clients, k \in Cameras :
        /\ Opens(c, k)' <=> Opens(c, k)
        /\ Keeps(c, k)' <=> Keeps(c, k)
  BY DEF Opens, Keeps, Closed
<1> QED
  BY <1>2, <1>3, ClaimsStay

LEMMA ConnectKeeps ==
  ASSUME IInv, NEW c \in Clients, Connect(c)
  PROVE  IInv'
<1> USE DEF IInv
<1>1. CamerasType'
  BY DEF Connect, CamerasType
<1>2. Burials'
  BY DEF Connect, Burials, CamerasType
<1>3. Entries'
  BY DEF Connect, Entries, NoCameras
<1>4. \A d \in Clients, k \in Cameras : Owns(d, k)' <=> Owns(d, k)
  BY DEF Connect, Entries, NoCameras, Owns
<1>5. Closing' /\ OneClaim' /\ Attended'
  BY <1>4, ThreadsStay DEF Connect
<1>6. Orderly'
  BY DEF Connect, Orderly, CamerasType
<1> QED
  BY <1>1, <1>2, <1>3, <1>5, <1>6

LEMMA DieKeeps ==
  ASSUME IInv, NEW c \in Clients, ClientDies(c)
  PROVE  IInv'
<1> USE DEF IInv, cameraMaps
<1>1. CamerasType'
  BY DEF ClientDies, CamerasType
<1>2. Burials' /\ Entries'
  BY DEF ClientDies, Burials, Entries, CamerasType, NoCameras
<1>3. \A d \in Clients, k \in Cameras : Owns(d, k)' <=> Owns(d, k)
  BY DEF ClientDies, Owns
<1>4. manners' # {}
  BY DEF ClientDies
<1>5. Closing' /\ OneClaim' /\ Attended'
  BY <1>3, <1>4, ThreadsStay DEF ClientDies
<1>6. Orderly'
  BY <1>4 DEF Orderly
<1> QED
  BY <1>1, <1>2, <1>5, <1>6

LEMMA CallKeeps ==
  ASSUME IInv, NEW c \in Clients, NEW k \in Cameras,
         NEW to \in {"start", "startSlave", "stop"}, CallCamera(c, k, to)
  PROVE  IInv'
<1> USE DEF IInv, serviceVars, cameraMaps
<1>1. /\ Move(Caller(c), to) /\ pc[Caller(c)] = "idle"
      /\ camera' = [camera EXCEPT ![Caller(c)] = k]
      /\ manners' = {} => manners = {} /\ to # "startSlave"
      /\ UNCHANGED <<serviceVars, cameraMaps, camera_map_, stopping, todo>>
  BY DEF CallCamera, Caller
<1>2. /\ pc' \in [Threads -> Places] /\ pc'[Caller(c)] = to
      /\ \A d \in Clients \ {c} : pc'[Caller(d)] = pc[Caller(d)]
      /\ \A d \in Clients : pc'[Burial(d)] = pc[Burial(d)]
  BY <1>1, CallMoves DEF Places
<1>3. /\ camera' \in [Threads -> Cameras]
      /\ \A d \in Clients : d # c => camera'[Caller(d)] = camera[Caller(d)]
      /\ \A d \in Clients : camera'[Burial(d)] = camera[Burial(d)]
      /\ \A d \in Clients : camera[Caller(d)] \in Cameras
  BY <1>1, ThreadsOf DEF CamerasType
<1>4. CamerasType'
  BY <1>1, <1>2, <1>3 DEF CamerasType
<1>5. Burials' /\ Entries'
  BY <1>1, <1>2 DEF Burials, Entries, NoCameras
<1>6. \A d \in Clients, j \in Cameras : Owns(d, j)' <=> Owns(d, j)
  BY <1>1 DEF Owns
<1>7. ASSUME NEW d \in Clients PROVE ClosingOf(d)'
  <2>1. CASE d = c
    BY <1>2, <2>1, NotClosing
  <2>2. CASE d # c
    BY <1>1, <1>2, <1>3, <1>6, <2>2, ClosingStays DEF Closing
  <2> QED
    BY <2>1, <2>2
<1>8. \A d \in Clients, j \in Cameras :
        /\ Opens(d, j)' <=> Opens(d, j)
        /\ Keeps(d, j)' <=> Keeps(d, j)
        /\ Opens(d, j) => pc'[Caller(d)] = pc[Caller(d)]
  BY <1>1, <1>2, <1>3, <1>6 DEF Opens, Keeps, Closed
<1>9. OneClaim' /\ Attended'
  BY <1>1, <1>8, ClaimsStay
<1>10. Orderly'
  BY <1>1, <1>2 DEF Orderly
<1> QED
  BY <1>4, <1>5, <1>7, <1>9, <1>10 DEF Closing

-----------------------------------------------------------------------------
(* Clients leave.                                                          *)

\* The last client to leave takes everything along.
LEMMA LastLeaves ==
  ASSUME IInv, NEW c \in Clients, NEW kn, NEW cams, NEW reg, Leave(c, kn, cams, reg),
         callbacks = {c}, lock_ \in {None, c}, UNCHANGED <<camera, todo>>,
         manners' = {} => manners = {}
  PROVE  IInv'
<1> USE DEF IInv
<1>1. /\ pc' = [t \in Threads |-> IF t = Burial(c) THEN "idle"
                                  ELSE IF pc[t] # "idle" THEN "lost" ELSE pc[t]]
      /\ callbacks' = {} /\ clients' = {} /\ known' = {} /\ stopping' = None
      /\ cameras' = [d \in Clients |-> NoCameras]
      /\ camera_map_' = [k \in Cameras |-> "closed"]
      /\ user' = [user EXCEPT ![c] = "gone"] /\ lock_' = None
  BY DEF Leave, Burial
<1>2. \A t \in Threads : pc'[t] \in {"idle", "lost"}
  BY <1>1
<1>3. CamerasType'
  BY <1>1 DEF CamerasType, Places, NoCameras
<1>4. \A d \in Clients : d # c => pc[Burial(d)] = "idle"
  BY CamerasAssumption DEF Burials
<1>5. \A d \in Clients : pc'[Burial(d)] = "idle"
  BY <1>1, <1>4, ThreadsOf
<1>6. Burials' /\ Entries'
  BY <1>1, <1>5 DEF Burials, Entries, NoCameras
<1>7. Closing'
  BY <1>2, ThreadsOf, NotClosing DEF Closing
<1>8. \A d \in Clients, k \in Cameras : ~Claims(d, k)' /\ camera_map_'[k] = "closed"
  BY <1>1, <1>2, ThreadsOf DEF Claims, Opens, Keeps, Owns
<1>9. OneClaim' /\ Attended'
  BY <1>1, <1>8 DEF OneClaim, Attended
<1>10. Orderly'
  BY <1>1, <1>2, ThreadsOf DEF Orderly, NoCameras, CamerasType
<1> QED
  BY <1>3, <1>6, <1>7, <1>9, <1>10

\* When another client stays, nothing but the leaver's entry changes.
LEMMA OneLeaves ==
  ASSUME IInv, NEW c \in Clients, NEW kn \in SUBSET Clients,
         NEW cams \in [Clients -> [Cameras -> {"no", "slave", "owner"}]],
         Leave(c, kn, cams, clients), callbacks # {c}, lock_ \in {None, c},
         UNCHANGED <<camera, todo>>
  PROVE  /\ CamerasType' /\ Burials'
         /\ \A d \in Clients : pc'[Caller(d)] = pc[Caller(d)] /\ pc'[Burial(d)] = "idle"
         /\ known' = kn /\ cameras' = cams /\ user' = [user EXCEPT ![c] = "gone"]
         /\ UNCHANGED <<camera_map_, stopping>>
<1> USE DEF IInv
<1>1. /\ pc' = [t \in Threads |-> IF t = Burial(c) THEN "idle" ELSE pc[t]]
      /\ callbacks' = callbacks \ {c} /\ clients' = clients
      /\ known' = kn /\ cameras' = cams
      /\ user' = [user EXCEPT ![c] = "gone"] /\ lock_' = None
      /\ UNCHANGED <<camera_map_, stopping>>
  BY DEF Leave, Burial
<1>2. CamerasType'
  BY <1>1 DEF CamerasType, Places
<1>3. \A d \in Clients : pc'[Caller(d)] = pc[Caller(d)]
  BY <1>1, ThreadsOf
<1>4. \A d \in Clients : d # c => pc[Burial(d)] = "idle"
  BY CamerasAssumption DEF Burials
<1>5. \A d \in Clients : pc'[Burial(d)] = "idle"
  BY <1>1, <1>4, ThreadsOf
<1>6. Burials'
  BY <1>5 DEF Burials
<1> QED
  BY <1>1, <1>2, <1>3, <1>5, <1>6

\* A cleanup or a departure keeps what calls are closing, if it leaves their owners.
LEMMA LeaverClosing ==
  ASSUME IInv, NEW c \in Clients, UNCHANGED <<camera, todo, stopping>>,
         \A d \in Clients : pc'[Caller(d)] = pc[Caller(d)] /\ pc'[Burial(d)] = "idle",
         \A k \in Cameras : pc[Caller(c)] \in {"closing", "close"} => Owns(c, k)',
         \A d \in Clients, k \in Cameras : d # c => (Owns(d, k)' <=> Owns(d, k))
  PROVE  Closing'
<1>1. \A d \in Clients : camera[Caller(d)] \in Cameras
  BY ThreadsOf DEF IInv, CamerasType
<1> QED
  BY <1>1 DEF IInv, Closing, ClosingOf

\* A client that disconnects keeps the cameras it did not stop.
LEMMA DisconnectKeeps ==
  ASSUME IInv, NEW c \in Clients, Disconnect(c)
  PROVE  IInv'
<1> DEFINE kn == IF cameras[c] = NoCameras THEN known \ {c} ELSE known
<1> USE DEF IInv
<1>1. /\ Leave(c, kn, cameras, clients) /\ lock_ = None /\ UNCHANGED <<camera, todo>>
      /\ pc[Caller(c)] = "idle"
  BY DEF Disconnect, Caller
<1>2. manners' = {} => manners = {} /\ cameras[c] = NoCameras
  BY DEF Disconnect
<1>3. CASE callbacks = {c}
  BY <1>1, <1>2, <1>3, LastLeaves
<1>4. CASE callbacks # {c}
  <2>1. kn \in SUBSET Clients /\ cameras \in [Clients -> [Cameras -> {"no", "slave", "owner"}]]
    BY DEF CamerasType
  <2>2. /\ CamerasType' /\ Burials'
        /\ \A d \in Clients : pc'[Caller(d)] = pc[Caller(d)] /\ pc'[Burial(d)] = "idle"
        /\ known' = kn /\ cameras' = cameras /\ user' = [user EXCEPT ![c] = "gone"]
        /\ UNCHANGED <<camera_map_, stopping>>
    BY <1>1, <1>4, <2>1, OneLeaves
  <2>3. Entries'
    BY <2>2 DEF Entries, NoCameras
  <2>4. \A d \in Clients, k \in Cameras : Owns(d, k)' <=> Owns(d, k)
    BY <2>2 DEF Owns, NoCameras
  <2>5. Closing'
    BY <1>1, <2>2, <2>4, LeaverClosing
  <2>6. \A d \in Clients, k \in Cameras :
          (Opens(d, k)' <=> Opens(d, k)) /\ (Keeps(d, k)' <=> Keeps(d, k))
    BY <1>1, <2>2, <2>4 DEF Opens, Keeps, Closed
  <2>7. OneClaim' /\ Attended'
    BY <1>2, <2>2, <2>6, ClaimsStay
  <2>8. Orderly'
    BY <1>2, <2>2 DEF Orderly, CamerasType
  <2> QED
    BY <2>2, <2>3, <2>5, <2>7, <2>8
<1> QED
  BY <1>3, <1>4

-----------------------------------------------------------------------------
(* Dead clients are buried.                                                *)

\* The thread that buries a client goes from one camera to the next.  A camera whose
\* closing by the client's last call is under way is still to be stopped.
LEMMA BuryingKeeps ==
  ASSUME IInv, NEW c \in Clients, NEW to \in {"copy", "cameras", "stop"},
         Move(Burial(c), to), todo' \subseteq Cameras,
         lock_' = c, user[c] = "dead", c \notin clients', clients' \subseteq clients,
         \A d \in Clients : d # c => pc[Burial(d)] = "idle",
         camera' \in [Threads -> Cameras],
         \A d \in Clients : camera'[Caller(d)] = camera[Caller(d)],
         to # "copy" /\ pc[Caller(c)] \in {"closing", "close"} =>
           \/ camera[Caller(c)] \in todo'
           \/ to = "stop" /\ camera[Caller(c)] = camera'[Burial(c)],
         UNCHANGED <<user, callbacks, known, cameras, camera_map_, stopping, manners>>
  PROVE  IInv'
<1> USE DEF IInv
<1>1. /\ pc' \in [Threads -> Places] /\ pc'[Burial(c)] = to
      /\ \A d \in Clients \ {c} : pc'[Burial(d)] = pc[Burial(d)]
      /\ \A d \in Clients : pc'[Caller(d)] = pc[Caller(d)]
  BY BurialMoves DEF Places
<1>2. CamerasType'
  BY <1>1 DEF CamerasType
<1>3. Burials' /\ Entries'
  BY <1>1 DEF Burials, Entries, NoCameras
<1>4. \A d \in Clients, k \in Cameras : Owns(d, k)' <=> Owns(d, k)
  BY DEF Owns
<1>5. \A d \in Clients : camera[Caller(d)] \in Cameras
  BY ThreadsOf DEF CamerasType
<1>6. ASSUME NEW d \in Clients PROVE ClosingOf(d)'
  <2>1. ClosingOf(d) /\ pc'[Caller(d)] = pc[Caller(d)]
    BY <1>1 DEF Closing
  <2>2. CASE d = c
    BY <1>1, <1>4, <1>5, <2>1, <2>2 DEF ClosingOf
  <2>3. CASE d # c
    <3>1. pc'[Burial(d)] = "idle"
      BY <1>1, <2>3
    <3> QED
      BY <1>4, <1>5, <2>1, <3>1 DEF ClosingOf
  <2> QED
    BY <2>2, <2>3
<1>7. \A d \in Clients, k \in Cameras :
        (Opens(d, k)' <=> Opens(d, k)) /\ (Keeps(d, k)' <=> Keeps(d, k))
  BY <1>1, <1>4 DEF Opens, Keeps, Closed
<1>8. OneClaim' /\ Attended'
  BY <1>1, <1>7, ClaimsStay
<1>9. Orderly'
  BY <1>1 DEF Orderly
<1> QED
  BY <1>2, <1>3, <1>6, <1>8, <1>9 DEF Closing

\* lock_ was free: nobody else is buried.
LEMMA CleanUpSessionsKeeps ==
  ASSUME IInv, NEW c \in Clients, CleanUpSessions(c)
  PROVE  IInv'
<1>1. /\ Move(Burial(c), "copy") /\ lock_ = None /\ user[c] = "dead" /\ lock_' = c
      /\ clients' = clients \ {c}
      /\ UNCHANGED <<user, callbacks, known, cameras, camera_map_, stopping, camera, todo,
                     manners>>
  BY DEF CleanUpSessions, Burial
<1>2. \A d \in Clients : pc[Burial(d)] = "idle"
  BY <1>1, CamerasAssumption DEF IInv, Burials
<1>3. camera' \in [Threads -> Cameras] /\ todo' \subseteq Cameras
  BY <1>1 DEF IInv, CamerasType
<1> QED
  BY <1>1, <1>2, <1>3, BuryingKeeps

\* A burial under way has lock_, and its client is unknown.
LEMMA BurialUnderWay ==
  ASSUME IInv, NEW c \in Clients, pc[Burial(c)] # "idle"
  PROVE  /\ lock_ = c /\ user[c] = "dead" /\ c \notin clients
         /\ \A d \in Clients : d # c => pc[Burial(d)] = "idle"
BY DEF IInv, Burials

LEMMA CopyCamerasKeeps ==
  ASSUME IInv, NEW c \in Clients, CopyCameras(c)
  PROVE  IInv'
<1>1. /\ Move(Burial(c), "cameras") /\ pc[Burial(c)] = "copy"
      /\ todo' = {k \in Cameras : cameras[c][k] # "no"}
      /\ UNCHANGED <<serviceVars, cameraMaps, camera_map_, stopping, camera, manners>>
  BY DEF CopyCameras, Burial
<1>2. camera' \in [Threads -> Cameras] /\ camera[Caller(c)] \in Cameras
  BY <1>1, ThreadsOf DEF IInv, CamerasType
<1>3. pc[Caller(c)] \in {"closing", "close"} => camera[Caller(c)] \in todo'
  BY <1>1, <1>2 DEF IInv, Closing, ClosingOf, Owns
<1> QED
  BY <1>1, <1>2, <1>3, BurialUnderWay, BuryingKeeps DEF serviceVars, cameraMaps

LEMMA CleanUpCameraKeeps ==
  ASSUME IInv, NEW c \in Clients, NEW k \in Cameras, CleanUpCamera(c, k)
  PROVE  IInv'
<1>1. /\ Move(Burial(c), "stop") /\ pc[Burial(c)] = "cameras"
      /\ todo' = todo \ {k} /\ camera' = [camera EXCEPT ![Burial(c)] = k]
      /\ UNCHANGED <<serviceVars, cameraMaps, camera_map_, stopping, manners>>
  BY DEF CleanUpCamera, Burial
<1>2. /\ camera' \in [Threads -> Cameras] /\ camera'[Burial(c)] = k
      /\ \A d \in Clients : camera'[Caller(d)] = camera[Caller(d)]
  BY <1>1, ThreadsOf DEF IInv, CamerasType
<1>3. todo' \subseteq Cameras
  BY <1>1 DEF IInv, CamerasType
<1>4. pc[Caller(c)] \in {"closing", "close"} =>
        camera[Caller(c)] \in todo' \/ camera[Caller(c)] = camera'[Burial(c)]
  BY <1>1, <1>2 DEF IInv, Closing, ClosingOf
<1> QED
  BY <1>1, <1>2, <1>3, <1>4, BurialUnderWay, BuryingKeeps DEF serviceVars, cameraMaps

\* The entry is erased.  No call of the client is closing a camera any more: it would
\* be one of todo, which is empty.
LEMMA CleanUpDoneKeeps ==
  ASSUME IInv, NEW c \in Clients, CleanUpDone(c)
  PROVE  IInv'
<1> DEFINE cams == [cameras EXCEPT ![c] = NoCameras]
<1> USE DEF IInv
<1>1. /\ Leave(c, known \ {c}, cams, clients) /\ pc[Burial(c)] = "cameras" /\ todo = {}
      /\ UNCHANGED <<camera, todo, manners>>
  BY DEF CleanUpDone, Burial
<1>2. lock_ = c /\ manners # {}
  BY <1>1 DEF Burials, Orderly
<1>3. CASE callbacks = {c}
  BY <1>1, <1>2, <1>3, LastLeaves
<1>4. CASE callbacks # {c}
  <2>1. /\ known \ {c} \in SUBSET Clients
        /\ cams \in [Clients -> [Cameras -> {"no", "slave", "owner"}]]
    BY DEF CamerasType, NoCameras
  <2>2. /\ CamerasType' /\ Burials'
        /\ \A d \in Clients : pc'[Caller(d)] = pc[Caller(d)] /\ pc'[Burial(d)] = "idle"
        /\ known' = known \ {c} /\ cameras' = cams
        /\ UNCHANGED <<camera_map_, stopping>>
    BY <1>1, <1>2, <1>4, <2>1, OneLeaves
  <2>3. cams[c] = NoCameras /\ \A d \in Clients : d # c => cams[d] = cameras[d]
    BY DEF CamerasType
  <2> HIDE DEF cams
  <2>4. Entries'
    BY <2>2, <2>3 DEF Entries, NoCameras
  <2>5. \A d \in Clients, k \in Cameras :
          (Owns(d, k)' => d # c) /\ (d # c => (Owns(d, k)' <=> Owns(d, k)))
    BY <2>2, <2>3 DEF Owns
  <2>6. pc[Caller(c)] \notin {"closing", "close"}
    BY <1>1 DEF Closing, ClosingOf
  <2>7. Closing'
    BY <1>1, <2>2, <2>5, <2>6, LeaverClosing
  <2>8. \A d \in Clients, k \in Cameras :
          (Opens(d, k)' <=> Opens(d, k)) /\ (Keeps(d, k)' => Keeps(d, k))
    BY <1>1, <2>2, <2>5 DEF Opens, Keeps, Closed
  <2>9. \A d \in Clients, k \in Cameras : Claims(d, k)' => Claims(d, k)
    BY <2>8 DEF Claims
  <2>10. OneClaim'
    BY <2>2, <2>8, <2>9 DEF OneClaim
  <2>11. Orderly' /\ Attended'
    BY <1>1, <1>2 DEF Orderly, Attended
  <2> QED
    BY <2>2, <2>4, <2>7, <2>10, <2>11
<1> QED
  BY <1>3, <1>4

\* A cleanup's StopCamera is turned away, its client being unknown by then.
LEMMA BurialThreadKeeps ==
  ASSUME IInv, NEW c \in Clients, Thread(Burial(c))
  PROVE  IInv'
<1> DEFINE t == Burial(c)
<1>1. pc[t] \in {"idle", "copy", "cameras", "stop"}
  BY DEF IInv, Burials
<1>2. Stop(t)
  BY <1>1 DEF Thread, Start, StartSlave, SlaveAdded, OpenCamera, Opened, Started, StopWaits,
     CloseCamera, Stopped
<1>3. pc[t] = "stop" /\ stopping = None
  BY <1>2 DEF Stop
<1>4. /\ lock_ = c /\ user[c] = "dead" /\ c \notin clients
      /\ \A d \in Clients : d # c => pc[Burial(d)] = "idle"
  BY <1>3, BurialUnderWay
<1>5. /\ Move(Burial(c), "cameras")
      /\ UNCHANGED <<serviceVars, cameraMaps, camera_map_, stopping, camera, todo, manners>>
  BY <1>2, <1>4, ThreadsOf DEF Stop, ClientValid, Done, cameraMaps
<1>6. pc[Caller(c)] \notin {"closing", "close"}
  BY <1>3, ThreadsOf DEF IInv, Closing, ClosingOf
<1>7. camera' \in [Threads -> Cameras] /\ todo' \subseteq Cameras
  BY <1>5 DEF IInv, CamerasType
<1> QED
  BY <1>4, <1>5, <1>6, <1>7, BuryingKeeps DEF serviceVars, cameraMaps

-----------------------------------------------------------------------------
(* StartCamera.                                                            *)

\* Up to the point where CameraSource is asked.
LEMMA StartKeeps ==
  ASSUME IInv, NEW c \in Clients, Start(Caller(c)) \/ StartSlave(Caller(c))
  PROVE  IInv'
<1>1. PICK to \in {"idle", "open", "slave"} :
        /\ Move(Caller(c), to)
        /\ pc[Caller(c)] \in {"start", "startSlave"}
        /\ to = "slave" => pc[Caller(c)] = "startSlave"
        /\ UNCHANGED <<serviceVars, cameraMaps, camera_map_, stopping, camera, todo, manners>>
  BY ThreadsOf DEF Start, StartSlave, Done
<1>2. to = "slave" => manners # {}
  BY <1>1 DEF IInv, Orderly
<1> QED
  BY <1>1, <1>2, PlaceKeeps DEF Aside

\* What CameraSource does to one camera for a call, without a change of any entry.
LEMMA SourceKeeps ==
  ASSUME IInv, NEW c \in Clients, NEW to \in {"idle", "opening", "opened"},
         Move(Caller(c), to), pc[Caller(c)] \in {"open", "opening"},
         NEW k \in Cameras, camera[Caller(c)] = k,
         NEW as \in {"closed", "opening", "open"},
         camera_map_' = [camera_map_ EXCEPT ![k] = as],
         as = CASE to = "idle" -> "closed" [] to = "opening" -> "opening" [] to = "opened" -> "open",
         \A d \in Clients : d # c => ~Claims(d, k), ~Keeps(c, k),
         UNCHANGED <<serviceVars, cameraMaps, stopping, camera, todo, manners>>
  PROVE  IInv'
<1> USE DEF IInv
<1>1. /\ \A d \in Clients, j \in Cameras : Owns(d, j)' <=> Owns(d, j)
      /\ to \in Places
  BY DEF Owns, cameraMaps, Places
<1>2. /\ pc' \in [Threads -> Places] /\ pc'[Caller(c)] = to
      /\ Burials'
      /\ \A d \in Clients : d # c => ClosingOf(d)'
      /\ \A d \in Clients : d # c => pc'[Caller(d)] = pc[Caller(d)]
      /\ \A d \in Clients, j \in Cameras : d # c =>
           (Opens(d, j)' <=> Opens(d, j)) /\ (Keeps(d, j)' <=> Keeps(d, j))
  BY <1>1, OthersStay DEF cameraMaps
<1>3. /\ camera_map_' \in [Cameras -> {"closed", "opening", "open"}]
      /\ camera_map_'[k] = as
      /\ \A j \in Cameras : j # k => camera_map_'[j] = camera_map_[j]
  BY DEF CamerasType
<1>4. CamerasType'
  BY <1>2, <1>3 DEF CamerasType, serviceVars, cameraMaps
<1>5. Entries'
  BY DEF Entries, cameraMaps, NoCameras
<1>6. Closing'
  BY <1>2, NotClosing DEF Closing
<1>7. /\ \A j \in Cameras : Keeps(c, j)' <=> Keeps(c, j)
      /\ \A j \in Cameras : Opens(c, j)' <=> j = k /\ to # "idle"
      /\ \A j \in Cameras : j # k => ~Opens(c, j)
  BY <1>1, <1>2 DEF Keeps, Closed, Opens
<1>8. \A d \in Clients, j \in Cameras : j # k =>
        /\ Opens(d, j)' <=> Opens(d, j)
        /\ Keeps(d, j)' <=> Keeps(d, j)
        /\ Opens(d, j) => pc'[Caller(d)] = pc[Caller(d)]
        /\ camera_map_'[j] = camera_map_[j]
  BY <1>2, <1>3, <1>7
<1>9. /\ \A d \in Clients : d # c => ~Claims(d, k)'
      /\ Claims(c, k)' <=> to # "idle"
  BY <1>2, <1>7 DEF Claims
<1>10. OneClaim' /\ Attended'
  BY <1>2, <1>3, <1>7, <1>8, <1>9, ClaimsMove
<1>11. Orderly'
  BY <1>2 DEF Orderly, serviceVars, cameraMaps
<1> QED
  BY <1>2, <1>4, <1>5, <1>6, <1>10, <1>11

\* CameraSource opens a camera that nobody has a claim to.
LEMMA OpenCameraKeeps ==
  ASSUME IInv, NEW c \in Clients, OpenCamera(Caller(c))
  PROVE  IInv'
<1> DEFINE k == camera[Caller(c)]
<1>1. /\ pc[Caller(c)] = "open" /\ k \in Cameras
      /\ UNCHANGED <<serviceVars, cameraMaps, stopping, camera, todo, manners>>
  BY ThreadsOf DEF IInv, OpenCamera, CamerasType
<1>2. CASE AlreadyOpen(k)
  <2>1. Move(Caller(c), "idle") /\ UNCHANGED camera_map_
    BY <1>2, ThreadsOf DEF OpenCamera, Done
  <2> QED
    BY <1>1, <2>1, PlaceKeeps DEF Aside
<1>3. CASE ~AlreadyOpen(k)
  <2>1. /\ Move(Caller(c), "opening") /\ camera_map_[k] = "closed"
        /\ camera_map_' = [camera_map_ EXCEPT ![k] = "opening"]
    BY <1>3 DEF OpenCamera, AlreadyOpen
  <2>2. \A d \in Clients : ~Claims(d, k)
    BY <1>1, <2>1 DEF IInv, OneClaim
  <2>3. ~Keeps(c, k)
    BY <2>2 DEF Claims
  <2> QED
    BY <1>1, <2>1, <2>2, <2>3, SourceKeeps
<1> QED
  BY <1>2, <1>3

\* The camera is open and still claimed, or closed again and claimed by nobody.
LEMMA OpenedKeeps ==
  ASSUME IInv, NEW c \in Clients, Opened(Caller(c))
  PROVE  IInv'
<1> DEFINE k == camera[Caller(c)]
<1>1. /\ pc[Caller(c)] = "opening" /\ k \in Cameras
      /\ UNCHANGED <<serviceVars, cameraMaps, stopping, camera, todo, manners>>
  BY ThreadsOf DEF IInv, Opened, CamerasType
<1>2. \/ Move(Caller(c), "opened") /\ camera_map_' = [camera_map_ EXCEPT ![k] = "open"]
      \/ Move(Caller(c), "idle") /\ camera_map_' = [camera_map_ EXCEPT ![k] = "closed"]
  BY ThreadsOf DEF Opened, Done
<1>3. Opens(c, k)
  BY <1>1 DEF Opens
<1>4. ~Keeps(c, k) /\ \A d \in Clients : d # c => ~Claims(d, k)
  BY <1>1, <1>3 DEF IInv, Claims, OneClaim
<1> QED
  BY <1>1, <1>2, <1>4, SourceKeeps

-----------------------------------------------------------------------------
(* Entries of client_cameraid_map_.                                        *)

\* A change of one client's entry, which others do not see.
LEMMA EntryChanges ==
  ASSUME IInv, NEW c \in Clients, NEW k \in Cameras, NEW role \in {"no", "slave", "owner"},
         known' = known \cup {c}, cameras' = [cameras EXCEPT ![c][k] = role]
  PROVE  /\ known' \subseteq Clients /\ Entries'
         /\ cameras' \in [Clients -> [Cameras -> {"no", "slave", "owner"}]]
         /\ cameras'[c][k] = role
         /\ Owns(c, k)' <=> role = "owner"
         /\ \A d \in Clients, j \in Cameras : d # c \/ j # k =>
              cameras'[d][j] = cameras[d][j] /\ (Owns(d, j)' <=> Owns(d, j))
<1> USE DEF IInv
<1>1. cameras' \in [Clients -> [Cameras -> {"no", "slave", "owner"}]]
  BY DEF CamerasType
<1>2. /\ cameras'[c][k] = role /\ \A d \in Clients : d # c => cameras'[d] = cameras[d]
      /\ \A j \in Cameras : j # k => cameras'[c][j] = cameras[c][j]
  BY DEF CamerasType
<1>3. known' \subseteq Clients /\ Entries'
  BY <1>2 DEF CamerasType, Entries, NoCameras
<1>4. \A j \in Cameras : j # k => (Owns(c, j)' <=> Owns(c, j))
  BY <1>2 DEF Owns, Entries, NoCameras
<1>5. \A d \in Clients, j \in Cameras : d # c => (Owns(d, j)' <=> Owns(d, j))
  BY <1>2 DEF Owns
<1>6. Owns(c, k)' <=> role = "owner"
  BY <1>2 DEF Owns
<1> QED
  BY <1>1, <1>2, <1>3, <1>4, <1>5, <1>6

\* An entry for a camera the client does not own changes, and does not make it the owner.
LEMMA EntryAsideKeeps ==
  ASSUME IInv, NEW c \in Clients, NEW k \in Cameras, NEW role \in {"no", "slave"},
         pc[Caller(c)] \in Aside, Move(Caller(c), "idle"), ~Owns(c, k),
         role = "slave" => manners # {},
         known' = known \cup {c}, cameras' = [cameras EXCEPT ![c][k] = role],
         UNCHANGED <<serviceVars, clients, camera_map_, stopping, camera, todo, manners>>
  PROVE  IInv'
<1>1. /\ known' \subseteq Clients /\ Entries'
      /\ cameras' \in [Clients -> [Cameras -> {"no", "slave", "owner"}]]
      /\ cameras'[c][k] = role
      /\ Owns(c, k)' <=> role = "owner"
      /\ \A d \in Clients, j \in Cameras : d # c \/ j # k =>
           cameras'[d][j] = cameras[d][j] /\ (Owns(d, j)' <=> Owns(d, j))
  BY EntryChanges
<1>2. \A d \in Clients, j \in Cameras : Owns(d, j)' <=> Owns(d, j)
  BY <1>1
<1>3. \A d \in Clients, j \in Cameras : cameras'[d][j] = "slave" => manners # {}
  BY <1>1 DEF IInv, Orderly
<1> QED
  BY <1>1, <1>2, <1>3, AsideKeeps DEF Aside

\* The claim of the call becomes that of the entry, unless the client is a slave.
LEMMA StartedKeeps ==
  ASSUME IInv, NEW c \in Clients, Started(Caller(c))
  PROVE  IInv'
<1> DEFINE k == camera[Caller(c)]
           role == IF cameras[c][k] = "no" THEN "owner" ELSE cameras[c][k]
<1> USE DEF IInv
<1>1. /\ pc[Caller(c)] = "opened" /\ k \in Cameras /\ Move(Caller(c), "idle")
      /\ UNCHANGED <<serviceVars, clients, camera_map_, stopping, camera, todo, manners>>
  BY ThreadsOf DEF Started, CamerasType, Done
<1>2. known' = known \cup {c} /\ cameras' = [cameras EXCEPT ![c][k] = role]
  BY ThreadsOf DEF Started, Emplace
<1>3. role \in {"no", "slave", "owner"} /\ role # "no"
  BY <1>1 DEF CamerasType
<1>4. role = "slave" => manners # {}
  BY <1>1 DEF Orderly
<1> HIDE DEF role
<1>5. /\ known' \subseteq Clients /\ Entries'
      /\ cameras' \in [Clients -> [Cameras -> {"no", "slave", "owner"}]]
      /\ cameras'[c][k] = role
      /\ Owns(c, k)' <=> role = "owner"
      /\ \A d \in Clients, j \in Cameras : d # c \/ j # k =>
           cameras'[d][j] = cameras[d][j] /\ (Owns(d, j)' <=> Owns(d, j))
  BY <1>1, <1>2, <1>3, EntryChanges
<1>6. Opens(c, k) /\ \A j \in Cameras : j # k => ~Opens(c, j)
  BY <1>1 DEF Opens
<1>7. camera_map_[k] = "open" /\ \A d \in Clients : d # c => ~Claims(d, k)
  BY <1>1, <1>6 DEF Claims, OneClaim
<1>8. "idle" \in Places /\ \A d \in Clients, j \in Cameras : d # c => (Owns(d, j)' <=> Owns(d, j))
  BY <1>5 DEF Places
<1>9. /\ pc' \in [Threads -> Places] /\ pc'[Caller(c)] = "idle"
      /\ Burials'
      /\ \A d \in Clients : d # c => ClosingOf(d)'
      /\ \A d \in Clients : d # c => pc'[Caller(d)] = pc[Caller(d)]
      /\ \A d \in Clients, j \in Cameras : d # c =>
           (Opens(d, j)' <=> Opens(d, j)) /\ (Keeps(d, j)' <=> Keeps(d, j))
  BY <1>1, <1>8, OthersStay
<1>10. CamerasType'
  BY <1>1, <1>5, <1>9 DEF CamerasType, serviceVars
<1>11. Closing'
  BY <1>9, NotClosing DEF Closing
<1>12. /\ \A j \in Cameras : ~Opens(c, j)' /\ (j # k => (Keeps(c, j)' <=> Keeps(c, j)))
       /\ Keeps(c, k)' <=> role = "owner"
  BY <1>1, <1>5, <1>9 DEF Opens, Keeps, Closed
<1>13. \A d \in Clients, j \in Cameras : j # k =>
         /\ Opens(d, j)' <=> Opens(d, j)
         /\ Keeps(d, j)' <=> Keeps(d, j)
         /\ Opens(d, j) => pc'[Caller(d)] = pc[Caller(d)]
         /\ camera_map_'[j] = camera_map_[j]
  BY <1>1, <1>6, <1>9, <1>12
<1>14. /\ \A d \in Clients : d # c => ~Claims(d, k)'
       /\ Claims(c, k)' <=> role = "owner"
  BY <1>1, <1>7, <1>9, <1>12 DEF Claims
<1>15. OneClaim' /\ Attended'
  BY <1>1, <1>3, <1>4, <1>7, <1>12, <1>13, <1>14, ClaimsMove
<1>16. Orderly'
  <2> SUFFICES ASSUME manners = {}, NEW d \in Clients
               PROVE  /\ user[d] # "dead" /\ pc'[Caller(d)] \notin {"startSlave", "slave"}
                      /\ \A j \in Cameras : cameras'[d][j] # "slave"
    BY <1>1 DEF Orderly, serviceVars
  <2>1. /\ user[d] # "dead" /\ pc[Caller(d)] \notin {"startSlave", "slave"}
        /\ \A j \in Cameras : cameras[d][j] # "slave"
    BY DEF Orderly
  <2>2. pc'[Caller(d)] \notin {"startSlave", "slave"}
    BY <1>9, <2>1
  <2>3. \A j \in Cameras : cameras'[d][j] # "slave"
    BY <1>4, <1>5, <2>1
  <2> QED
    BY <2>1, <2>2, <2>3
<1> QED
  BY <1>5, <1>9, <1>10, <1>11, <1>15, <1>16

LEMMA SlaveAddedKeeps ==
  ASSUME IInv, NEW c \in Clients, SlaveAdded(Caller(c))
  PROVE  IInv'
<1> DEFINE k == camera[Caller(c)]
<1>1. /\ pc[Caller(c)] = "slave" /\ k \in Cameras /\ Move(Caller(c), "idle")
      /\ UNCHANGED <<serviceVars, clients, camera_map_, stopping, camera, todo, manners>>
  BY ThreadsOf DEF IInv, SlaveAdded, CamerasType, Done
<1>2. /\ known' = known \cup {c}
      /\ cameras' = [cameras EXCEPT ![c][k] = IF @ = "no" THEN "slave" ELSE @]
  BY ThreadsOf DEF SlaveAdded, Emplace
<1>3. CASE cameras[c][k] = "owner"
  <2>1. c \in known
    BY <1>1, <1>3 DEF IInv, Entries, NoCameras
  <2>2. UNCHANGED cameraMaps
    BY <1>1, <1>2, <1>3, <2>1 DEF IInv, CamerasType, cameraMaps
  <2> QED
    BY <1>1, <2>2, PlaceKeeps DEF Aside
<1>4. CASE cameras[c][k] # "owner"
  <2>1. cameras[c][k] \in {"no", "slave"} /\ ~Owns(c, k)
    BY <1>1, <1>4 DEF IInv, CamerasType, Owns
  <2>2. cameras' = [cameras EXCEPT ![c][k] = "slave"]
    BY <1>2, <2>1
  <2>3. manners # {}
    BY <1>1 DEF IInv, Orderly
  <2> QED
    BY <1>1, <1>2, <2>1, <2>2, <2>3, EntryAsideKeeps DEF Aside
<1> QED
  BY <1>3, <1>4

-----------------------------------------------------------------------------
(* StopCamera.                                                             *)

\* A call that goes from one place to another under stop_camera_lock_, or takes or
\* gives up the lock, without a change of any camera or entry.
LEMMA LockedKeeps ==
  ASSUME IInv, NEW c \in Clients, NEW to \in {"closing", "close", "idle"}, Move(Caller(c), to),
         pc[Caller(c)] \in {"stop", "closing", "close"},
         stopping \in {None, Caller(c)},
         stopping' = IF to = "idle" THEN None ELSE Caller(c),
         to # "idle" => ClosingOf(c)',
         UNCHANGED <<serviceVars, cameraMaps, camera_map_, camera, todo, manners>>
  PROVE  IInv'
<1> USE DEF IInv
<1>1. /\ \A d \in Clients, j \in Cameras : Owns(d, j)' <=> Owns(d, j)
      /\ to \in Places
  BY DEF Owns, cameraMaps, Places
<1>2. /\ pc' \in [Threads -> Places] /\ pc'[Caller(c)] = to
      /\ Burials'
      /\ \A d \in Clients : d # c => ClosingOf(d)'
      /\ \A d \in Clients : d # c => pc'[Caller(d)] = pc[Caller(d)]
      /\ \A d \in Clients, j \in Cameras : d # c =>
           (Opens(d, j)' <=> Opens(d, j)) /\ (Keeps(d, j)' <=> Keeps(d, j))
  BY <1>1, OthersStay DEF cameraMaps
<1>3. CamerasType'
  BY <1>2, ThreadsOf DEF CamerasType, serviceVars, cameraMaps
<1>4. Entries'
  BY DEF Entries, cameraMaps, NoCameras
<1>5. Closing'
  BY <1>2, NotClosing DEF Closing
<1>6. \A j \in Cameras :
        ~Opens(c, j) /\ ~Opens(c, j)' /\ (Keeps(c, j)' <=> Keeps(c, j))
  BY <1>1, <1>2 DEF Opens, Keeps, Closed
<1>7. \A d \in Clients, j \in Cameras :
        /\ Opens(d, j)' <=> Opens(d, j)
        /\ Keeps(d, j)' <=> Keeps(d, j)
        /\ Opens(d, j) => pc'[Caller(d)] = pc[Caller(d)]
  BY <1>2, <1>6
<1>8. OneClaim' /\ Attended'
  BY <1>7, ClaimsStay
<1>9. Orderly'
  BY <1>2 DEF Orderly, serviceVars, cameraMaps
<1> QED
  BY <1>2, <1>3, <1>4, <1>5, <1>8, <1>9

\* A slave's StopCamera finds the camera another client's, who is not closing it, since
\* stop_camera_lock_ was free: the client that leaves it does not own it too.
LEMMA StopKeeps ==
  ASSUME IInv, NEW c \in Clients, Stop(Caller(c))
  PROVE  IInv'
<1> DEFINE k == camera[Caller(c)]
<1>1. /\ pc[Caller(c)] = "stop" /\ stopping = None /\ k \in Cameras
      /\ UNCHANGED <<serviceVars, clients, camera_map_, camera, todo, manners>>
  BY ThreadsOf DEF IInv, Stop, CamerasType
<1>2. CASE Move(Caller(c), "idle") /\ UNCHANGED <<known, cameras, stopping>>
  BY <1>1, <1>2, PlaceKeeps DEF Aside, cameraMaps
<1>3. CASE IsCameraOwned(c, k) /\ Erase(c, k) /\ Move(Caller(c), "idle") /\ UNCHANGED stopping
  <2>1. PICK d \in known : d # c /\ cameras[d][k] = "owner"
    BY <1>3 DEF IsCameraOwned
  <2>2. d \in Clients /\ Owns(d, k)
    BY <2>1 DEF IInv, CamerasType, Owns
  <2>3. ~Closed(c, k) /\ ~Closed(d, k)
    BY <1>1, <2>2, ThreadsOf DEF IInv, Closing, ClosingOf, Closed
  <2>4. Claims(d, k) /\ (Owns(c, k) => Claims(c, k))
    BY <2>2, <2>3 DEF Claims, Keeps
  <2>5. ~Owns(c, k)
    BY <1>1, <2>1, <2>2, <2>4 DEF IInv, OneClaim
  <2> QED
    BY <1>1, <1>3, <2>5, EntryAsideKeeps DEF Aside, Erase
<1>4. CASE /\ ClientValid(c) /\ IsCameraValid(c, k) /\ stopping' = Caller(c)
           /\ Move(Caller(c), "closing") /\ UNCHANGED <<known, cameras>>
  <2>1. cameras[c][k] = "owner" /\ c \in clients
    BY <1>4 DEF ClientValid, IsCameraValid
  <2>2. Owns(c, k) /\ pc[Burial(c)] = "idle"
    <3>1. c \in known
      BY <1>1, <2>1 DEF IInv, Entries, NoCameras
    <3>2. pc[Burial(c)] = "idle"
      BY <2>1 DEF IInv, Burials
    <3> QED
      BY <2>1, <3>1, <3>2 DEF Owns
  <2>3. Owns(c, k)'
    BY <1>1, <1>4, <2>2 DEF Owns
  <2>4. pc'[Burial(c)] = "idle" /\ pc'[Caller(c)] = "closing"
    BY <1>4, <2>2, CallMoves DEF IInv, Places
  <2>5. ClosingOf(c)'
    BY <1>1, <1>4, <2>3, <2>4 DEF ClosingOf
  <2> QED
    BY <1>1, <1>4, <2>5, LockedKeeps DEF cameraMaps
<1> QED
  BY <1>2, <1>3, <1>4, ThreadsOf DEF Stop, Done

\* The slaves are gone, or the wait timed out.
LEMMA StopWaitsKeeps ==
  ASSUME IInv, NEW c \in Clients, StopWaits(Caller(c))
  PROVE  IInv'
<1>1. /\ pc[Caller(c)] = "closing"
      /\ UNCHANGED <<serviceVars, cameraMaps, camera_map_, camera, todo, manners>>
  BY DEF StopWaits
<1>2. ClosingOf(c) /\ stopping = Caller(c) /\ camera[Caller(c)] \in Cameras
  BY <1>1, ThreadsOf DEF IInv, Closing, ClosingOf, CamerasType
<1>3. CASE Move(Caller(c), "idle") /\ stopping' = None
  BY <1>1, <1>2, <1>3, LockedKeeps
<1>4. CASE Move(Caller(c), "close") /\ UNCHANGED stopping
  <2>1. pc'[Burial(c)] = pc[Burial(c)] /\ pc'[Caller(c)] = "close"
    BY <1>4, CallMoves DEF IInv, Places
  <2>2. \A k \in Cameras : Owns(c, k)' <=> Owns(c, k)
    BY <1>1 DEF Owns, cameraMaps
  <2>3. ClosingOf(c)'
    BY <1>1, <1>2, <1>4, <2>1, <2>2 DEF ClosingOf
  <2> QED
    BY <1>1, <1>2, <1>4, <2>3, LockedKeeps
<1> QED
  BY <1>3, <1>4, ThreadsOf DEF StopWaits, Done

\* The camera is closed by the only client with a claim to it.
LEMMA CloseCameraKeeps ==
  ASSUME IInv, NEW c \in Clients, CloseCamera(Caller(c))
  PROVE  IInv'
<1> USE DEF IInv
<1>1. /\ pc[Caller(c)] = "close" /\ camera[Caller(c)] \in Cameras
      /\ UNCHANGED <<serviceVars, cameraMaps, camera, todo, manners>>
  BY ThreadsOf DEF CloseCamera, CamerasType
<1>2. PICK k \in Cameras : k = camera[Caller(c)]
  BY <1>1
<1>3. ClosingOf(c) /\ stopping = Caller(c) /\ Owns(c, k)
  BY <1>1, <1>2 DEF Closing, ClosingOf
<1>4. CASE Move(Caller(c), "idle") /\ stopping' = None /\ UNCHANGED camera_map_
  BY <1>1, <1>3, <1>4, LockedKeeps
<1>5. CASE /\ Move(Caller(c), "closed") /\ UNCHANGED stopping
           /\ camera_map_' = [camera_map_ EXCEPT ![k] = "closed"]
  <2>1. /\ \A d \in Clients, j \in Cameras : Owns(d, j)' <=> Owns(d, j)
        /\ "closed" \in Places
    BY <1>1 DEF Owns, cameraMaps, Places
  <2>2. /\ pc' \in [Threads -> Places] /\ pc'[Caller(c)] = "closed"
        /\ Burials'
        /\ \A d \in Clients : d # c => ClosingOf(d)'
        /\ \A d \in Clients : d # c => pc'[Caller(d)] = pc[Caller(d)]
        /\ \A d \in Clients, j \in Cameras : d # c =>
             (Opens(d, j)' <=> Opens(d, j)) /\ (Keeps(d, j)' <=> Keeps(d, j))
    BY <1>1, <1>5, <2>1, OthersStay DEF cameraMaps
  <2>3. /\ camera_map_' \in [Cameras -> {"closed", "opening", "open"}]
        /\ camera_map_'[k] = "closed"
        /\ \A j \in Cameras : j # k => camera_map_'[j] = camera_map_[j]
    BY <1>5 DEF CamerasType
  <2>4. CamerasType'
    BY <1>1, <1>5, <2>2, <2>3 DEF CamerasType, serviceVars, cameraMaps
  <2>5. Entries'
    BY <1>1 DEF Entries, cameraMaps, NoCameras
  <2>6. ClosingOf(c)'
    BY <1>3, <1>5, <2>2 DEF ClosingOf
  <2>7. Claims(c, k)
    BY <1>1, <1>3 DEF Claims, Keeps, Closed
  <2>8. \A d \in Clients : d # c => ~Claims(d, k)
    BY <2>7 DEF OneClaim
  <2>9. /\ \A j \in Cameras : ~Opens(c, j) /\ ~Opens(c, j)'
        /\ \A j \in Cameras : j # k => (Keeps(c, j)' <=> Keeps(c, j))
        /\ ~Keeps(c, k)'
    BY <1>1, <1>2, <2>1, <2>2 DEF Keeps, Closed, Opens
  <2>10. \A d \in Clients, j \in Cameras : j # k =>
           /\ Opens(d, j)' <=> Opens(d, j)
           /\ Keeps(d, j)' <=> Keeps(d, j)
           /\ Opens(d, j) => pc'[Caller(d)] = pc[Caller(d)]
           /\ camera_map_'[j] = camera_map_[j]
    BY <2>2, <2>3, <2>9
  <2>11. \A d \in Clients : ~Claims(d, k)'
    BY <2>2, <2>8, <2>9 DEF Claims
  <2>12. OneClaim' /\ Attended'
    BY <1>1, <2>3, <2>9, <2>10, <2>11, ClaimsMove
  <2>13. Orderly'
    BY <1>1, <2>2 DEF Orderly, serviceVars, cameraMaps
  <2> QED
    BY <2>2, <2>4, <2>5, <2>6, <2>12, <2>13 DEF Closing
<1> QED
  BY <1>2, <1>4, <1>5, ThreadsOf DEF CloseCamera, Done

\* The entry goes; the claim went with the closing.
LEMMA StoppedKeeps ==
  ASSUME IInv, NEW c \in Clients, Stopped(Caller(c))
  PROVE  IInv'
<1> USE DEF IInv
<1>1. /\ pc[Caller(c)] = "closed" /\ camera[Caller(c)] \in Cameras /\ Move(Caller(c), "idle")
      /\ stopping' = None
      /\ UNCHANGED <<serviceVars, clients, camera_map_, camera, todo, manners>>
  BY ThreadsOf DEF Stopped, CamerasType, Done
<1>2. PICK k \in Cameras : k = camera[Caller(c)]
  BY <1>1
<1>3. known' = known \cup {c} /\ cameras' = [cameras EXCEPT ![c][k] = "no"]
  BY <1>2, ThreadsOf DEF Stopped, Erase
<1>4. /\ known' \subseteq Clients /\ Entries'
      /\ cameras' \in [Clients -> [Cameras -> {"no", "slave", "owner"}]]
      /\ cameras'[c][k] = "no"
      /\ ~Owns(c, k)'
      /\ \A d \in Clients, j \in Cameras : d # c \/ j # k =>
           cameras'[d][j] = cameras[d][j] /\ (Owns(d, j)' <=> Owns(d, j))
  BY <1>3, EntryChanges
<1>5. /\ stopping = Caller(c) /\ "idle" \in Places
      /\ \A d \in Clients, j \in Cameras : d # c => (Owns(d, j)' <=> Owns(d, j))
  BY <1>1, <1>4 DEF Closing, ClosingOf, Places
<1>6. /\ pc' \in [Threads -> Places] /\ pc'[Caller(c)] = "idle"
      /\ Burials'
      /\ \A d \in Clients : d # c => ClosingOf(d)'
      /\ \A d \in Clients : d # c => pc'[Caller(d)] = pc[Caller(d)]
      /\ \A d \in Clients, j \in Cameras : d # c =>
           (Opens(d, j)' <=> Opens(d, j)) /\ (Keeps(d, j)' <=> Keeps(d, j))
  BY <1>1, <1>5, OthersStay
<1>7. CamerasType'
  BY <1>1, <1>4, <1>6 DEF CamerasType, serviceVars
<1>8. Closing'
  BY <1>6, NotClosing DEF Closing
<1>9. \A j \in Cameras :
        ~Opens(c, j) /\ ~Opens(c, j)' /\ (Keeps(c, j)' <=> Keeps(c, j))
  BY <1>1, <1>2, <1>4, <1>6 DEF Opens, Keeps, Closed
<1>10. \A d \in Clients, j \in Cameras :
         /\ Opens(d, j)' <=> Opens(d, j)
         /\ Keeps(d, j)' <=> Keeps(d, j)
         /\ Opens(d, j) => pc'[Caller(d)] = pc[Caller(d)]
  BY <1>6, <1>9
<1>11. OneClaim' /\ Attended'
  BY <1>1, <1>10, ClaimsStay
<1>12. Orderly'
  <2>1. \A d \in Clients, j \in Cameras : cameras'[d][j] = "slave" => cameras[d][j] = "slave"
    BY <1>4
  <2> QED
    BY <1>1, <1>6, <2>1 DEF Orderly, serviceVars
<1> QED
  BY <1>4, <1>6, <1>7, <1>8, <1>11, <1>12

-----------------------------------------------------------------------------
LEMMA ThreadKeeps ==
  ASSUME IInv, NEW t \in Threads, Thread(t)
  PROVE  IInv'
<1>1. PICK c \in Clients : t = Caller(c) \/ t = Burial(c)
  BY ThreadsOf
<1>2. CASE t = Burial(c)
  BY <1>2, BurialThreadKeeps
<1>3. CASE t = Caller(c)
  BY <1>3, StartKeeps, SlaveAddedKeeps, OpenCameraKeeps, OpenedKeeps, StartedKeeps,
     StopKeeps, StopWaitsKeeps, CloseCameraKeeps, StoppedKeeps DEF Thread
<1> QED
  BY <1>1, <1>2, <1>3

\* Nothing happens.
LEMMA StutterKeeps ==
  ASSUME IInv, UNCHANGED cameraVars
  PROVE  IInv'
<1> USE DEF IInv, cameraVars
<1>1. CamerasType' /\ Burials' /\ Entries' /\ Orderly'
  <2>1. CamerasType'
    BY DEF CamerasType
  <2>2. Burials'
    BY DEF Burials
  <2>3. Entries'
    BY DEF Entries, NoCameras
  <2>4. Orderly'
    BY DEF Orderly
  <2> QED
    BY <2>1, <2>2, <2>3, <2>4
<1>2. \A c \in Clients, k \in Cameras : Owns(c, k)' <=> Owns(c, k)
  BY DEF Owns
<1>3. Closing' /\ OneClaim' /\ Attended'
  BY <1>2, ThreadsStay
<1> QED
  BY <1>1, <1>3

LEMMA NextIInv == IInv /\ [CamerasNext]_cameraVars => IInv'
<1> SUFFICES ASSUME IInv, [CamerasNext]_cameraVars PROVE IInv'
  OBVIOUS
<1>1. CASE \E c \in Clients : \/ Connect(c) \/ Disconnect(c) \/ ClientDies(c)
                              \/ CleanUpSessions(c) \/ CopyCameras(c) \/ CleanUpDone(c)
  BY <1>1, ConnectKeeps, DisconnectKeeps, DieKeeps, CleanUpSessionsKeeps, CopyCamerasKeeps,
     CleanUpDoneKeeps
<1>2. CASE \E c \in Clients, k \in Cameras :
             \/ \E to \in {"start", "startSlave", "stop"} : CallCamera(c, k, to)
             \/ CleanUpCamera(c, k)
  BY <1>2, CallKeeps, CleanUpCameraKeeps
<1>3. CASE \E t \in Threads : Thread(t)
  BY <1>3, ThreadKeeps
<1>4. CASE UNCHANGED cameraVars
  BY <1>4, StutterKeeps
<1> QED
  BY <1>1, <1>2, <1>3, <1>4 DEF CamerasNext

\* What the claims say of the maps.
LEMMA IInvImplies == IInv => OwnershipIsSound
<1> SUFFICES ASSUME IInv, NEW k \in Cameras
             PROVE  /\ \A c \in Clients : Owns(c, k) /\ ~IsClosing(c, k) =>
                         /\ camera_map_[k] = "open"
                         /\ \A d \in Clients : Owns(d, k) /\ ~IsClosing(d, k) => c = d
                    /\ manners = {} /\ camera_map_[k] = "open" =>
                         \/ \E c \in Clients : Owns(c, k)
                         \/ \E t \in Threads : pc[t] = "opened" /\ camera[t] = k
  BY DEF OwnershipIsSound
<1>1. \A c \in Clients : Owns(c, k) /\ ~IsClosing(c, k) => Keeps(c, k)
  BY ThreadsOf DEF IsClosing, Keeps, Closed
<1>2. \A c \in Clients : Keeps(c, k) =>
        camera_map_[k] = "open" /\ \A d \in Clients : Keeps(d, k) => c = d
  BY DEF IInv, OneClaim, Claims
<1>3. ASSUME manners = {}, camera_map_[k] = "open"
      PROVE  \/ \E c \in Clients : Owns(c, k)
             \/ \E t \in Threads : pc[t] = "opened" /\ camera[t] = k
  <2>1. PICK c \in Clients : Claims(c, k)
    BY <1>3 DEF IInv, Attended
  <2>2. CASE Keeps(c, k)
    BY <2>2 DEF Keeps
  <2>3. CASE Opens(c, k)
    BY <1>3, <2>1, <2>3, ThreadsOf DEF IInv, OneClaim, Opens
  <2> QED
    BY <2>1, <2>2, <2>3 DEF Claims
<1> QED
  BY <1>1, <1>2, <1>3

\* Whatever the number of clients and cameras, and however calls, deaths and cleanups
\* interleave: StartCamera never makes two clients the owner of a camera, its owner has
\* it open until its own StopCamera closes it, and no camera stays open for nobody while
\* every client behaves.
THEOREM OwnershipForEveryClient == CamerasSpec => []OwnershipIsSound
<1>1. CamerasInit => IInv
  BY InitIInv
<1>2. IInv /\ [CamerasNext]_cameraVars => IInv'
  BY NextIInv
<1>3. IInv => OwnershipIsSound
  BY IInvImplies
<1> QED
  BY <1>1, <1>2, <1>3, PTL DEF CamerasSpec
=============================================================================
