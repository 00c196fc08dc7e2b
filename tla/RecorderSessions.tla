-------------------------- MODULE RecorderSessions --------------------------
(***************************************************************************)
(* Sessions and tracks: client_session_map_, sessions_state_ and           *)
(* sessions_mutex_map_ of RecorderImpl (recorder/src/service/              *)
(* qmmf_recorder_impl.cc), with the track sources and track encoders they  *)
(* drive (CameraSource, AudioSource, EncoderCore, AudioEncoderCore).       *)
(*                                                                         *)
(* A client has one call in the service at a time (RecorderClient::lock_); *)
(* the cleanup of a dead client runs in another thread, while that call    *)
(* may still be there.  A step is one critical section of                  *)
(* client_session_lock_, or what is done to one track.                     *)
(***************************************************************************)
EXTENDS RecorderThreads, Integers, FiniteSets, FiniteSetsExt

CONSTANTS Tracks,     \* track ids of a session
          Layouts,    \* the tracks clients use, and the kind of each
          MaxSession, \* bound: largest session id
          Bound(_),   \* bound: largest session id for a layout
          Mortal,     \* bound: the clients that may die
          Recording   \* bound: the clients that use their sessions

Kinds == {"avc", "yuv", "rgb", "aac", "pcm"}
SessionIds == 1..MaxSession

ASSUME SessionsAssumption ==
  /\ \A c \in Clients : c \in Nat \ {0} /\ c <= 127
  /\ \A k \in Tracks : k \in Nat \ {0} /\ k <= 65535
  /\ MaxSession \in Nat \ {0} /\ MaxSession <= 255 /\ Mortal \cup Recording \subseteq Clients
  /\ \A f \in Layouts : /\ DOMAIN f \subseteq Tracks /\ Bound(f) \in SessionIds
                         /\ \A k \in DOMAIN f : f[k] \in Kinds
  /\ None \notin Clients \cup Threads

VARIABLES
  kind,               \* of each track id: its format
  life,               \* of a client: alive, dead, gone
  cleaning,           \* RecorderService::lock_: whose cleanup holds it, or None
  registered,         \* keys of client_session_map_
  sessions,           \* client_session_map_[client]: its keys
  tracks,             \* client_session_map_[client][session]: its keys
  sessions_state_,    \* idle, active, pause, or none: no entry
  mutexes,            \* keys of sessions_mutex_map_
  holder,             \* of each session's mutex
  unique_session_id_,
  source,             \* of each service track id: its TrackSource
  encoder,            \* and its TrackEncoder
  thread,             \* each thread: its place (pc), session_id (s), track_id
                      \* (k), the tracks its loop has yet to reach (todo), and
                      \* the loops that broke off (failed): "audio", "video"
  left, copied,       \* the cleanup's copy of the sessions, and of their tracks
  orphans,            \* history: a track was deleted while it ran
  crashed,            \* an assertion failed, or freed memory was used
  conduct             \* history: "race": a client died inside a call (nothing
                      \* more is recorded then), "order": a track was created
                      \* or deleted in a session that is not idle, "failed":
                      \* an audio track or its codec failed, "leak": AddSource
                      \* failed or an RGB track was created

maps == <<registered, sessions, tracks>>
state == <<sessions_state_, mutexes, unique_session_id_>>
media == <<source, encoder, orphans>>
service == <<kind, life, cleaning, left, copied>>
vars == <<service, maps, state, holder, media, thread, crashed, conduct>>

GetUniqueServiceTrackId(c, s, k) == c * 2^24 + s * 2^16 + k
ServiceId(t) == GetUniqueServiceTrackId(Client(t), thread[t].s, thread[t].k)
ServiceIds ==
  {GetUniqueServiceTrackId(c, s, k) : c \in Clients, s \in SessionIds, k \in Tracks}

IsVideo(f) == f \in {"avc", "yuv", "rgb"}
IsEncoded(f) == f \in {"avc", "aac"}

NoTracks == [s \in SessionIds |-> {}]
Idle == [pc |-> "idle", s |-> 1, k |-> Min(Tracks), todo |-> {}, failed |-> {}]

Init ==
  /\ kind \in Layouts
  /\ life = [c \in Clients |-> "alive"]
  /\ cleaning = None
  /\ registered = Clients
  /\ sessions = [c \in Clients |-> {}]
  /\ tracks = [c \in Clients |-> NoTracks]
  /\ sessions_state_ = [s \in SessionIds |-> "none"]
  /\ mutexes = {} /\ holder = [s \in SessionIds |-> None]
  /\ unique_session_id_ = 0
  /\ source = [i \in ServiceIds |-> "none"]
  /\ encoder = [i \in ServiceIds |-> "none"]
  /\ thread = [t \in Threads |-> Idle]
  /\ left = {} /\ copied = NoTracks
  /\ orphans = FALSE /\ crashed = FALSE /\ conduct = {}

Goto(t, to) == thread' = [thread EXCEPT ![t].pc = to]

Note(what) == conduct' = IF "race" \in conduct THEN conduct ELSE conduct \cup {what}

\* A call returns; the cleanup, which uses the same functions, goes on.
Return(t, to) == IF t[2] = "call" THEN thread' = [thread EXCEPT ![t] = Idle]
                                 ELSE Goto(t, to)

\* The end of a function that may hold the session's mutex.
Unlock(t) == holder' = [holder EXCEPT ![thread[t].s] = IF @ = t THEN None ELSE @]

-----------------------------------------------------------------------------
(* What is done to a track: the possible results of a call, each with the  *)
(* state it leaves.  "abort" is a failed assertion.                        *)

Flowing == {"running", "paused"}

\* TrackSource, AudioRawTrackSource and AudioEncodedTrackSource.
SourceStart(f, x) ==
  IF x = "none" THEN {<<"fail", x>>}
  ELSE IF f = "aac" THEN {<<"ok", "running">>, <<"fail", "stopped">>}
  ELSE IF x \notin Flowing THEN {<<"ok", "running">>}
  ELSE IF f = "pcm" THEN {<<"fail", x>>} ELSE {<<"abort", x>>}

SourceStop(f, x) ==
  IF x = "none" THEN {<<"fail", x>>}
  ELSE IF (~IsVideo(f) /\ x \notin Flowing) \/ (f = "yuv" /\ x = "new")
    THEN {<<"abort", x>>}
  ELSE {<<"ok", "stopped">>}

\* PauseTrack and ResumeTrack: a camera port asserts the state it is in.
SourceTurn(f, x, from, to) ==
  IF x = "none" THEN {<<"fail", x>>}
  ELSE IF x = from THEN {<<"ok", to>>}
  ELSE IF IsVideo(f) THEN {<<"abort", x>>} ELSE {<<"ok", x>>}

\* TrackEncoder and AudioTrackEncoder.  A video encoder is not told of a pause.
EncoderStart(f, x) ==
  IF x = "none" THEN {<<"fail", x>>}
  ELSE {<<"ok", "running">>} \cup (IF f = "aac" THEN {<<"fail", "stopped">>} ELSE {})

EncoderStop(f, x) ==
  IF x = "none" \/ (f = "aac" /\ x \notin Flowing) THEN {<<"fail", x>>}
  ELSE {<<"ok", "stopped">>} \cup (IF f = "aac" THEN {<<"fail", "stopped">>} ELSE {})

EncoderTurn(f, x, to) ==
  IF f = "avc" THEN {<<"ok", x>>}
  ELSE IF x \notin Flowing THEN {<<"fail", x>>}
  ELSE {<<"ok", to>>, <<"fail", x>>}

\* The source first; its encoder, if it has one, when that succeeded.
Both(f, sources, encoders, x) ==
  {[result |-> o[1], source |-> o[2], encoder |-> x] :
     o \in {o \in sources : o[1] # "ok" \/ ~IsEncoded(f)}}
  \cup {[result |-> e[1], source |-> o[2], encoder |-> e[2]] :
     o \in {o \in sources : o[1] = "ok"}, e \in IF IsEncoded(f) THEN encoders ELSE {}}

Outcomes(op, f, x, y) ==
  CASE op = "starting" -> Both(f, SourceStart(f, x), EncoderStart(f, y), y)
    [] op = "stopping" -> Both(f, SourceStop(f, x), EncoderStop(f, y), y)
    [] op = "pausing"  -> Both(f, SourceTurn(f, x, "running", "paused"),
                               EncoderTurn(f, y, "paused"), y)
    [] op = "resuming" -> Both(f, SourceTurn(f, x, "paused", "running"),
                               EncoderTurn(f, y, "running"), y)

\* The next track of a thread's loop.  StartSession has two loops, for audio
\* and for video, that run in parallel; StopSession and PauseSession go
\* through the tracks in reverse order.
NextTracks(t) ==
  LET video == {k \in thread[t].todo : IsVideo(kind[k])} IN
  CASE thread[t].todo = {} -> {}
    [] thread[t].todo # {} /\ thread[t].pc = "starting" ->
         UNION {IF S = {} THEN {} ELSE {Min(S)} : S \in {video, thread[t].todo \ video}}
    [] thread[t].todo # {} /\ thread[t].pc = "resuming" -> {Min(thread[t].todo)}
    [] OTHER -> {Max(thread[t].todo)}

\* A loop breaks off at the first failure; nothing is undone.
OnTrack(t, k) ==
  LET i == GetUniqueServiceTrackId(Client(t), thread[t].s, k)
      loop == {j \in DOMAIN kind : thread[t].pc = "starting" => IsVideo(kind[j]) = IsVideo(kind[k])}
  IN \E o \in Outcomes(thread[t].pc, kind[k], source[i], encoder[i]) :
       /\ source' = [source EXCEPT ![i] = o.source]
       /\ encoder' = [encoder EXCEPT ![i] = o.encoder]
       /\ crashed' = (o.result = "abort")
       /\ IF o.result = "fail"
            THEN /\ thread' = [thread EXCEPT ![t].todo = @ \ loop,
                      ![t].failed = @ \cup {IF IsVideo(kind[k]) THEN "video" ELSE "audio"}]
                 /\ Note("failed")
            ELSE thread' = [thread EXCEPT ![t].todo = @ \ {k}] /\ UNCHANGED conduct

TrackStep(t) ==
  /\ thread[t].pc \in {"starting", "stopping", "pausing", "resuming"}
  /\ \E k \in NextTracks(t) : OnTrack(t, k)
  /\ UNCHANGED <<service, maps, state, holder, orphans>>

-----------------------------------------------------------------------------
(* Calls of a client.                                                      *)

Ready(c) == life[c] = "alive" /\ thread[<<c, "call">>].pc = "idle" /\ cleaning = None

IsClientValid(c) == c \in registered
IsSessionValid(c, s) == s \in sessions[c]
IsTrackValid(c, s, k) == k \in tracks[c][s]

\* A call with a session: RecorderClient knows the client's sessions, and
\* does not delete one that has tracks.
Call(c, s, op) ==
  LET t == <<c, "call">> IN
  /\ Ready(c) /\ IsClientValid(c)
  /\ \/ op = "createSession"
     \/ /\ op \in {"start", "stop", "pause", "resume"} /\ c \in Recording
        /\ IsSessionValid(c, s)
     \/ op = "deleteSession" /\ IsSessionValid(c, s) /\ tracks[c][s] = {}
  /\ thread' = [thread EXCEPT ![t].pc = op, ![t].s = s]
  /\ UNCHANGED <<service, maps, state, holder, media, crashed, conduct>>

\* CreateAudioTrack and CreateVideoTrack look only at the maps, and so do
\* DeleteAudioTrack and DeleteVideoTrack: the session may be active.
CallTrack(c, s, k, op) ==
  LET t == <<c, "call">> IN
  /\ Ready(c) /\ c \in Recording
  /\ IsClientValid(c) /\ IsSessionValid(c, s)
  /\ IsTrackValid(c, s, k) <=> op = "deleteTrack"
  /\ thread' = [thread EXCEPT ![t].pc = op, ![t].s = s, ![t].k = k]
  /\ IF sessions_state_[s] = "idle" THEN UNCHANGED conduct ELSE Note("order")
  /\ UNCHANGED <<service, maps, state, holder, media, crashed>>

\* emplace keeps a state that is there already.
CreateSession(t) ==
  LET s == unique_session_id_ + 1
      c == Client(t) IN
  /\ thread[t].pc = "createSession"
  /\ unique_session_id_' = s
  /\ registered' = registered \cup {c}
  /\ sessions' = [sessions EXCEPT ![c] = @ \cup {s}]
  /\ sessions_state_' = [sessions_state_ EXCEPT ![s] = IF @ = "none" THEN "idle" ELSE @]
  /\ mutexes' = mutexes \cup {s}
  /\ Return(t, "idle")
  /\ UNCHANGED <<service, tracks, holder, media, crashed, conduct>>

\* Another thread of the client holds a reference to the session's entry.
Referenced(t, s) ==
  \E u \in Threads : /\ u # t /\ Client(u) = Client(t) /\ thread[u].s = s
                     /\ thread[u].pc \in {"startLock", "starting", "stopLock", "stopping",
                                   "deleteEncoder", "forget"}

\* Erase the session and its state; the ids start again when no client in
\* counted has a session.
EraseSession(t, stateLeft, counted) ==
  LET c == Client(t)
      s == thread[t].s IN
  /\ thread[t].pc = "deleteSession"
  /\ Return(t, "next")
  /\ IF IsClientValid(c) /\ IsSessionValid(c, s) /\ tracks[c][s] = {}
       THEN /\ sessions' = [sessions EXCEPT ![c] = @ \ {s}]
            /\ sessions_state_' = [sessions_state_ EXCEPT ![s] = stateLeft]
            /\ mutexes' = mutexes \ {s}
            /\ unique_session_id_' = IF \A d \in counted : sessions'[d] = {}
                                       THEN 0 ELSE unique_session_id_
            /\ crashed' = Referenced(t, s)
       ELSE UNCHANGED <<sessions, state, crashed>>
  /\ UNCHANGED <<service, registered, tracks, holder, media, conduct>>

\* Slip: the ids start again when this client has no session.
DeleteSessionResets(t) == EraseSession(t, "none", {Client(t)})

DeleteSession(t) == EraseSession(t, "none", registered)

-----------------------------------------------------------------------------
(* StartSession and StopSession.                                           *)

\* The maps are read with operator[], which makes the entries it does not
\* find; the mutex it makes is a null pointer.
Enter(t, op, to) ==
  LET c == Client(t) IN
  /\ thread[t].pc = op
  /\ registered' = registered \cup {c}
  /\ sessions' = [sessions EXCEPT ![c] = @ \cup {thread[t].s}]
  /\ crashed' = (thread[t].s \notin mutexes)
  /\ Goto(t, to)
  /\ UNCHANGED <<service, tracks, state, holder, media, conduct>>

\* An entry that is not there is made, with the value 0: kActive.
Looked(s) == IF sessions_state_[s] = "none" THEN "active" ELSE sessions_state_[s]
Look(s) == sessions_state_' = [sessions_state_ EXCEPT ![s] = Looked(s)]

Loop(t, to, ts) ==
  thread' = [thread EXCEPT ![t].pc = to, ![t].todo = ts, ![t].failed = {}]

\* With the mutex: a paused session is resumed, an active one is left alone.
StartLocked(t) ==
  LET s == thread[t].s IN
  /\ thread[t].pc = "startLock" /\ holder[s] = None
  /\ Look(s)
  /\ \/ /\ Looked(s) = "pause"
        /\ holder' = [holder EXCEPT ![s] = t]
        /\ Goto(t, "resume")
     \/ /\ Looked(s) = "active"
        /\ Return(t, "idle")
        /\ UNCHANGED holder
     \/ /\ Looked(s) = "idle"
        /\ holder' = [holder EXCEPT ![s] = t]
        /\ Loop(t, "starting", tracks[Client(t)][s])
  /\ UNCHANGED <<service, maps, mutexes, unique_session_id_, media, crashed,
                 conduct>>

StopLocked(t) ==
  LET s == thread[t].s IN
  /\ thread[t].pc = "stopLock" /\ holder[s] = None
  /\ Look(s)
  /\ IF Looked(s) = "idle"
       THEN Return(t, "tracks") /\ UNCHANGED holder
       ELSE /\ holder' = [holder EXCEPT ![s] = t]
            /\ Loop(t, "stopping", tracks[Client(t)][s])
  /\ UNCHANGED <<service, maps, mutexes, unique_session_id_, media, crashed,
                 conduct>>

\* The end of a loop over tracks, with the state the session is then in.
EndLoop(t, op, st, to) ==
  /\ thread[t].pc = op /\ thread[t].todo = {}
  /\ sessions_state_' = [sessions_state_ EXCEPT ![thread[t].s] = st]
  /\ Unlock(t)
  /\ Return(t, to)
  /\ UNCHANGED <<service, maps, mutexes, unique_session_id_, media, crashed, conduct>>

\* The end of Start-, Stop-, Pause- and ResumeSession: ChangeSessionState if
\* nothing failed.
LoopDone(t, op, st, to) ==
  EndLoop(t, op, IF thread[t].failed = {} THEN st ELSE sessions_state_[thread[t].s], to)

-----------------------------------------------------------------------------
(* PauseSession and ResumeSession: without the mutex, on a copy.           *)

Pause(t) ==
  LET s == thread[t].s IN
  /\ thread[t].pc = "pause"
  /\ Look(s)
  /\ IF Looked(s) = "active" THEN Goto(t, "pauseCopy") ELSE Return(t, "idle")
  /\ UNCHANGED <<service, maps, mutexes, unique_session_id_, holder, media, crashed,
                 conduct>>

\* Slip: ResumeSession takes the session's mutex, as StartSession does.
ResumeLocks(t) ==
  LET s == thread[t].s IN
  /\ thread[t].pc = "resume" /\ holder[s] = None
  /\ Look(s)
  /\ IF Looked(s) = "pause"
       THEN Goto(t, "resumeCopy") /\ holder' = [holder EXCEPT ![s] = t]
       ELSE Return(t, "idle") /\ UNCHANGED holder
  /\ UNCHANGED <<service, maps, mutexes, unique_session_id_, media, crashed,
                 conduct>>

\* Called by the client, or by StartSession, which holds the mutex.
Resume(t) ==
  LET s == thread[t].s IN
  /\ thread[t].pc = "resume"
  /\ Look(s)
  /\ IF Looked(s) = "pause"
       THEN Goto(t, "resumeCopy") /\ UNCHANGED holder
       ELSE Return(t, "idle") /\ Unlock(t)
  /\ UNCHANGED <<service, maps, mutexes, unique_session_id_, media, crashed,
                 conduct>>

CopyTracks(t, op, to) ==
  /\ thread[t].pc = op
  /\ registered' = registered \cup {Client(t)}
  /\ Loop(t, to, tracks[Client(t)][thread[t].s])
  /\ UNCHANGED <<service, sessions, tracks, state, holder, media, crashed, conduct>>

-----------------------------------------------------------------------------
(* CreateAudioTrack and CreateVideoTrack, DeleteAudioTrack and             *)
(* DeleteVideoTrack.                                                       *)

\* CreateTrackSource.  A video track replaces nothing (emplace), an audio
\* track that exists is refused, an RGB track is refused with NO_ERROR.
CreateTrackSource(t) ==
  LET i == ServiceId(t)
      f == kind[thread[t].k] IN
  /\ thread[t].pc = "createTrack"
  /\ \/ /\ f = "rgb"
        /\ Goto(t, "associate")
        /\ Note("leak")
        /\ UNCHANGED source
     \/ /\ f # "rgb" /\ (IsVideo(f) \/ source[i] = "none")
        /\ Goto(t, IF IsEncoded(f) THEN "addSource" ELSE "associate")
        /\ source' = [source EXCEPT ![i] = IF @ = "none" THEN "new" ELSE @]
        /\ UNCHANGED conduct
     \/ /\ f # "rgb"
        /\ Return(t, "idle")
        /\ UNCHANGED <<source, conduct>>
  /\ UNCHANGED <<service, maps, state, holder, encoder, orphans, crashed>>

\* A failure leaves the track source behind.
AddSource(t) ==
  LET i == ServiceId(t) IN
  /\ thread[t].pc = "addSource"
  /\ \/ /\ encoder' = [encoder EXCEPT ![i] = IF @ = "none" THEN "new" ELSE @]
        /\ Goto(t, "associate")
        /\ UNCHANGED conduct
     \/ /\ Return(t, "idle")
        /\ Note("leak")
        /\ UNCHANGED encoder
  /\ UNCHANGED <<service, maps, state, holder, source, orphans, crashed>>

Associate(t) ==
  LET c == Client(t) IN
  /\ thread[t].pc = "associate"
  /\ registered' = registered \cup {c}
  /\ sessions' = [sessions EXCEPT ![c] = @ \cup {thread[t].s}]
  /\ tracks' = [tracks EXCEPT ![c][thread[t].s] = @ \cup {thread[t].k}]
  /\ Return(t, "idle")
  /\ UNCHANGED <<service, state, holder, media, crashed, conduct>>

\* DeleteTrackSource.  A camera port that still has its consumer is kept, and
\* goes on running, and so does the thread of an audio source.
DeleteTrackSource(t) ==
  LET i == ServiceId(t) IN
  /\ thread[t].pc = "deleteTrack"
  /\ IF /\ IsClientValid(Client(t)) /\ IsSessionValid(Client(t), thread[t].s)
        /\ IsTrackValid(Client(t), thread[t].s, thread[t].k)
        /\ source[i] # "none"
       THEN /\ source' = [source EXCEPT ![i] = "none"]
            /\ orphans' = (orphans \/ source[i] \in Flowing)
            /\ Goto(t, IF IsEncoded(kind[thread[t].k]) THEN "deleteEncoder" ELSE "forget")
       ELSE Return(t, "tracks") /\ UNCHANGED <<source, orphans>>
  /\ UNCHANGED <<service, maps, state, holder, encoder, crashed, conduct>>

DeleteTrackEncoder(t) ==
  LET i == ServiceId(t) IN
  /\ thread[t].pc = "deleteEncoder"
  /\ IF encoder[i] # "none"
       THEN encoder' = [encoder EXCEPT ![i] = "none"] /\ Goto(t, "forget")
       ELSE Return(t, "tracks") /\ UNCHANGED encoder
  /\ UNCHANGED <<service, maps, state, holder, source, orphans, crashed, conduct>>

\* The track is erased under the feet of a loop over the session's tracks.
Forget(t) ==
  LET c == Client(t)
      s == thread[t].s IN
  /\ thread[t].pc = "forget"
  /\ tracks' = [tracks EXCEPT ![c][s] = @ \ {thread[t].k}]
  /\ crashed' = \E u \in Threads : /\ u # t /\ Client(u) = c /\ thread[u].s = s
                                   /\ thread[u].pc \in {"starting", "stopping"}
  /\ Return(t, "tracks")
  /\ UNCHANGED <<service, registered, sessions, state, holder, media, conduct>>

-----------------------------------------------------------------------------
(* The death of a client, and DeRegisterClient(client_id, true).           *)

Die(c) ==
  /\ life[c] = "alive" /\ c \in Mortal
  /\ life' = [life EXCEPT ![c] = "dead"]
  /\ UNCHANGED <<kind, cleaning, left, copied, maps, state, holder, media, thread,
                 crashed, conduct>>

\* The sessions and their tracks are copied.
CleanUp(c) ==
  /\ life[c] = "dead" /\ cleaning = None
  /\ cleaning' = c
  /\ left' = sessions[c] /\ copied' = tracks[c]
  /\ Goto(<<c, "death">>, "next")
  /\ conduct' = IF thread[<<c, "call">>].pc = "idle" THEN conduct ELSE {"race"}
  /\ UNCHANGED <<kind, life, maps, state, holder, media, crashed>>

GoToSession(c, to) ==
  LET t == <<c, "death">> IN
  /\ thread[t].pc = "next" /\ left # {}
  /\ thread' = [thread EXCEPT ![t].pc = to, ![t].s = Min(left)]
  /\ left' = left \ {Min(left)}
  /\ UNCHANGED <<kind, life, cleaning, copied, maps, state, holder, media, crashed,
                 conduct>>

\* Slip: the tracks are deleted without stopping the session.
NextSessionUnstopped(c) == GoToSession(c, "tracks")

\* StopSession of the next session.
NextSession(c) == GoToSession(c, "stop")

\* The tracks of the session that are left to delete.
TracksLeft(c) == copied[thread[<<c, "death">>].s]

\* The session's tracks in reverse order, then the session.
NextTrack(c) ==
  LET t == <<c, "death">> IN
  /\ thread[t].pc = "tracks"
  /\ IF TracksLeft(c) = {}
       THEN Goto(t, "deleteSession") /\ UNCHANGED copied
       ELSE LET k == Max(TracksLeft(c)) IN
            /\ thread' = [thread EXCEPT ![t].pc = "deleteTrack", ![t].k = k]
            /\ copied' = [copied EXCEPT ![thread[t].s] = @ \ {k}]
  /\ UNCHANGED <<kind, life, cleaning, left, maps, state, holder, media, crashed,
                 conduct>>

CleanedUp(c) ==
  LET t == <<c, "death">> IN
  /\ thread[t].pc = "next" /\ left = {}
  /\ thread' = [thread EXCEPT ![t] = Idle]
  /\ registered' = registered \ {c}
  /\ sessions' = [sessions EXCEPT ![c] = {}]
  /\ tracks' = [tracks EXCEPT ![c] = NoTracks]
  /\ crashed' = \E s \in SessionIds : Referenced(t, s)
  /\ life' = [life EXCEPT ![c] = "gone"] /\ cleaning' = None
  /\ UNCHANGED <<kind, left, copied, state, holder, media, conduct>>

-----------------------------------------------------------------------------
Creating == {t \in Threads : thread[t].pc = "createSession"}

Calls(c) ==
  \/ \E s \in SessionIds :
       \E op \in {"start", "stop", "pause", "resume", "deleteSession"} : Call(c, s, op)
  \/ /\ unique_session_id_ + Cardinality(Creating) < Bound(kind)
     /\ Call(c, 1, "createSession")
  \/ \E s \in SessionIds, k \in DOMAIN kind :
       \E op \in {"createTrack", "deleteTrack"} : CallTrack(c, s, k, op)

\* Any step of a thread that is inside the recorder.
Step(t) ==
  \/ CreateSession(t) \/ DeleteSession(t)
  \/ Enter(t, "start", "startLock") \/ StartLocked(t)
  \/ LoopDone(t, "starting", "active", "idle")
  \/ Enter(t, "stop", "stopLock") \/ StopLocked(t)
  \/ LoopDone(t, "stopping", "idle", "tracks")
  \/ Pause(t) \/ CopyTracks(t, "pauseCopy", "pausing")
  \/ LoopDone(t, "pausing", "pause", "idle")
  \/ Resume(t) \/ CopyTracks(t, "resumeCopy", "resuming")
  \/ LoopDone(t, "resuming", "active", "idle")
  \/ TrackStep(t)
  \/ CreateTrackSource(t) \/ AddSource(t) \/ Associate(t)
  \/ DeleteTrackSource(t) \/ DeleteTrackEncoder(t) \/ Forget(t)

CleanUpStep(c) == NextSession(c) \/ NextTrack(c) \/ CleanedUp(c)

Next ==
  /\ ~crashed
  /\ \/ \E c \in Clients : Calls(c) \/ Die(c) \/ CleanUp(c) \/ CleanUpStep(c)
     \/ \E t \in Threads : Step(t)

Spec == Init /\ [][Next]_vars

-----------------------------------------------------------------------------
\* No thread of the client is in the recorder.
Quiet(c) == thread[<<c, "call">>].pc = "idle" /\ thread[<<c, "death">>].pc = "idle"

\* Session ids are unique over all clients although the counter starts again
\* (DeleteSession), and sessions_state_ and sessions_mutex_map_, which are
\* keyed by session alone, have an entry exactly for the sessions in
\* client_session_map_.  True unless a client dies inside a call, or has a
\* track that cannot be deleted.
MapsAgree ==
  conduct \cap {"race", "leak"} = {} =>
    /\ \A c, d \in Clients : c # d => sessions[c] \cap sessions[d] = {}
    /\ UNION {sessions[c] : c \in Clients} = mutexes
    /\ \A s \in SessionIds : sessions_state_[s] # "none" <=> s \in mutexes
    /\ \A s \in mutexes : s <= unique_session_id_

\* "All tracks within a session changes states (like start, stop, pause)
\* together" (qmmf_recorder.h): between two calls of a client all tracks of a
\* session, sources and encoders, are in the state sessions_state_ says.
\* True as long as nothing fails and tracks come and go in idle sessions.
TracksTogether ==
  conduct = {} /\ ~crashed => \A c \in Clients : Quiet(c) =>
    \A s \in sessions[c] : \A k \in tracks[c][s] :
      LET i == GetUniqueServiceTrackId(c, s, k)
          st == sessions_state_[s]
          Follows(x) == CASE st = "active" -> x = "running"
                          [] st = "pause" -> x = "paused"
                          [] OTHER -> x \in {"new", "stopped"}
      IN /\ Follows(source[i])
         /\ kind[k] = "aac" => Follows(encoder[i])
         /\ kind[k] = "avc" => (encoder[i] = "running" <=> st \in {"active", "pause"})

\* Between two calls of a client there is a track source, and an encoder for
\* an encoded track, for exactly the tracks client_session_map_ lists: no
\* failed call, deleted track or cleanup leaves one behind or takes one away.
\* Once a cleanup is over (DeRegisterClient "is trying to free up his
\* resources"), nothing of the client is listed, even if a stop failed.
\* True unless AddSource fails, which leaves the source (CreateVideoTrack),
\* an RGB track is refused with NO_ERROR, or a client dies inside a call.
ListedTracksExist ==
  conduct \cap {"race", "leak"} = {} => \A c \in Clients : Quiet(c) =>
    /\ life[c] = "gone" => c \notin registered /\ sessions[c] = {}
    /\ \A s \in SessionIds, k \in DOMAIN kind :
         LET i == GetUniqueServiceTrackId(c, s, k)
             listed == c \in registered /\ s \in sessions[c] /\ k \in tracks[c][s]
         IN /\ source[i] # "none" <=> listed
            /\ encoder[i] # "none" <=> listed /\ IsEncoded(kind[k])

\* No track is deleted while it runs, which would leave its camera port or its
\* PulseAudio thread running: the cleanup stops a session before it deletes the tracks
\* (DeRegisterClient), and a session that says idle has none that run.  No assertion of
\* the track sources and camera ports fails, and no freed entry of client_session_map_
\* is used: a track is never started twice, or paused when it does not run.  True as
\* long as nothing fails, no client dies inside a call, and tracks come and go in idle
\* sessions.
NothingRunsOn ==
  /\ conduct = {} => ~orphans
  /\ conduct \subseteq {"leak"} => ~crashed

\* The maps of RecorderImpl that are keyed by session, and the tracks and
\* encoders that exist, are those of client_session_map_.
SessionMapsAgree == MapsAgree /\ ListedTracksExist

\* The tracks of a session do what its state says, and none runs on after it.
TracksFollowSession == TracksTogether /\ NothingRunsOn

=============================================================================
