----------------------- MODULE RecorderSessions_proofs -----------------------
(***************************************************************************)
(* Proof that the maps of RecorderImpl that are keyed by session, and the  *)
(* track sources and encoders that exist, are those of client_session_map_,*)
(* for any number of clients, sessions and tracks, as long as no client    *)
(* dies inside a call and no track is left behind by a failed call.        *)
(***************************************************************************)
EXTENDS RecorderSessions, FiniteSetTheorems, WellFoundedInduction, TLAPS

\* Most leaves are set and function reasoning; those that count or do
\* arithmetic cite SMT.
USE Zenon

Tidy == conduct \cap {"race", "leak"} = {}

\* Where a call goes through the tracks of a session, or waits to do so.
InSession == {"start", "startLock", "starting", "stop", "stopLock", "stopping",
              "pause", "pauseCopy", "pausing", "resume", "resumeCopy", "resuming"}
\* Where a track comes into being, and where it goes.
Coming == {"createTrack", "addSource", "associate"}
Going == {"deleteTrack", "deleteEncoder", "forget"}
CallPlaces == InSession \cup Coming \cup Going \cup {"idle", "createSession", "deleteSession"}
DeathPlaces == {"idle", "next", "stop", "stopLock", "stopping", "tracks", "deleteSession"}
                 \cup Going

Places == CallPlaces \cup DeathPlaces

Media == {"none", "new", "running", "paused", "stopped"}
Record == [pc : Places, s : SessionIds, k : Tracks \cup {Min(Tracks)},
           todo : SUBSET Tracks, failed : SUBSET {"audio", "video"}]
Shapes ==
  /\ kind \in Layouts
  /\ life \in [Clients -> {"alive", "dead", "gone"}]
  /\ registered \subseteq Clients
  /\ sessions \in [Clients -> SUBSET SessionIds]
  /\ tracks \in [Clients -> [SessionIds -> SUBSET DOMAIN kind]]
  /\ sessions_state_ \in [SessionIds -> {"none", "idle", "active", "pause"}]
  /\ mutexes \subseteq SessionIds
  /\ source \in [ServiceIds -> Media] /\ encoder \in [ServiceIds -> Media]
  /\ left \subseteq SessionIds /\ copied \in [SessionIds -> SUBSET DOMAIN kind]
\* There is a session id for every call that creates a session.
Counted ==
  unique_session_id_ \in Nat /\ unique_session_id_ + Cardinality(Creating) <= MaxSession
Types ==
  /\ Shapes /\ Counted /\ thread \in [Threads -> Record]
  /\ \A t \in Threads : thread[t].pc \in Coming => thread[t].k \in DOMAIN kind

\* The maps keyed by session have the keys of client_session_map_.
Keyed ==
  /\ \A c, d \in Clients : c # d => sessions[c] \cap sessions[d] = {}
  /\ UNION {sessions[c] : c \in Clients} = mutexes
  /\ \A s \in SessionIds : sessions_state_[s] # "none" <=> s \in mutexes
  /\ \A s \in mutexes : s <= unique_session_id_

\* One thread at most is at work for a client, the call or the cleanup.
Alone(c, call, death) ==
  /\ life[c] # "gone" <=> c \in registered
  /\ life[c] = "gone" => sessions[c] = {} /\ call.pc = "idle" /\ death.pc = "idle"
  /\ death.pc # "idle" => cleaning = c /\ life[c] = "dead" /\ call.pc = "idle"
  /\ call.pc \in CallPlaces /\ death.pc \in DeathPlaces

\* What the place of a thread w of client c says of its session and its track.
Placed(c, w) ==
  /\ w.pc \notin {"idle", "createSession", "next"} => w.s \in sessions[c]
  /\ w.pc \in Coming => w.k \in DOMAIN kind \ tracks[c][w.s]
  /\ w.pc \in Going => w.k \in tracks[c][w.s]
  /\ w.pc \in {"addSource", "deleteEncoder"} => IsEncoded(kind[w.k])
  /\ w.pc = "deleteSession" => tracks[c][w.s] = {}

\* The cleanup w of client c misses no session and no track.
Thorough(c, w) ==
  w.pc # "idle" =>
    /\ \A s \in left : copied[s] = tracks[c][s]
    /\ w.pc = "next" => sessions[c] = left
    /\ w.pc # "next" => w.s \notin left /\ sessions[c] = left \cup {w.s}
    /\ w.pc \notin Going \cup {"next"} => tracks[c][w.s] = copied[w.s]
    /\ w.pc \in Going => tracks[c][w.s] = copied[w.s] \cup {w.k} /\ w.k \notin copied[w.s]

\* Thread w is at track k of session s, at one of the places.
Here(w, s, k, places) == w.pc \in places /\ w.s = s /\ w.k = k

\* The source and the encoder of a track are there exactly for a track that is
\* listed, or about to be, and that is not about to be erased.
HasSource(c, s, k, call, death) ==
  \/ /\ k \in tracks[c][s]
     /\ ~Here(call, s, k, {"deleteEncoder", "forget"})
     /\ ~Here(death, s, k, {"deleteEncoder", "forget"})
  \/ Here(call, s, k, {"addSource", "associate"})
HasEncoder(c, s, k, call, death) ==
  /\ IsEncoded(kind[k])
  /\ \/ k \in tracks[c][s] /\ ~Here(call, s, k, {"forget"}) /\ ~Here(death, s, k, {"forget"})
     \/ Here(call, s, k, {"associate"})
Exists(c, call, death) ==
  \A s \in SessionIds, k \in DOMAIN kind :
    LET i == GetUniqueServiceTrackId(c, s, k) IN
    /\ source[i] # "none" <=> HasSource(c, s, k, call, death)
    /\ encoder[i] # "none" <=> HasEncoder(c, s, k, call, death)

OfClient(c, call, death) ==
  /\ Alone(c, call, death) /\ Placed(c, call) /\ Placed(c, death) /\ Thorough(c, death)
  /\ Exists(c, call, death)
  /\ \A s \in SessionIds : s \notin sessions[c] => tracks[c][s] = {}

Order == Keyed /\ \A c \in Clients : OfClient(c, thread[<<c, "call">>], thread[<<c, "death">>])

\* The inductive invariant.
IInv == Types /\ (Tidy => Order)
-----------------------------------------------------------------------------
\* A set of natural numbers has a least element.
LEMMA LeastNatural ==
  ASSUME NEW S, S \subseteq Nat, S # {}
  PROVE  \E m \in S : \A x \in S : m <= x
<1> DEFINE R == OpToRel(<, Nat)
<1>1. IsWellFoundedOn(R, Nat)
  BY NatLessThanWellFounded
<1>2. \A x, y \in Nat : x < y => <<x, y>> \in R
  BY DEF OpToRel
<1> HIDE DEF R
<1>3. PICK m \in S : \A x \in S : ~(<<x, m>> \in R)
  BY <1>1, WFMin
<1>4. \A x \in S : ~(x < m)
  BY <1>2, <1>3
<1> QED
  BY SMT, <1>4

\* The smallest and the largest of some session or track ids are among them.
LEMMA MinIn ==
  ASSUME NEW S, S \subseteq Nat, S # {}
  PROVE  Min(S) \in S
<1>1. \E m \in S : \A x \in S : m <= x
  BY LeastNatural
<1> QED
  BY <1>1 DEF Min

LEMMA MaxIn ==
  ASSUME NEW n \in Nat, NEW S, S \subseteq 0 .. n, S # {}
  PROVE  Max(S) \in S
<1> DEFINE T == {n - x : x \in S}
<1>1. T \subseteq Nat /\ T # {}
  <2>1. \A x \in S : x \in Nat /\ n - x \in Nat
    BY SMT
  <2> QED
    BY <2>1
<1>2. PICK m \in T : \A y \in T : m <= y
  BY <1>1, LeastNatural
<1>3. PICK x \in S : m = n - x
  BY <1>2
<1>4. \A y \in S : x >= y
  BY SMT, <1>2, <1>3
<1> QED
  BY <1>4 DEF Max

\* Different tracks have different service track ids.
LEMMA IdsDiffer ==
  ASSUME NEW c \in Clients, NEW s \in SessionIds, NEW k \in Tracks,
         NEW d \in Clients, NEW r \in SessionIds, NEW j \in Tracks,
         GetUniqueServiceTrackId(c, s, k) = GetUniqueServiceTrackId(d, r, j)
  PROVE  c = d /\ s = r /\ k = j
<1>1. /\ c \in Nat /\ d \in Nat
      /\ s \in Nat /\ s <= 255 /\ r \in Nat /\ r <= 255
      /\ k \in Nat /\ k <= 65535 /\ j \in Nat /\ j <= 65535
  BY SMT, SessionsAssumption DEF SessionIds
<1>2. 2^24 = 16777216 /\ 2^16 = 65536
  BY SMT
<1> QED
  BY SMT, <1>1, <1>2 DEF GetUniqueServiceTrackId
-----------------------------------------------------------------------------
\* Thread t goes to another place, or rests; the others stay where they are.
Alters(t) ==
  thread' \in [Threads -> Record] /\ \A u \in Threads : u # t => thread'[u] = thread[u]
Moves(t, to) ==
  Alters(t) /\ thread'[t].pc = to /\ thread'[t].s = thread[t].s /\ thread'[t].k = thread[t].k
Rests(t) == Alters(t) /\ thread'[t].pc = "idle"

LEMMA IdleRecord == Idle \in Record /\ Idle.pc = "idle"
<1>1. 1 \in SessionIds
  BY SMT, SessionsAssumption DEF SessionIds
<1>2. "idle" \in Places
  BY DEF Places, CallPlaces
<1> QED
  BY <1>1, <1>2 DEF Idle, Record

LEMMA GotoMoves ==
  ASSUME Types, NEW t \in Threads, NEW to \in Places, Goto(t, to)
  PROVE  Moves(t, to)
<1>1. thread \in [Threads -> Record] /\ thread[t] \in Record
  BY DEF Types
<1>2. [thread[t] EXCEPT !.pc = to] \in Record
  BY <1>1 DEF Record
<1>3. thread' = [thread EXCEPT ![t] = [thread[t] EXCEPT !.pc = to]]
  BY DEF Goto
<1>4. thread' \in [Threads -> Record] /\ thread'[t] = [thread[t] EXCEPT !.pc = to]
  BY <1>1, <1>2, <1>3
<1>5. thread'[t].pc = to /\ thread'[t].s = thread[t].s /\ thread'[t].k = thread[t].k
  BY <1>1, <1>4 DEF Record
<1> QED
  BY <1>1, <1>3, <1>4, <1>5 DEF Moves, Alters

LEMMA ReturnMoves ==
  ASSUME Types, NEW t \in Threads, NEW to \in Places, Return(t, to)
  PROVE  (t[2] = "call" /\ Rests(t)) \/ (t[2] = "death" /\ Moves(t, to))
<1>1. t[2] \in {"call", "death"}
  BY DEF Threads
<1>2. CASE t[2] = "call"
  <2>1. thread' = [thread EXCEPT ![t] = Idle]
    BY <1>2 DEF Return
  <2> QED
    BY <1>2, <2>1, IdleRecord DEF Rests, Alters, Types
<1>3. CASE t[2] = "death"
  BY <1>3, GotoMoves DEF Return
<1> QED
  BY <1>1, <1>2, <1>3

LEMMA LoopMoves ==
  ASSUME Types, NEW t \in Threads, NEW to \in Places, NEW ts \in SUBSET Tracks,
         Loop(t, to, ts)
  PROVE  Moves(t, to)
<1> DEFINE w == [thread[t] EXCEPT !.pc = to, !.todo = ts, !.failed = {}]
<1>1. thread \in [Threads -> Record] /\ thread[t] \in Record
  BY DEF Types
<1>2. w \in Record /\ w.pc = to /\ w.s = thread[t].s /\ w.k = thread[t].k
  BY <1>1 DEF Record
<1>3. thread' = [thread EXCEPT ![t] = w]
  BY DEF Loop
<1> HIDE DEF w
<1> QED
  BY <1>1, <1>2, <1>3 DEF Moves, Alters

\* The threads that are about to create a session.
LEMMA CreatingKept ==
  ASSUME Types, NEW t \in Threads, Alters(t), thread'[t].pc # "createSession"
  PROVE  Creating' \subseteq Creating
BY DEF Alters, Creating

LEMMA ThreadsFinite == IsFiniteSet(Threads) /\ IsFiniteSet(Creating)
<1>0. PICK n \in Nat : \A c \in Clients : c \in Nat \ {0} /\ c <= n
  BY SMT, SessionsAssumption
<1>1. IsFiniteSet(1 .. n)
  BY SMT, FS_Interval
<1>2. Clients \subseteq 1 .. n
  BY SMT, <1>0
<1>3. IsFiniteSet(Clients)
  BY <1>1, <1>2, FS_Subset
<1>4. IsFiniteSet({"call"}) /\ IsFiniteSet({"death"})
  BY FS_Singleton
<1>5. IsFiniteSet({"call"} \cup {"death"})
  BY <1>4, FS_Union
<1>6. {"call", "death"} = {"call"} \cup {"death"}
  OBVIOUS
<1>7. IsFiniteSet(Threads)
  BY <1>3, <1>5, <1>6, FS_Product DEF Threads
<1> QED
  BY <1>7, FS_Subset DEF Creating
-----------------------------------------------------------------------------
(* What is done to a track neither makes nor removes a source or encoder.  *)

Same(x, y) == x = "none" <=> y = "none"
Sound(pairs, x) == \A o \in pairs : o[2] \in Media /\ Same(o[2], x)

LEMMA OutcomesSound ==
  ASSUME NEW op \in {"starting", "stopping", "pausing", "resuming"}, NEW f,
         NEW x \in Media, NEW y \in Media, NEW o \in Outcomes(op, f, x, y)
  PROVE  /\ o.source \in Media /\ o.encoder \in Media
         /\ Same(o.source, x) /\ Same(o.encoder, y)
<1>1. Sound(SourceStart(f, x), x)
  BY SMT DEF Sound, SourceStart, Same, Media, Flowing
<1>2. Sound(SourceStop(f, x), x)
  BY SMT DEF Sound, SourceStop, Same, Media, Flowing
<1>3. Sound(EncoderStart(f, y), y)
  BY SMT DEF Sound, EncoderStart, Same, Media, Flowing
<1>4. Sound(EncoderStop(f, y), y)
  BY SMT DEF Sound, EncoderStop, Same, Media, Flowing
<1>5. /\ Sound(SourceTurn(f, x, "running", "paused"), x)
      /\ Sound(SourceTurn(f, x, "paused", "running"), x)
  BY SMT DEF Sound, SourceTurn, Same, Media, Flowing
<1>6. Sound(EncoderTurn(f, y, "paused"), y) /\ Sound(EncoderTurn(f, y, "running"), y)
  BY SMT DEF Sound, EncoderTurn, Same, Media, Flowing
<1>7. ASSUME NEW sources, NEW encoders, Sound(sources, x), Sound(encoders, y),
             o \in Both(f, sources, encoders, y)
      PROVE  /\ o.source \in Media /\ o.encoder \in Media
             /\ Same(o.source, x) /\ Same(o.encoder, y)
  <2>1. CASE \E a \in sources : o = [result |-> a[1], source |-> a[2], encoder |-> y]
    BY SMT, <1>7, <2>1 DEF Sound, Same
  <2>2. CASE \E a \in sources, e \in encoders :
               o = [result |-> e[1], source |-> a[2], encoder |-> e[2]]
    BY SMT, <1>7, <2>2 DEF Sound, Same
  <2> QED
    BY SMT, <1>7, <2>1, <2>2 DEF Both
<1>8. CASE op = "starting"
  BY <1>1, <1>3, <1>7, <1>8 DEF Outcomes
<1>9. CASE op = "stopping"
  BY <1>2, <1>4, <1>7, <1>9 DEF Outcomes
<1>10. CASE op = "pausing"
  BY <1>5, <1>6, <1>7, <1>10 DEF Outcomes
<1>11. CASE op = "resuming"
  BY <1>5, <1>6, <1>7, <1>11 DEF Outcomes
<1> QED
  BY <1>8, <1>9, <1>10, <1>11

MediaKept ==
  /\ source' \in [ServiceIds -> Media] /\ encoder' \in [ServiceIds -> Media]
  /\ \A i \in ServiceIds : Same(source'[i], source[i]) /\ Same(encoder'[i], encoder[i])

LEMMA TrackStepKeeps ==
  ASSUME Types, NEW t \in Threads, TrackStep(t)
  PROVE  Moves(t, thread[t].pc) /\ MediaKept
<1>1. PICK k : OnTrack(t, k)
  BY DEF TrackStep
<1> DEFINE i == GetUniqueServiceTrackId(Client(t), thread[t].s, k)
<1>2. PICK o \in Outcomes(thread[t].pc, kind[k], source[i], encoder[i]) :
        /\ source' = [source EXCEPT ![i] = o.source]
        /\ encoder' = [encoder EXCEPT ![i] = o.encoder]
  BY <1>1 DEF OnTrack
<1>3. MediaKept
  <2> HIDE DEF i
  <2>1. CASE i \in ServiceIds
    <3>1. source[i] \in Media /\ encoder[i] \in Media
      BY <2>1 DEF Types, Shapes
    <3>2. thread[t].pc \in {"starting", "stopping", "pausing", "resuming"}
      BY DEF TrackStep
    <3>3. /\ o.source \in Media /\ o.encoder \in Media
          /\ Same(o.source, source[i]) /\ Same(o.encoder, encoder[i])
      BY <1>2, <3>1, <3>2, OutcomesSound
    <3> QED
      BY <1>2, <2>1, <3>3 DEF MediaKept, Types, Shapes, Same
  <2>2. CASE i \notin ServiceIds
    <3>1. source' = source /\ encoder' = encoder
      BY SMT, <1>2, <2>2 DEF Types, Shapes
    <3> QED
      BY <3>1 DEF MediaKept, Types, Shapes, Same
  <2> QED
    BY <2>1, <2>2
<1>4. PICK w \in Record : /\ thread' = [thread EXCEPT ![t] = w]
                         /\ w.pc = thread[t].pc /\ w.s = thread[t].s /\ w.k = thread[t].k
  <2>1. thread \in [Threads -> Record] /\ thread[t] \in Record
    BY DEF Types
  <2>2. CASE \E loop, x : /\ thread' = [thread EXCEPT ![t].todo = @ \ loop, ![t].failed = @ \cup {x}]
                          /\ x \in {"audio", "video"}
    <3>1. PICK loop, x : /\ thread' = [thread EXCEPT ![t].todo = @ \ loop, ![t].failed = @ \cup {x}]
                         /\ x \in {"audio", "video"}
      BY <2>2
    <3> DEFINE w == [thread[t] EXCEPT !.todo = @ \ loop, !.failed = @ \cup {x}]
    <3>2. w \in Record /\ w.pc = thread[t].pc /\ w.s = thread[t].s /\ w.k = thread[t].k
      BY <2>1, <3>1 DEF Record
    <3>3. thread' = [thread EXCEPT ![t] = w]
      BY <3>1
    <3> QED
      BY <3>2, <3>3
  <2>3. CASE thread' = [thread EXCEPT ![t].todo = @ \ {k}]
    <3> DEFINE w == [thread[t] EXCEPT !.todo = @ \ {k}]
    <3>2. w \in Record /\ w.pc = thread[t].pc /\ w.s = thread[t].s /\ w.k = thread[t].k
      BY <2>1 DEF Record
    <3>3. thread' = [thread EXCEPT ![t] = w]
      BY <2>3
    <3> QED
      BY <3>2, <3>3
  <2> QED
    BY <1>1, <2>2, <2>3 DEF OnTrack
<1>5. Moves(t, thread[t].pc)
  <2>1. thread \in [Threads -> Record]
    BY DEF Types
  <2> QED
    BY <1>4, <2>1 DEF Moves, Alters
<1> QED
  BY <1>3, <1>5
-----------------------------------------------------------------------------
(* Types.                                                                  *)

LEMMA CountKept ==
  ASSUME Types, NEW t \in Threads, Alters(t), thread'[t].pc # "createSession",
         unique_session_id_' \in {0, unique_session_id_}
  PROVE  Counted'
<1>1. PICK S : S = Creating' /\ S \subseteq Creating
  BY CreatingKept
<1>2. /\ Cardinality(Creating) \in Nat /\ Cardinality(S) \in Nat
      /\ Cardinality(S) <= Cardinality(Creating)
  BY <1>1, ThreadsFinite, FS_Subset, FS_CardinalityType
<1>3. MaxSession \in Nat
  BY SMT, SessionsAssumption
<1> QED
  BY SMT, <1>1, <1>2, <1>3 DEF Counted, Types

LEMMA TypesKept ==
  ASSUME Types, NEW t \in Threads, Alters(t), Shapes', kind' = kind,
         thread'[t].pc # "createSession",
         thread'[t].pc \in Coming => thread'[t].k \in DOMAIN kind,
         unique_session_id_' \in {0, unique_session_id_}
  PROVE  Types'
<1>1. Counted'
  BY CountKept
<1>2. \A u \in Threads : thread'[u].pc \in Coming => thread'[u].k \in DOMAIN kind'
  BY DEF Types, Alters
<1> QED
  BY <1>1, <1>2 DEF Types, Alters

LEMMA NoteTidy ==
  ASSUME NEW what, Note(what), Tidy'
  PROVE  Tidy /\ what \notin {"race", "leak"}
BY DEF Note, Tidy
-----------------------------------------------------------------------------
(* What one client sees.                                                   *)

\* The maps, sources and encoders of client c stay as they are, and so does
\* the copy of its cleanup, whose thread is w.
Steady(c, w) ==
  /\ kind' = kind /\ life'[c] = life[c] /\ (c \in registered' <=> c \in registered)
  /\ sessions'[c] = sessions[c] /\ tracks'[c] = tracks[c]
  /\ \A s \in SessionIds, k \in DOMAIN kind :
       LET i == GetUniqueServiceTrackId(c, s, k) IN
       Same(source'[i], source[i]) /\ Same(encoder'[i], encoder[i])
  /\ w.pc # "idle" => cleaning' = cleaning /\ left' = left /\ copied' = copied

LEMMA SteadyKept ==
  ASSUME NEW c \in Clients, NEW call, NEW death, Steady(c, death), OfClient(c, call, death)
  PROVE  OfClient(c, call, death)'
<1>1. Alone(c, call, death)'
  BY DEF Steady, OfClient, Alone
<1>2. Placed(c, call)' /\ Placed(c, death)'
  BY DEF Steady, OfClient, Placed
<1>3. Thorough(c, death)'
  BY DEF Steady, OfClient, Thorough
<1>4. Exists(c, call, death)'
  <2> SUFFICES ASSUME NEW s \in SessionIds, NEW k \in DOMAIN kind, NEW i,
                      i = GetUniqueServiceTrackId(c, s, k)
               PROVE  /\ source'[i] # "none" <=> HasSource(c, s, k, call, death)'
                      /\ encoder'[i] # "none" <=> HasEncoder(c, s, k, call, death)'
    BY DEF Exists, Steady
  <2>1. /\ source[i] # "none" <=> HasSource(c, s, k, call, death)
        /\ encoder[i] # "none" <=> HasEncoder(c, s, k, call, death)
    BY DEF OfClient, Exists
  <2>2. Same(source'[i], source[i]) /\ Same(encoder'[i], encoder[i])
    BY DEF Steady
  <2>3. /\ HasSource(c, s, k, call, death)' <=> HasSource(c, s, k, call, death)
        /\ HasEncoder(c, s, k, call, death)' <=> HasEncoder(c, s, k, call, death)
    BY DEF Steady, HasSource, HasEncoder, Here
  <2> QED
    BY <2>1, <2>2, <2>3 DEF Same
<1> QED
  BY <1>1, <1>2, <1>3, <1>4 DEF OfClient, Steady

\* A call goes on inside its session, or returns from it.
LEMMA InnerCall ==
  ASSUME NEW c \in Clients, NEW call, NEW death, NEW w, Steady(c, death),
         OfClient(c, call, death), call.pc \in InSession,
         w.pc = "idle" \/ (w.pc \in InSession /\ w.s = call.s)
  PROVE  OfClient(c, w, death)'
<1>1. OfClient(c, w, death)
  <2>1. Alone(c, w, death)
    BY DEF OfClient, Alone, InSession, CallPlaces
  <2>2. Placed(c, w)
    BY DEF OfClient, Placed, InSession, Coming, Going
  <2>3. Exists(c, w, death)
    BY SMT DEF OfClient, Exists, HasSource, HasEncoder, Here, InSession
  <2> QED
    BY <2>1, <2>2, <2>3 DEF OfClient
<1> QED
  BY <1>1, SteadyKept

\* So does a cleanup, which goes on with the tracks.
LEMMA InnerDeath ==
  ASSUME NEW c \in Clients, NEW call, NEW death, NEW w, Steady(c, death),
         OfClient(c, call, death), death.pc \in {"stop", "stopLock", "stopping"},
         w.pc \in {"stopLock", "stopping", "tracks"}, w.s = death.s
  PROVE  OfClient(c, call, w)'
<1>1. OfClient(c, call, w)
  <2>1. Alone(c, call, w)
    BY DEF OfClient, Alone, DeathPlaces
  <2>2. Placed(c, w)
    BY DEF OfClient, Placed, Coming, Going
  <2>3. Exists(c, call, w)
    BY SMT DEF OfClient, Exists, HasSource, HasEncoder, Here
  <2>4. Thorough(c, w)
    BY DEF OfClient, Thorough, Going
  <2> QED
    BY <2>1, <2>2, <2>3, <2>4 DEF OfClient
<1>2. Steady(c, w)
  BY DEF Steady
<1> QED
  BY <1>1, <1>2, SteadyKept
\* Only sources and encoders of client c come or go.
MediaOf(c) ==
  /\ source' \in [ServiceIds -> Media] /\ encoder' \in [ServiceIds -> Media]
  /\ \A i \in ServiceIds :
       \/ \E s \in SessionIds, k \in Tracks : i = GetUniqueServiceTrackId(c, s, k)
       \/ Same(source'[i], source[i]) /\ Same(encoder'[i], encoder[i])

LEMMA KindTracks ==
  ASSUME Types
  PROVE  /\ DOMAIN kind \subseteq Tracks
         /\ \A c \in Clients, s \in SessionIds, k \in DOMAIN kind :
              GetUniqueServiceTrackId(c, s, k) \in ServiceIds
<1>1. DOMAIN kind \subseteq Tracks
  BY SMT, SessionsAssumption DEF Types, Shapes
<1> QED
  BY SMT, <1>1 DEF ServiceIds

\* What another client d sees of a step for client c.
LEMMA OtherSteady ==
  ASSUME Types, NEW c \in Clients, NEW d \in Clients, d # c, NEW w, MediaOf(c),
         kind' = kind, life'[d] = life[d], d \in registered' <=> d \in registered,
         sessions'[d] = sessions[d], tracks'[d] = tracks[d],
         w.pc # "idle" => cleaning' = cleaning /\ left' = left /\ copied' = copied
  PROVE  Steady(d, w)
<1>1. ASSUME NEW s \in SessionIds, NEW k \in DOMAIN kind, NEW i,
             i = GetUniqueServiceTrackId(d, s, k)
      PROVE  Same(source'[i], source[i]) /\ Same(encoder'[i], encoder[i])
  <2>1. k \in Tracks /\ i \in ServiceIds
    BY <1>1, KindTracks
  <2>2. ASSUME NEW r \in SessionIds, NEW j \in Tracks, i = GetUniqueServiceTrackId(c, r, j)
        PROVE  FALSE
    <3>1. GetUniqueServiceTrackId(d, s, k) = GetUniqueServiceTrackId(c, r, j)
      BY <1>1, <2>2
    <3>2. d = c
      BY SMT, <2>1, <3>1, IdsDiffer
    <3> QED
      BY <3>2
  <2> QED
    BY <2>1, <2>2 DEF MediaOf
<1> QED
  BY <1>1 DEF Steady

\* The maps of the other clients stay as they are.
OthersKept(c) ==
  /\ kind' = kind
  /\ \A d \in Clients : d # c =>
       /\ life'[d] = life[d] /\ (d \in registered' <=> d \in registered)
       /\ sessions'[d] = sessions[d] /\ tracks'[d] = tracks[d]
       /\ thread[<<d, "death">>].pc # "idle" =>
            cleaning' = cleaning /\ left' = left /\ copied' = copied

LEMMA OrderFrom ==
  ASSUME Types, Order, NEW c \in Clients, NEW t \in Threads, Client(t) = c, Alters(t),
         OthersKept(c), MediaOf(c), Keyed',
         OfClient(c, thread[<<c, "call">>], thread[<<c, "death">>])'
  PROVE  Order'
<1> SUFFICES ASSUME NEW d \in Clients, d # c
             PROVE  OfClient(d, thread[<<d, "call">>], thread[<<d, "death">>])'
  BY DEF Order
<1>1. PICK call, death : call = thread[<<d, "call">>] /\ death = thread[<<d, "death">>]
  OBVIOUS
<1>2. OfClient(d, call, death)
  BY <1>1 DEF Order
<1>3. Steady(d, death)
  BY <1>1, OtherSteady DEF OthersKept
<1>4. OfClient(d, call, death)'
  BY <1>2, <1>3, SteadyKept
<1>5. call = thread'[<<d, "call">>] /\ death = thread'[<<d, "death">>]
  <2>1. <<d, "call">> \in Threads /\ <<d, "death">> \in Threads
    BY DEF Threads
  <2>2. <<d, "call">> # t /\ <<d, "death">> # t
    BY SMT DEF Client
  <2> QED
    BY <1>1, <2>1, <2>2 DEF Alters
<1> QED
  BY <1>4, <1>5

LEMMA Whose ==
  ASSUME NEW t \in Threads
  PROVE  /\ Client(t) \in Clients /\ t[2] \in {"call", "death"}
         /\ t = <<Client(t), t[2]>>
BY SMT DEF Threads, Client
-----------------------------------------------------------------------------
(* A step of a thread inside a session: StartSession, StopSession,         *)
(* PauseSession and ResumeSession.                                         *)

Goes(t) ==
  \/ t[2] = "call" /\ Rests(t)
  \/ \E to \in InSession \cup {"tracks", "idle"} :
       /\ Moves(t, to)
       /\ t[2] = "call" => to \in InSession
       /\ t[2] = "death" /\ thread[t].pc \in DeathPlaces => to \in {"stopLock", "stopping", "tracks"}

Inner(t) ==
  /\ thread[t].pc \in InSession /\ Goes(t) /\ MediaKept /\ (Tidy' => Tidy)
  /\ kind' = kind /\ life' = life /\ cleaning' = cleaning /\ left' = left /\ copied' = copied
  /\ tracks' = tracks /\ mutexes' = mutexes /\ unique_session_id_' = unique_session_id_
  /\ registered' \in {registered, registered \cup {Client(t)}}
  /\ sessions' \in {sessions, [sessions EXCEPT ![Client(t)] = @ \cup {thread[t].s}]}
  /\ \E st \in {"none", "idle", "active", "pause"} :
       /\ sessions_state_' \in {sessions_state_, [sessions_state_ EXCEPT ![thread[t].s] = st]}
       /\ sessions_state_[thread[t].s] # "none" => st # "none"

LEMMA InnerTypes ==
  ASSUME Types, NEW t \in Threads, Inner(t)
  PROVE  Types' /\ Alters(t)
<1>1. thread[t] \in Record /\ thread[t].s \in SessionIds
  BY DEF Types, Record
<1>2. Alters(t) /\ thread'[t].pc \in InSession \cup {"tracks", "idle"}
  BY DEF Inner, Goes, Moves, Rests
<1>3. Client(t) \in Clients
  BY Whose
<1>4. Shapes'
  <2>1. sessions' \in [Clients -> SUBSET SessionIds]
    BY SMT, <1>1, <1>3 DEF Types, Shapes, Inner
  <2>2. sessions_state_' \in [SessionIds -> {"none", "idle", "active", "pause"}]
    BY <1>1 DEF Types, Shapes, Inner
  <2>3. registered' \subseteq Clients
    BY <1>3 DEF Types, Shapes, Inner
  <2> QED
    BY <2>1, <2>2, <2>3 DEF Types, Shapes, Inner, MediaKept
<1>5. /\ thread[t].pc # "createSession" /\ thread'[t].pc # "createSession"
      /\ thread'[t].pc \notin Coming
  BY <1>2 DEF Inner, InSession, Coming
<1> QED
  BY <1>2, <1>4, <1>5, TypesKept DEF Inner

LEMMA InnerKeeps ==
  ASSUME IInv, NEW t \in Threads, Inner(t)
  PROVE  IInv'
<1>1. Types /\ Types' /\ Alters(t)
  BY InnerTypes DEF IInv
<1> SUFFICES ASSUME Tidy' PROVE Order'
  BY <1>1 DEF IInv
<1>2. Order
  BY DEF IInv, Inner
<1>3. PICK c \in Clients : c = Client(t)
  BY Whose
<1>4. PICK call, death : call = thread[<<c, "call">>] /\ death = thread[<<c, "death">>]
  OBVIOUS
<1>5. OfClient(c, call, death)
  BY <1>2, <1>4 DEF Order
<1>6. t \in {<<c, "call">>, <<c, "death">>} /\ thread[t] \in {call, death}
  BY <1>3, <1>4, Whose
<1>7. thread[t].s \in SessionIds /\ thread[t].s \in sessions[c] /\ c \in registered
  <2>1. thread[t].s \in SessionIds
    BY <1>1 DEF Types, Record
  <2>2. thread[t].pc \notin {"idle", "createSession", "next"}
    BY DEF Inner, InSession
  <2> QED
    BY <1>5, <1>6, <2>1, <2>2 DEF OfClient, Placed, Alone
<1>8. sessions' = sessions /\ registered' = registered
  <2>1. registered \cup {c} = registered /\ sessions[c] \cup {thread[t].s} = sessions[c]
    BY <1>7
  <2>2. [sessions EXCEPT ![c] = @ \cup {thread[t].s}] = sessions
    BY <1>1, <2>1 DEF Types, Shapes
  <2> QED
    BY <1>3, <2>1, <2>2 DEF Inner
<1>9. Keyed'
  <2>1. thread[t].s \in mutexes /\ sessions_state_[thread[t].s] # "none"
    BY <1>2, <1>7 DEF Order, Keyed
  <2>2. \A s \in SessionIds : sessions_state_'[s] # "none" <=> sessions_state_[s] # "none"
    BY <1>1, <1>7, <2>1 DEF Inner, Types, Shapes
  <2> QED
    BY SMT, <1>2, <1>8, <2>2 DEF Order, Keyed, Inner
<1>10. Steady(c, death)
  BY <1>1, <1>8, KindTracks DEF Steady, Inner, MediaKept
<1>11. OfClient(c, thread[<<c, "call">>], thread[<<c, "death">>])'
  <2>0. <<c, "call">> \in Threads /\ <<c, "death">> \in Threads /\ <<c, "call">> # <<c, "death">>
    BY DEF Threads
  <2>1. PICK w : w = thread'[t]
    OBVIOUS
  <2>2. CASE t = <<c, "call">>
    <3>1. call.pc \in InSession /\ (w.pc = "idle" \/ (w.pc \in InSession /\ w.s = call.s))
      BY <1>4, <2>1, <2>2 DEF Inner, Goes, Moves, Rests
    <3>2. OfClient(c, w, death)'
      BY <1>5, <1>10, <3>1, InnerCall
    <3>3. thread'[<<c, "call">>] = w /\ thread'[<<c, "death">>] = death
      BY <1>1, <1>4, <2>0, <2>1, <2>2 DEF Alters
    <3> QED
      BY <3>2, <3>3
  <2>3. CASE t = <<c, "death">>
    <3>0. death.pc \in DeathPlaces /\ death.pc \in InSession
      BY <1>4, <1>5, <2>3 DEF OfClient, Alone, Inner
    <3>1. death.pc \in {"stop", "stopLock", "stopping"}
      BY <3>0 DEF DeathPlaces, InSession, Going
    <3>2. w.pc \in {"stopLock", "stopping", "tracks"} /\ w.s = death.s
      BY <1>4, <2>1, <2>3, <3>0 DEF Inner, Goes, Moves, Rests
    <3>3. OfClient(c, call, w)'
      BY <1>5, <1>10, <3>1, <3>2, InnerDeath
    <3>4. thread'[<<c, "call">>] = call /\ thread'[<<c, "death">>] = w
      BY <1>1, <1>4, <2>0, <2>1, <2>3 DEF Alters
    <3> QED
      BY <3>3, <3>4
  <2> QED
    BY <1>6, <2>2, <2>3
<1>12. OthersKept(c) /\ MediaOf(c)
  BY <1>8 DEF OthersKept, MediaOf, MediaKept, Inner
<1> QED
  BY <1>1, <1>2, <1>3, <1>9, <1>11, <1>12, OrderFrom
\* The steps inside a session.
InnerStep(t) ==
  \/ Enter(t, "start", "startLock") \/ StartLocked(t)
  \/ LoopDone(t, "starting", "active", "idle")
  \/ Enter(t, "stop", "stopLock") \/ StopLocked(t)
  \/ LoopDone(t, "stopping", "idle", "tracks")
  \/ Pause(t) \/ CopyTracks(t, "pauseCopy", "pausing")
  \/ LoopDone(t, "pausing", "pause", "idle")
  \/ Resume(t) \/ CopyTracks(t, "resumeCopy", "resuming")
  \/ LoopDone(t, "resuming", "active", "idle")
  \/ TrackStep(t)

LEMMA ReturnGoes ==
  ASSUME Types, NEW t \in Threads, NEW to \in {"tracks", "idle"}, Return(t, to),
         thread[t].pc \in DeathPlaces => to = "tracks"
  PROVE  Goes(t)
<1>1. to \in Places
  BY DEF Places, CallPlaces, DeathPlaces
<1> QED
  BY <1>1, ReturnMoves DEF Goes

LEMMA MovesGoes ==
  ASSUME NEW t \in Threads, NEW to \in InSession, Moves(t, to),
         thread[t].pc \in DeathPlaces => to \in {"stopLock", "stopping"}
  PROVE  Goes(t)
BY DEF Goes

LEMMA MediaSame ==
  ASSUME Types, source' = source, encoder' = encoder
  PROVE  MediaKept /\ \A c \in Clients : MediaOf(c)
BY DEF Types, Shapes, MediaKept, MediaOf, Same

LEMMA LookedState ==
  ASSUME Types, NEW t \in Threads, NEW s, s = thread[t].s
  PROVE  /\ s \in SessionIds /\ tracks[Client(t)][s] \in SUBSET Tracks
         /\ Looked(s) \in {"idle", "active", "pause"}
<1>1. s \in SessionIds
  BY DEF Types, Record
<1>2. Client(t) \in Clients
  BY Whose
<1>3. tracks[Client(t)][s] \subseteq DOMAIN kind
  BY SMT, <1>1, <1>2 DEF Types, Shapes
<1> QED
  BY <1>1, <1>3, KindTracks DEF Looked, Types, Shapes

LEMMA InnerActions ==
  ASSUME Types, NEW t \in Threads, InnerStep(t)
  PROVE  Inner(t)
<1> DEFINE s == thread[t].s
<1>0. /\ InSession \subseteq Places
      /\ \A x \in InSession : x \in DeathPlaces <=> x \in {"stop", "stopLock", "stopping"}
  BY DEF Places, CallPlaces, InSession, DeathPlaces, Going
<1>s. /\ s \in SessionIds /\ tracks[Client(t)][s] \in SUBSET Tracks
      /\ Looked(s) \in {"idle", "active", "pause"}
  BY LookedState
<1>1. ASSUME NEW op, NEW to, Enter(t, op, to),
             <<op, to>> \in {<<"start", "startLock">>, <<"stop", "stopLock">>}
      PROVE  Inner(t)
  <2>1. op \in InSession /\ to \in InSession /\ (op \in DeathPlaces => to = "stopLock")
    BY <1>1, <1>0 DEF InSession
  <2>2. Moves(t, to)
    BY <1>1, <2>1, <1>0, GotoMoves DEF Enter
  <2>3. Goes(t) /\ thread[t].pc \in InSession
    BY <1>1, <2>1, <2>2, MovesGoes DEF Enter
  <2>4. MediaKept
    BY <1>1, MediaSame DEF Enter, media
  <2>5. sessions_state_' = sessions_state_
    BY <1>1 DEF Enter, state
  <2> QED
    BY <1>1, <2>3, <2>4, <2>5 DEF Inner, Enter, service, state, Tidy
<1>2. CASE StartLocked(t)
  <2>1. thread[t].pc = "startLock" /\ "startLock" \in InSession /\ "startLock" \notin DeathPlaces
    BY <1>2, <1>0 DEF StartLocked, InSession
  <2>2. "resume" \in InSession /\ "starting" \in InSession
    BY DEF InSession
  <2>3. Goes(t)
    <3>1. CASE Goto(t, "resume")
      BY <1>0, <2>1, <2>2, <3>1, GotoMoves, MovesGoes
    <3>2. CASE Return(t, "idle")
      BY <2>1, <3>2, ReturnGoes
    <3>3. CASE Loop(t, "starting", tracks[Client(t)][s])
      BY <1>0, <1>s, <2>1, <2>2, <3>3, LoopMoves, MovesGoes
    <3> QED
      BY <1>2, <3>1, <3>2, <3>3 DEF StartLocked
  <2>4. MediaKept
    BY <1>2, MediaSame DEF StartLocked, media
  <2> QED
    BY <1>2, <1>s, <2>1, <2>3, <2>4 DEF Inner, StartLocked, Look, service, maps, Tidy
<1>3. CASE StopLocked(t)
  <2>1. thread[t].pc = "stopLock" /\ "stopLock" \in InSession
    BY <1>3 DEF StopLocked, InSession
  <2>2. "stopping" \in InSession
    BY DEF InSession
  <2>3. Goes(t)
    <3>1. CASE Return(t, "tracks")
      BY <2>1, <3>1, ReturnGoes
    <3>2. CASE Loop(t, "stopping", tracks[Client(t)][s])
      BY <1>0, <1>s, <2>1, <2>2, <3>2, LoopMoves, MovesGoes
    <3> QED
      BY <1>3, <3>1, <3>2 DEF StopLocked
  <2>4. MediaKept
    BY <1>3, MediaSame DEF StopLocked, media
  <2> QED
    BY <1>3, <1>s, <2>1, <2>3, <2>4 DEF Inner, StopLocked, Look, service, maps, Tidy
<1>4. ASSUME NEW op, NEW st, NEW to, LoopDone(t, op, st, to),
             <<op, st, to>> \in {<<"starting", "active", "idle">>, <<"stopping", "idle", "tracks">>,
                                 <<"pausing", "pause", "idle">>, <<"resuming", "active", "idle">>}
      PROVE  Inner(t)
  <2>1. /\ op \in InSession /\ to \in {"tracks", "idle"} /\ (op \in DeathPlaces => to = "tracks")
        /\ st \in {"idle", "active", "pause"}
    BY <1>4, <1>0 DEF InSession
  <2>2. PICK sn : /\ sn = IF thread[t].failed = {} THEN st ELSE sessions_state_[s]
                  /\ EndLoop(t, op, sn, to)
    BY <1>4 DEF LoopDone
  <2>3. Goes(t) /\ thread[t].pc \in InSession
    BY <2>1, <2>2, ReturnGoes DEF EndLoop
  <2>4. MediaKept
    BY <2>2, MediaSame DEF EndLoop, media
  <2>5. sn \in {"none", "idle", "active", "pause"} /\ (sessions_state_[s] # "none" => sn # "none")
    BY <1>s, <2>1, <2>2 DEF Types, Shapes
  <2> QED
    BY <2>2, <2>3, <2>4, <2>5 DEF Inner, EndLoop, service, maps, Tidy
<1>5. CASE Pause(t)
  <2>1. thread[t].pc = "pause" /\ "pause" \in InSession /\ "pause" \notin DeathPlaces
    BY <1>5, <1>0 DEF Pause, InSession
  <2>2. "pauseCopy" \in InSession
    BY DEF InSession
  <2>3. Goes(t)
    <3>1. CASE Goto(t, "pauseCopy")
      BY <1>0, <2>1, <2>2, <3>1, GotoMoves, MovesGoes
    <3>2. CASE Return(t, "idle")
      BY <2>1, <3>2, ReturnGoes
    <3> QED
      BY <1>5, <3>1, <3>2 DEF Pause
  <2>4. MediaKept
    BY <1>5, MediaSame DEF Pause, media
  <2> QED
    BY <1>5, <1>s, <2>1, <2>3, <2>4 DEF Inner, Pause, Look, service, maps, Tidy
<1>6. CASE Resume(t)
  <2>1. thread[t].pc = "resume" /\ "resume" \in InSession /\ "resume" \notin DeathPlaces
    BY <1>6, <1>0 DEF Resume, InSession
  <2>2. "resumeCopy" \in InSession
    BY DEF InSession
  <2>3. Goes(t)
    <3>1. CASE Goto(t, "resumeCopy")
      BY <1>0, <2>1, <2>2, <3>1, GotoMoves, MovesGoes
    <3>2. CASE Return(t, "idle")
      BY <2>1, <3>2, ReturnGoes
    <3> QED
      BY <1>6, <3>1, <3>2 DEF Resume
  <2>4. MediaKept
    BY <1>6, MediaSame DEF Resume, media
  <2> QED
    BY <1>6, <1>s, <2>1, <2>3, <2>4 DEF Inner, Resume, Look, service, maps, Tidy
<1>7. ASSUME NEW op, NEW to, CopyTracks(t, op, to),
             <<op, to>> \in {<<"pauseCopy", "pausing">>, <<"resumeCopy", "resuming">>}
      PROVE  Inner(t)
  <2>1. op \in InSession /\ to \in InSession /\ op \notin DeathPlaces
    BY <1>7, <1>0 DEF InSession
  <2>2. Moves(t, to)
    BY <1>7, <1>s, <2>1, <1>0, LoopMoves DEF CopyTracks
  <2>3. Goes(t) /\ thread[t].pc \in InSession
    BY <1>7, <2>1, <2>2, MovesGoes DEF CopyTracks
  <2>4. MediaKept
    BY <1>7, MediaSame DEF CopyTracks, media
  <2>5. sessions_state_' = sessions_state_
    BY <1>7 DEF CopyTracks, state
  <2> QED
    BY <1>7, <2>3, <2>4, <2>5 DEF Inner, CopyTracks, service, state, Tidy
<1>8. CASE TrackStep(t)
  <2>1. /\ thread[t].pc \in InSession
        /\ thread[t].pc \in DeathPlaces => thread[t].pc \in {"stopLock", "stopping"}
    BY <1>8, <1>0 DEF TrackStep, InSession
  <2>2. Moves(t, thread[t].pc) /\ MediaKept
    BY <1>8, TrackStepKeeps
  <2>3. Goes(t)
    BY <2>1, <2>2 DEF Goes
  <2>4. Tidy' => Tidy
    <3>1. conduct' = conduct \/ Note("failed")
      BY <1>8 DEF TrackStep, OnTrack
    <3> QED
      BY <3>1, NoteTidy DEF Tidy
  <2>5. sessions_state_' = sessions_state_ /\ sessions' = sessions /\ registered' = registered
    BY <1>8 DEF TrackStep, state, maps
  <2> QED
    BY <1>8, <2>1, <2>2, <2>3, <2>4, <2>5 DEF Inner, TrackStep, service, maps, state
<1> QED
  BY <1>1, <1>2, <1>3, <1>4, <1>5, <1>6, <1>7, <1>8 DEF InnerStep
-----------------------------------------------------------------------------
(* The step of a call, and of a cleanup, from what it does to its client.  *)

LEMMA CallDone ==
  ASSUME Types, Order, NEW c \in Clients, Alters(<<c, "call">>), OthersKept(c), MediaOf(c),
         Keyed', NEW w, NEW death, w = thread'[<<c, "call">>], death = thread[<<c, "death">>],
         OfClient(c, w, death)'
  PROVE  Order'
<1>1. /\ <<c, "call">> \in Threads /\ <<c, "death">> \in Threads
      /\ <<c, "call">> # <<c, "death">> /\ Client(<<c, "call">>) = c
  BY DEF Threads, Client
<1>2. thread'[<<c, "death">>] = death
  BY <1>1 DEF Alters
<1>3. OfClient(c, thread[<<c, "call">>], thread[<<c, "death">>])'
  BY <1>2
<1> QED
  BY <1>1, <1>3, OrderFrom

LEMMA DeathDone ==
  ASSUME Types, Order, NEW c \in Clients, Alters(<<c, "death">>), OthersKept(c), MediaOf(c),
         Keyed', NEW w, NEW call, w = thread'[<<c, "death">>], call = thread[<<c, "call">>],
         OfClient(c, call, w)'
  PROVE  Order'
<1>1. /\ <<c, "call">> \in Threads /\ <<c, "death">> \in Threads
      /\ <<c, "call">> # <<c, "death">> /\ Client(<<c, "death">>) = c
  BY DEF Threads, Client
<1>2. thread'[<<c, "call">>] = call
  BY <1>1 DEF Alters
<1>3. OfClient(c, thread[<<c, "call">>], thread[<<c, "death">>])'
  BY <1>2
<1> QED
  BY <1>1, <1>3, OrderFrom
-----------------------------------------------------------------------------
(* A call arrives.                                                         *)

LEMMA CallEnters ==
  ASSUME NEW c \in Clients, NEW call, NEW death, NEW w, OfClient(c, call, death),
         call.pc = "idle", life[c] = "alive", w.pc \in CallPlaces, Placed(c, w),
         w.pc \notin {"addSource", "associate", "deleteEncoder", "forget"}
  PROVE  OfClient(c, w, death)
<1>1. Alone(c, w, death)
  BY DEF OfClient, Alone
<1>2. Exists(c, w, death)
  BY SMT DEF OfClient, Exists, HasSource, HasEncoder, Here
<1> QED
  BY <1>1, <1>2 DEF OfClient

\* The maps, sources and encoders, and the cleanups, stay as they are.
Still ==
  /\ kind' = kind /\ life' = life /\ cleaning' = cleaning /\ left' = left /\ copied' = copied
  /\ registered' = registered /\ sessions' = sessions /\ tracks' = tracks
  /\ sessions_state_' = sessions_state_ /\ mutexes' = mutexes
  /\ unique_session_id_' = unique_session_id_ /\ source' = source /\ encoder' = encoder

LEMMA StillKept ==
  ASSUME Types, Still
  PROVE  /\ Shapes' /\ (Keyed => Keyed') /\ \A c \in Clients : OthersKept(c) /\ MediaOf(c)
         /\ \A c \in Clients : \A w : Steady(c, w)
<1>1. Shapes'
  BY DEF Types, Shapes, Still
<1>2. Keyed => Keyed'
  BY DEF Keyed, Still
<1>3. \A c \in Clients : OthersKept(c)
  BY DEF OthersKept, Still
<1>4. \A c \in Clients : MediaOf(c)
  BY MediaSame DEF Still
<1>5. \A c \in Clients : \A w : Steady(c, w)
  BY DEF Steady, Still, Same
<1> QED
  BY <1>1, <1>2, <1>3, <1>4, <1>5

LEMMA ArrivalOrder ==
  ASSUME Types, Order, NEW c \in Clients, Still, Ready(c), Alters(<<c, "call">>),
         NEW w, w = thread'[<<c, "call">>], w.pc \in CallPlaces, Placed(c, w),
         w.pc \notin {"addSource", "associate", "deleteEncoder", "forget"}
  PROVE  Order'
<1>1. PICK call, death : call = thread[<<c, "call">>] /\ death = thread[<<c, "death">>]
  OBVIOUS
<1>2. OfClient(c, call, death) /\ call.pc = "idle" /\ life[c] = "alive"
  BY <1>1 DEF Order, Ready
<1>3. OfClient(c, w, death)
  BY <1>2, CallEnters
<1>4. Steady(c, death) /\ Keyed' /\ OthersKept(c) /\ MediaOf(c)
  BY StillKept DEF Order
<1>5. OfClient(c, w, death)'
  BY <1>3, <1>4, SteadyKept
<1> QED
  BY <1>1, <1>4, <1>5, CallDone

\* A thread is given a session and a track.
Put(t, to, s) == thread' = [thread EXCEPT ![t].pc = to, ![t].s = s]
PutAt(t, to, s, k) == thread' = [thread EXCEPT ![t].pc = to, ![t].s = s, ![t].k = k]

LEMMA SetPlace ==
  ASSUME Types, NEW t \in Threads, NEW to \in Places, NEW s \in SessionIds,
         Put(t, to, s)
  PROVE  Alters(t) /\ thread'[t].pc = to /\ thread'[t].s = s /\ thread'[t].k = thread[t].k
<1> DEFINE w == [thread[t] EXCEPT !.pc = to, !.s = s]
<1>1. thread \in [Threads -> Record] /\ thread[t] \in Record
  BY DEF Types
<1>2. w \in Record /\ w.pc = to /\ w.s = s /\ w.k = thread[t].k
  BY <1>1 DEF Record
<1>3. thread' = [thread EXCEPT ![t] = w]
  BY DEF Put
<1> HIDE DEF w
<1> QED
  BY <1>1, <1>2, <1>3 DEF Alters

LEMMA SetTrack ==
  ASSUME Types, NEW t \in Threads, NEW to \in Places, NEW s \in SessionIds, NEW k \in Tracks,
         PutAt(t, to, s, k)
  PROVE  Alters(t) /\ thread'[t].pc = to /\ thread'[t].s = s /\ thread'[t].k = k
<1> DEFINE w == [thread[t] EXCEPT !.pc = to, !.s = s, !.k = k]
<1>1. thread \in [Threads -> Record] /\ thread[t] \in Record
  BY DEF Types
<1>2. w \in Record /\ w.pc = to /\ w.s = s /\ w.k = k
  BY <1>1 DEF Record
<1>3. thread' = [thread EXCEPT ![t] = w]
  BY DEF PutAt
<1> HIDE DEF w
<1> QED
  BY <1>1, <1>2, <1>3 DEF Alters

LEMMA CallKeeps ==
  ASSUME IInv, NEW c \in Clients, NEW s \in SessionIds,
         NEW op \in {"start", "stop", "pause", "resume", "deleteSession"}, Call(c, s, op)
  PROVE  IInv'
<1> DEFINE t == <<c, "call">>
<1>1. t \in Threads /\ op \in CallPlaces /\ op \in Places
  BY DEF Threads, CallPlaces, InSession, Places
<1>2. Types /\ Still /\ Ready(c) /\ conduct' = conduct
  BY DEF IInv, Call, Still, service, maps, state, media
<1>3. Alters(t) /\ thread'[t].pc = op /\ thread'[t].s = s
  <2>1. Put(t, op, s)
    BY DEF Call, Put
  <2> QED
    BY <1>1, <1>2, <2>1, SetPlace
<1>4. Types'
  <2>1. thread[t].pc = "idle"
    BY <1>2 DEF Ready
  <2>2. Shapes'
    BY <1>2, StillKept
  <2>3. thread'[t].pc \notin Coming /\ thread'[t].pc # "createSession"
    BY <1>3 DEF Coming
  <2> QED
    BY <1>1, <1>2, <1>3, <2>1, <2>2, <2>3, TypesKept DEF Still
<1>5. ASSUME Tidy' PROVE Order'
  <2>1. Order
    BY <1>2, <1>5 DEF IInv, Tidy
  <2>2. PICK w : w = thread'[t]
    OBVIOUS
  <2>3. Placed(c, w)
    BY <1>3, <2>2 DEF Placed, Call, IsSessionValid, Coming, Going
  <2> QED
    BY <1>1, <1>2, <1>3, <2>1, <2>2, <2>3, ArrivalOrder
<1> QED
  BY <1>4, <1>5 DEF IInv

LEMMA CallCreateKeeps ==
  ASSUME IInv, NEW c \in Clients, Call(c, 1, "createSession"),
         unique_session_id_ + Cardinality(Creating) < Bound(kind)
  PROVE  IInv'
<1> DEFINE t == <<c, "call">>
<1>1. t \in Threads /\ "createSession" \in CallPlaces /\ "createSession" \in Places
  BY DEF Threads, CallPlaces, Places
<1>2. Types /\ Still /\ Ready(c) /\ conduct' = conduct
  BY DEF IInv, Call, Still, service, maps, state, media
<1>3. Alters(t) /\ thread'[t].pc = "createSession"
  <2>1. 1 \in SessionIds
    BY SMT, SessionsAssumption DEF SessionIds
  <2> QED
    BY <1>1, <1>2, <2>1, SetPlace DEF Call, Put
<1>4. Types'
  <2>1. thread[t].pc = "idle"
    BY <1>2 DEF Ready
  <2>2. Shapes'
    BY <1>2, StillKept
  <2>3. Creating' = Creating \cup {t} /\ t \notin Creating
    BY <1>1, <1>3, <2>1 DEF Creating, Alters
  <2>4. Cardinality(Creating') = Cardinality(Creating) + 1 /\ Cardinality(Creating) \in Nat
    BY <2>3, ThreadsFinite, FS_AddElement, FS_CardinalityType
  <2>5. MaxSession \in Nat /\ Bound(kind) \in Nat /\ Bound(kind) <= MaxSession
    BY SMT, <1>2, SessionsAssumption DEF Types, Shapes, SessionIds
  <2>6. Counted'
    BY SMT, <1>2, <2>4, <2>5 DEF Types, Counted, Still
  <2>7. \A u \in Threads : thread'[u].pc \in Coming => thread'[u].k \in DOMAIN kind'
    BY <1>2, <1>3 DEF Types, Alters, Coming, Still
  <2> QED
    BY <1>3, <2>2, <2>6, <2>7 DEF Types, Alters
<1>5. ASSUME Tidy' PROVE Order'
  <2>1. Order
    BY <1>2, <1>5 DEF IInv, Tidy
  <2>2. PICK w : w = thread'[t]
    OBVIOUS
  <2>3. Placed(c, w)
    BY <1>3, <2>2 DEF Placed, Coming, Going
  <2> QED
    BY <1>1, <1>2, <1>3, <2>1, <2>2, <2>3, ArrivalOrder
<1> QED
  BY <1>4, <1>5 DEF IInv

LEMMA CallTrackKeeps ==
  ASSUME IInv, NEW c \in Clients, NEW s \in SessionIds, NEW k \in DOMAIN kind,
         NEW op \in {"createTrack", "deleteTrack"}, CallTrack(c, s, k, op)
  PROVE  IInv'
<1> DEFINE t == <<c, "call">>
<1>1. t \in Threads /\ op \in CallPlaces /\ op \in Places
  BY DEF Threads, CallPlaces, Coming, Going, Places
<1>2. Types /\ Still /\ Ready(c) /\ (Tidy' => Tidy)
  <2>1. Types /\ Still /\ Ready(c)
    BY DEF IInv, CallTrack, Still, service, maps, state, media
  <2>2. conduct' = conduct \/ Note("order")
    BY DEF CallTrack
  <2> QED
    BY <2>1, <2>2, NoteTidy DEF Tidy
<1>3. Alters(t) /\ thread'[t].pc = op /\ thread'[t].s = s /\ thread'[t].k = k
  <2>1. k \in Tracks
    BY <1>2, KindTracks
  <2>2. PutAt(t, op, s, k)
    BY DEF CallTrack, PutAt
  <2> QED
    BY <1>1, <1>2, <2>1, <2>2, SetTrack
<1>4. Types'
  <2>1. thread[t].pc = "idle"
    BY <1>2 DEF Ready
  <2>2. Shapes'
    BY <1>2, StillKept
  <2> QED
    BY <1>1, <1>2, <1>3, <2>1, <2>2, TypesKept DEF Still
<1>5. ASSUME Tidy' PROVE Order'
  <2>1. Order
    BY <1>2, <1>5 DEF IInv
  <2>2. PICK w : w = thread'[t]
    OBVIOUS
  <2>3. Placed(c, w)
    BY <1>3, <2>2 DEF Placed, CallTrack, IsSessionValid, IsTrackValid, Coming, Going
  <2> QED
    BY <1>1, <1>2, <1>3, <2>1, <2>2, <2>3, ArrivalOrder
<1> QED
  BY <1>4, <1>5 DEF IInv
-----------------------------------------------------------------------------
(* CreateSession and DeleteSession.                                        *)

\* The thread of a client that is at work, and its other thread, which rests.
Work(t, c, call, death) ==
  /\ c = Client(t) /\ call = thread[<<c, "call">>] /\ death = thread[<<c, "death">>]
  /\ OfClient(c, call, death) /\ c \in registered /\ life[c] # "gone"
  /\ \/ t = <<c, "call">> /\ death.pc = "idle" /\ call.pc = thread[t].pc
     \/ t = <<c, "death">> /\ call.pc = "idle" /\ death.pc = thread[t].pc

LEMMA AtWork ==
  ASSUME Order, NEW t \in Threads, thread[t].pc # "idle"
  PROVE  \E c \in Clients : \E call, death : Work(t, c, call, death)
<1>1. PICK c \in Clients : c = Client(t)
  BY Whose
<1>2. PICK call, death : call = thread[<<c, "call">>] /\ death = thread[<<c, "death">>]
  OBVIOUS
<1>3. OfClient(c, call, death)
  BY <1>2 DEF Order
<1>4. t = <<c, "call">> \/ t = <<c, "death">>
  BY <1>1, Whose
<1>5. \/ t = <<c, "call">> /\ death.pc = "idle" /\ call.pc = thread[t].pc
      \/ t = <<c, "death">> /\ call.pc = "idle" /\ death.pc = thread[t].pc
  BY <1>2, <1>3, <1>4 DEF OfClient, Alone
<1>6. c \in registered /\ life[c] # "gone"
  BY <1>3, <1>5 DEF OfClient, Alone
<1> QED
  BY <1>1, <1>2, <1>3, <1>5, <1>6 DEF Work

\* A thread that returns has left its place.
LEMMA Returned ==
  ASSUME Types, NEW t \in Threads, NEW to \in Places, Return(t, to)
  PROVE  Alters(t) /\ thread'[t].pc \in {"idle", to}
BY ReturnMoves DEF Moves, Rests

\* Between the places where a track comes or goes, nothing comes or goes.
Amid == {"addSource", "associate", "deleteEncoder", "forget"}

LEMMA ExistsSame ==
  ASSUME NEW c, NEW call, NEW death, NEW v, NEW w, Exists(c, call, death), kind' = kind,
         tracks'[c] = tracks[c], source' = source, encoder' = encoder,
         call.pc \notin Amid, death.pc \notin Amid, v.pc \notin Amid, w.pc \notin Amid
  PROVE  Exists(c, v, w)'
<1> SUFFICES ASSUME NEW s \in SessionIds, NEW k \in DOMAIN kind
             PROVE  /\ HasSource(c, s, k, v, w)' <=> HasSource(c, s, k, call, death)
                    /\ HasEncoder(c, s, k, v, w)' <=> HasEncoder(c, s, k, call, death)
  BY DEF Exists
<1> QED
  BY DEF HasSource, HasEncoder, Here, Amid

LEMMA CreateSessionTypes ==
  ASSUME Types, NEW t \in Threads, CreateSession(t)
  PROVE  /\ Types' /\ Alters(t) /\ thread'[t].pc = "idle"
         /\ unique_session_id_ + 1 \in SessionIds
<1>1. Alters(t) /\ thread'[t].pc = "idle"
  <2>1. "idle" \in Places
    BY DEF Places, CallPlaces
  <2> QED
    BY <2>1, Returned DEF CreateSession
<1>2. t \in Creating /\ Creating' = Creating \ {t}
  BY <1>1 DEF CreateSession, Creating, Alters
<1>3. /\ Cardinality(Creating') = Cardinality(Creating) - 1
      /\ Cardinality(Creating) \in Nat /\ Cardinality(Creating') \in Nat
  <2>1. IsFiniteSet(Creating \ {t})
    BY ThreadsFinite, FS_RemoveElement
  <2> QED
    BY <1>2, <2>1, ThreadsFinite, FS_RemoveElement, FS_CardinalityType
<1>4. unique_session_id_ \in Nat /\ unique_session_id_ + 1 <= MaxSession /\ MaxSession \in Nat
  BY SMT, <1>3, SessionsAssumption DEF Types, Counted
<1>5. unique_session_id_ + 1 \in SessionIds
  BY SMT, <1>4 DEF SessionIds
<1>6. Counted'
  BY SMT, <1>3, <1>4 DEF Counted, CreateSession, Types
<1>7. Shapes'
  <2>1. Client(t) \in Clients
    BY Whose
  <2>2. sessions' \in [Clients -> SUBSET SessionIds]
    BY <1>5, <2>1 DEF Types, Shapes, CreateSession
  <2>3. sessions_state_' \in [SessionIds -> {"none", "idle", "active", "pause"}]
    BY <1>5 DEF Types, Shapes, CreateSession
  <2>4. registered' \subseteq Clients /\ mutexes' \subseteq SessionIds
    BY <1>5, <2>1 DEF Types, Shapes, CreateSession
  <2> QED
    BY <2>2, <2>3, <2>4 DEF Types, Shapes, CreateSession, service, media
<1>8. \A u \in Threads : thread'[u].pc \in Coming => thread'[u].k \in DOMAIN kind'
  BY <1>1 DEF Types, Alters, Coming, CreateSession, service
<1> QED
  BY <1>1, <1>5, <1>6, <1>7, <1>8 DEF Types, Alters

LEMMA CreateSessionKeeps ==
  ASSUME IInv, NEW t \in Threads, CreateSession(t)
  PROVE  IInv'
<1>1. /\ Types /\ Types' /\ Alters(t) /\ thread'[t].pc = "idle"
      /\ unique_session_id_ + 1 \in SessionIds
  BY CreateSessionTypes DEF IInv
<1> SUFFICES ASSUME Tidy' PROVE Order'
  BY <1>1 DEF IInv
<1>2. Order
  BY DEF IInv, CreateSession, Tidy
<1>3. thread[t].pc = "createSession"
  BY DEF CreateSession
<1>who. PICK c \in Clients : \E call, death : Work(t, c, call, death)
  BY <1>2, <1>3, AtWork
<1>4. PICK call, death :
        /\ c = Client(t) /\ call = thread[<<c, "call">>] /\ death = thread[<<c, "death">>]
        /\ OfClient(c, call, death) /\ c \in registered /\ life[c] # "gone"
        /\ \/ t = <<c, "call">> /\ death.pc = "idle" /\ call.pc = thread[t].pc
           \/ t = <<c, "death">> /\ call.pc = "idle" /\ death.pc = thread[t].pc
  BY <1>who DEF Work
<1>5. t = <<c, "call">> /\ death.pc = "idle" /\ call.pc = "createSession"
  BY <1>3, <1>4 DEF OfClient, Alone, DeathPlaces, Going
<1>6. PICK s : s = unique_session_id_ + 1
  OBVIOUS
<1>7. s \in SessionIds /\ s \notin mutexes
  <2>1. \A r \in mutexes : r <= unique_session_id_
    BY <1>2 DEF Order, Keyed
  <2> QED
    BY SMT, <1>1, <1>6, <2>1 DEF Types, Counted
<1>8. /\ sessions' = [sessions EXCEPT ![c] = @ \cup {s}]
      /\ sessions_state_' = [sessions_state_ EXCEPT ![s] = IF @ = "none" THEN "idle" ELSE @]
      /\ mutexes' = mutexes \cup {s} /\ unique_session_id_' = s
      /\ registered' = registered
  BY <1>4, <1>6 DEF CreateSession
<1>9. Keyed'
  <2>0. sessions'[c] = sessions[c] \cup {s} /\ \A d \in Clients : d # c => sessions'[d] = sessions[d]
    BY <1>1, <1>8 DEF Types, Shapes
  <2>1. \A d \in Clients : s \notin sessions[d]
    BY <1>2, <1>7 DEF Order, Keyed
  <2>2. \A a, d \in Clients : a # d => sessions'[a] \cap sessions'[d] = {}
    BY SMT, <1>2, <2>0, <2>1 DEF Order, Keyed
  <2>3. UNION {sessions'[d] : d \in Clients} = mutexes'
    <3>1. UNION {sessions[d] : d \in Clients} = mutexes
      BY <1>2 DEF Order, Keyed
    <3> QED
      BY <1>8, <2>0, <3>1
  <2>4. \A r \in SessionIds : sessions_state_'[r] # "none" <=> r \in mutexes'
    BY <1>1, <1>2, <1>7, <1>8 DEF Order, Keyed, Types, Shapes
  <2>5. \A r \in mutexes' : r <= unique_session_id_'
    <3>1. \A r \in mutexes : r \in Nat /\ r <= unique_session_id_
      BY SMT, <1>1, <1>2 DEF Order, Keyed, Types, Shapes, SessionIds
    <3> QED
      BY SMT, <1>1, <1>6, <1>8, <3>1 DEF Types, Counted
  <2> QED
    BY <2>2, <2>3, <2>4, <2>5 DEF Keyed
<1>10. OthersKept(c) /\ MediaOf(c)
  <2>1. MediaOf(c)
    BY <1>1, MediaSame DEF CreateSession, media
  <2>2. \A d \in Clients : d # c => sessions'[d] = sessions[d]
    BY <1>1, <1>8 DEF Types, Shapes
  <2> QED
    BY <1>8, <2>1, <2>2 DEF OthersKept, CreateSession, service
<1>11. PICK w : w = thread'[t]
  OBVIOUS
<1>12. OfClient(c, w, death)'
  <2>0. /\ w.pc = "idle" /\ kind' = kind /\ life' = life /\ cleaning' = cleaning /\ tracks' = tracks
        /\ source' = source /\ encoder' = encoder /\ sessions'[c] = sessions[c] \cup {s}
    BY <1>1, <1>8, <1>11 DEF CreateSession, service, media, Types, Shapes
  <2>1. Alone(c, w, death)'
    BY <1>4, <1>5, <1>8, <2>0 DEF OfClient, Alone, CallPlaces
  <2>2. Placed(c, w)' /\ Placed(c, death)' /\ Thorough(c, death)'
    BY <1>5, <2>0 DEF Placed, Thorough, Coming, Going
  <2>3. Exists(c, w, death)'
    BY <1>4, <1>5, <2>0, ExistsSame DEF OfClient, Amid
  <2>4. \A r \in SessionIds : r \notin sessions'[c] => tracks'[c][r] = {}
    BY <1>4, <2>0 DEF OfClient
  <2> QED
    BY <2>1, <2>2, <2>3, <2>4 DEF OfClient
<1> QED
  BY <1>1, <1>2, <1>4, <1>5, <1>9, <1>10, <1>11, <1>12, CallDone
LEMMA DeleteSessionTypes ==
  ASSUME Types, NEW t \in Threads, DeleteSession(t)
  PROVE  Types' /\ Alters(t) /\ thread'[t].pc \in {"idle", "next"}
<1>1. Alters(t) /\ thread'[t].pc \in {"idle", "next"}
  <2>1. "next" \in Places
    BY DEF Places, DeathPlaces
  <2> QED
    BY <2>1, Returned DEF DeleteSession, EraseSession
<1>2. Client(t) \in Clients /\ thread[t].s \in SessionIds
  BY Whose DEF Types, Record
<1>3. Shapes'
  <2>2. sessions' \in [Clients -> SUBSET SessionIds]
    BY SMT, <1>2 DEF Types, Shapes, DeleteSession, EraseSession
  <2>3. sessions_state_' \in [SessionIds -> {"none", "idle", "active", "pause"}]
    BY <1>2 DEF Types, Shapes, DeleteSession, EraseSession, state
  <2>4. mutexes' \subseteq SessionIds
    BY DEF Types, Shapes, DeleteSession, EraseSession, state
  <2> QED
    BY <2>2, <2>3, <2>4 DEF Types, Shapes, DeleteSession, EraseSession, service, media
<1>4. /\ thread[t].pc # "createSession" /\ thread'[t].pc # "createSession"
      /\ thread'[t].pc \notin Coming /\ kind' = kind
      /\ unique_session_id_' \in {0, unique_session_id_}
  BY <1>1 DEF DeleteSession, EraseSession, Coming, service, state
<1> QED
  BY <1>1, <1>3, <1>4, TypesKept

LEMMA DeleteSessionKeeps ==
  ASSUME IInv, NEW t \in Threads, DeleteSession(t)
  PROVE  IInv'
<1>1. Types /\ Types' /\ Alters(t)
  BY DeleteSessionTypes DEF IInv
<1> SUFFICES ASSUME Tidy' PROVE Order'
  BY <1>1 DEF IInv
<1>2. Order
  BY DEF IInv, DeleteSession, EraseSession, Tidy
<1>3. thread[t].pc = "deleteSession"
  BY DEF DeleteSession, EraseSession
<1>who. PICK c \in Clients : \E call, death : Work(t, c, call, death)
  BY <1>2, <1>3, AtWork
<1>4. PICK call, death :
        /\ c = Client(t) /\ call = thread[<<c, "call">>] /\ death = thread[<<c, "death">>]
        /\ OfClient(c, call, death) /\ c \in registered /\ life[c] # "gone"
        /\ \/ t = <<c, "call">> /\ death.pc = "idle" /\ call.pc = thread[t].pc
           \/ t = <<c, "death">> /\ call.pc = "idle" /\ death.pc = thread[t].pc
  BY <1>who DEF Work
<1>5. PICK s \in SessionIds : s = thread[t].s
  BY <1>1 DEF Types, Record
<1>6. s \in sessions[c] /\ tracks[c][s] = {}
  BY <1>3, <1>4, <1>5 DEF OfClient, Placed
<1>7. /\ sessions' = [sessions EXCEPT ![c] = @ \ {s}]
      /\ sessions_state_' = [sessions_state_ EXCEPT ![s] = "none"]
      /\ mutexes' = mutexes \ {s} /\ registered' = registered
      /\ unique_session_id_' = IF \A d \in registered : sessions'[d] = {}
                                 THEN 0 ELSE unique_session_id_
  BY <1>4, <1>5, <1>6 DEF DeleteSession, EraseSession, IsClientValid, IsSessionValid
<1>8. /\ sessions'[c] = sessions[c] \ {s}
      /\ \A d \in Clients : d # c => sessions'[d] = sessions[d]
  BY <1>1, <1>7 DEF Types, Shapes
<1>9. Keyed'
  <2>1. \A d \in Clients : d # c => s \notin sessions[d]
    BY <1>2, <1>6 DEF Order, Keyed
  <2>2. \A a, d \in Clients : a # d => sessions'[a] \cap sessions'[d] = {}
    BY <1>2, <1>8 DEF Order, Keyed
  <2>3. UNION {sessions'[d] : d \in Clients} = mutexes'
    <3>1. UNION {sessions[d] : d \in Clients} = mutexes
      BY <1>2 DEF Order, Keyed
    <3> QED
      BY SMT, <1>7, <1>8, <2>1, <3>1
  <2>4. \A r \in SessionIds : sessions_state_'[r] # "none" <=> r \in mutexes'
    BY SMT, <1>1, <1>2, <1>7 DEF Order, Keyed, Types, Shapes
  <2>5. \A r \in mutexes' : r <= unique_session_id_'
    <3>1. CASE \A d \in registered : sessions'[d] = {}
      <4>1. \A d \in Clients : d \notin registered => sessions[d] = {}
        BY <1>2 DEF Order, OfClient, Alone
      <4>2. mutexes' = {}
        BY SMT, <1>4, <1>8, <2>3, <3>1, <4>1
      <4> QED
        BY <4>2
    <3>2. CASE ~ \A d \in registered : sessions'[d] = {}
      BY <1>2, <1>7, <3>2 DEF Order, Keyed
    <3> QED
      BY <3>1, <3>2
  <2> QED
    BY <2>2, <2>3, <2>4, <2>5 DEF Keyed
<1>10. /\ kind' = kind /\ life' = life /\ cleaning' = cleaning /\ left' = left /\ copied' = copied
       /\ tracks' = tracks /\ source' = source /\ encoder' = encoder
  BY DEF DeleteSession, EraseSession, service, media
<1>11. OthersKept(c) /\ MediaOf(c)
  BY <1>1, <1>7, <1>8, <1>10, MediaSame DEF OthersKept
<1>12. \A r \in SessionIds : r \notin sessions'[c] => tracks'[c][r] = {}
  BY <1>4, <1>6, <1>8, <1>10 DEF OfClient
<1>13. PICK w : w = thread'[t]
  OBVIOUS
<1>14. "next" \in Places
  BY DEF Places, DeathPlaces
<1>15. (t[2] = "call" /\ Rests(t)) \/ (t[2] = "death" /\ Moves(t, "next"))
  BY <1>1, <1>14, ReturnMoves DEF DeleteSession, EraseSession
<1>16. CASE t = <<c, "call">> /\ death.pc = "idle" /\ call.pc = thread[t].pc
  <2>1. w.pc = "idle"
    BY <1>13, <1>15, <1>16 DEF Rests
  <2>2. Alone(c, w, death)'
    BY <1>4, <1>7, <1>10, <1>16, <2>1 DEF OfClient, Alone, CallPlaces
  <2>3. Placed(c, w)' /\ Placed(c, death)' /\ Thorough(c, death)'
    BY <1>16, <2>1 DEF Placed, Thorough, Coming, Going
  <2>4. Exists(c, w, death)'
    BY <1>3, <1>4, <1>10, <1>16, <2>1, ExistsSame DEF OfClient, Amid
  <2>5. OfClient(c, w, death)'
    BY <1>12, <2>2, <2>3, <2>4 DEF OfClient
  <2> QED
    BY <1>1, <1>2, <1>4, <1>9, <1>11, <1>13, <1>16, <2>5, CallDone
<1>17. CASE t = <<c, "death">> /\ call.pc = "idle" /\ death.pc = thread[t].pc
  <2>1. w.pc = "next"
    BY <1>13, <1>15, <1>17 DEF Moves
  <2>2. Alone(c, call, w)'
    BY <1>3, <1>4, <1>7, <1>10, <1>17, <2>1 DEF OfClient, Alone, DeathPlaces
  <2>3. Placed(c, call)' /\ Placed(c, w)'
    BY <1>17, <2>1 DEF Placed, Coming, Going
  <2>4. Exists(c, call, w)'
    BY <1>3, <1>4, <1>10, <1>17, <2>1, ExistsSame DEF OfClient, Amid
  <2>5. Thorough(c, w)'
    <3>1. death.s = s
      BY <1>4, <1>5, <1>17
    <3>3. Thorough(c, death) /\ death.pc = "deleteSession"
      BY <1>3, <1>4, <1>17 DEF OfClient
    <3>0. s \notin left /\ sessions[c] = left \cup {s} /\ \A r \in left : copied[r] = tracks[c][r]
      BY <3>1, <3>3 DEF Thorough
    <3>2. sessions'[c] = left' /\ \A r \in left' : copied'[r] = tracks'[c][r]
      BY <1>8, <1>10, <3>0
    <3> QED
      BY <2>1, <3>2 DEF Thorough, Going
  <2>6. OfClient(c, call, w)'
    BY <1>12, <2>2, <2>3, <2>4, <2>5 DEF OfClient
  <2> QED
    BY <1>1, <1>2, <1>4, <1>9, <1>11, <1>13, <1>17, <2>6, DeathDone
<1> QED
  BY <1>4, <1>16, <1>17
-----------------------------------------------------------------------------
(* Tracks come and go.                                                     *)

\* The source and the encoder of one track become x and y.
Touch(c, s, k, x, y) ==
  LET i == GetUniqueServiceTrackId(c, s, k) IN
  source' = [source EXCEPT ![i] = x] /\ encoder' = [encoder EXCEPT ![i] = y]

LEMMA Touched ==
  ASSUME Types, NEW c \in Clients, NEW s \in SessionIds, NEW k \in DOMAIN kind,
         NEW x \in Media, NEW y \in Media, Touch(c, s, k, x, y)
  PROVE  /\ MediaOf(c)
         /\ source'[GetUniqueServiceTrackId(c, s, k)] = x
         /\ encoder'[GetUniqueServiceTrackId(c, s, k)] = y
         /\ \A r \in SessionIds, j \in DOMAIN kind :
              LET i == GetUniqueServiceTrackId(c, r, j) IN
              ~(r = s /\ j = k) => source'[i] = source[i] /\ encoder'[i] = encoder[i]
<1>1. PICK i : i = GetUniqueServiceTrackId(c, s, k)
  OBVIOUS
<1>2. i \in ServiceIds /\ k \in Tracks
  BY <1>1, KindTracks
<1>3. source' = [source EXCEPT ![i] = x] /\ encoder' = [encoder EXCEPT ![i] = y]
  BY <1>1 DEF Touch
<1>4. source \in [ServiceIds -> Media] /\ encoder \in [ServiceIds -> Media]
  BY DEF Types, Shapes
<1>5. MediaOf(c)
  BY <1>1, <1>2, <1>3, <1>4 DEF MediaOf, Same
<1>6. source'[i] = x /\ encoder'[i] = y
  BY <1>2, <1>3, <1>4
<1>7. ASSUME NEW r \in SessionIds, NEW j \in DOMAIN kind, ~(r = s /\ j = k), NEW h,
             h = GetUniqueServiceTrackId(c, r, j)
      PROVE  source'[h] = source[h] /\ encoder'[h] = encoder[h]
  <2>1. h \in ServiceIds /\ j \in Tracks
    BY <1>7, KindTracks
  <2>2. ASSUME h = i PROVE FALSE
    <3>1. GetUniqueServiceTrackId(c, r, j) = GetUniqueServiceTrackId(c, s, k)
      BY <1>1, <1>7, <2>2
    <3>2. r = s /\ j = k
      BY SMT, <1>2, <2>1, <3>1, IdsDiffer
    <3> QED
      BY <1>7, <3>2
  <2> QED
    BY <1>3, <1>4, <2>1, <2>2
<1> QED
  BY <1>1, <1>5, <1>6, <1>7

\* Threads at v and w of client c have and want the same, for every track but k of
\* session s, as threads at call and death did before the step; and for that one
\* there is now a source, x, and an encoder, y, as they want.
Elsewhere(c, s, k, v, w, call, death) ==
  \A r \in SessionIds, j \in DOMAIN kind : ~(r = s /\ j = k) =>
    /\ HasSource(c, r, j, v, w)' <=> HasSource(c, r, j, call, death)
    /\ HasEncoder(c, r, j, v, w)' <=> HasEncoder(c, r, j, call, death)
AsWanted(c, s, k, v, w, x, y) ==
  /\ x # "none" <=> HasSource(c, s, k, v, w)'
  /\ y # "none" <=> HasEncoder(c, s, k, v, w)'

LEMMA TouchedExists ==
  ASSUME Types, NEW c \in Clients, NEW s \in SessionIds, NEW k \in DOMAIN kind,
         NEW x \in Media, NEW y \in Media, Touch(c, s, k, x, y), kind' = kind,
         NEW call, NEW death, NEW v, NEW w, Exists(c, call, death),
         Elsewhere(c, s, k, v, w, call, death), AsWanted(c, s, k, v, w, x, y)
  PROVE  Exists(c, v, w)'
<1> SUFFICES ASSUME NEW r \in SessionIds, NEW j \in DOMAIN kind, NEW i,
                    i = GetUniqueServiceTrackId(c, r, j)
             PROVE  /\ source'[i] # "none" <=> HasSource(c, r, j, v, w)'
                    /\ encoder'[i] # "none" <=> HasEncoder(c, r, j, v, w)'
  BY DEF Exists
<1>1. CASE r = s /\ j = k
  <2>1. source'[i] = x /\ encoder'[i] = y
    BY SMT, <1>1, Touched
  <2> QED
    BY <1>1, <2>1 DEF AsWanted
<1>2. CASE ~(r = s /\ j = k)
  <2>1. source'[i] = source[i] /\ encoder'[i] = encoder[i]
    BY SMT, <1>2, Touched
  <2>2. /\ source[i] # "none" <=> HasSource(c, r, j, call, death)
        /\ encoder[i] # "none" <=> HasEncoder(c, r, j, call, death)
    BY DEF Exists
  <2>3. /\ HasSource(c, r, j, v, w)' <=> HasSource(c, r, j, call, death)
        /\ HasEncoder(c, r, j, v, w)' <=> HasEncoder(c, r, j, call, death)
    BY <1>2 DEF Elsewhere
  <2> QED
    BY <2>1, <2>2, <2>3
<1> QED
  BY <1>1, <1>2

\* The step of a thread t that is busy with a track: the maps keyed by session,
\* and the sessions, stay as they are.
OnTheTrack(t) ==
  /\ kind' = kind /\ life' = life /\ cleaning' = cleaning /\ left' = left /\ copied' = copied
  /\ sessions_state_' = sessions_state_ /\ mutexes' = mutexes
  /\ unique_session_id_' = unique_session_id_
  /\ registered' \in {registered, registered \cup {Client(t)}}
  /\ sessions' \in {sessions, [sessions EXCEPT ![Client(t)] = @ \cup {thread[t].s}]}
  /\ \A d \in Clients : d # Client(t) => tracks'[d] = tracks[d]
  /\ Alters(t) /\ thread[t].pc \in Coming \cup Going

\* The step of t, which is w afterwards, is the call's or the cleanup's of client
\* c, whose threads are call and death; it is at track k of session s.
ByCall(t, c, s, k, call, death) ==
  /\ t = <<c, "call">> /\ death.pc = "idle"
  /\ call.pc = thread[t].pc /\ call.s = s /\ call.k = k
ByDeath(t, c, s, k, call, death) ==
  /\ t = <<c, "death">> /\ call.pc = "idle"
  /\ death.pc = thread[t].pc /\ death.s = s /\ death.k = k
Scene(t, c, s, k, call, death, w) ==
  /\ c = Client(t) /\ s = thread[t].s /\ k = thread[t].k /\ w = thread'[t]
  /\ call = thread[<<c, "call">>] /\ death = thread[<<c, "death">>]
  /\ OfClient(c, call, death) /\ c \in registered /\ life[c] # "gone"
  /\ ByCall(t, c, s, k, call, death) \/ ByDeath(t, c, s, k, call, death)
  /\ registered' = registered /\ sessions' = sessions /\ Keyed' /\ OthersKept(c)
  /\ s \in sessions[c] /\ source[GetUniqueServiceTrackId(c, s, k)] \in Media
  /\ encoder[GetUniqueServiceTrackId(c, s, k)] \in Media

LEMMA OnTheTrackSteps ==
  ASSUME Types, Order, NEW t \in Threads, OnTheTrack(t)
  PROVE  \E c \in Clients, s \in SessionIds, k \in DOMAIN kind : \E call, death, w :
           Scene(t, c, s, k, call, death, w)
<1>1. thread[t].pc # "idle" /\ thread[t].pc \notin {"createSession", "next"}
  BY DEF OnTheTrack, Coming, Going
<1>who. PICK c \in Clients : \E call, death : Work(t, c, call, death)
  BY <1>1, AtWork
<1>2. PICK call, death :
        /\ c = Client(t) /\ call = thread[<<c, "call">>] /\ death = thread[<<c, "death">>]
        /\ OfClient(c, call, death) /\ c \in registered /\ life[c] # "gone"
        /\ \/ t = <<c, "call">> /\ death.pc = "idle" /\ call.pc = thread[t].pc
           \/ t = <<c, "death">> /\ call.pc = "idle" /\ death.pc = thread[t].pc
  BY <1>who DEF Work
<1>3. PICK s \in SessionIds : s = thread[t].s
  BY DEF Types, Record
<1>4. PICK k : k = thread[t].k
  OBVIOUS
<1>5. s \in sessions[c]
  BY <1>1, <1>2, <1>3 DEF OfClient, Placed
<1>6. k \in DOMAIN kind
  <2>1. tracks[c][s] \subseteq DOMAIN kind
    BY SMT DEF Types, Shapes
  <2> QED
    BY <1>2, <1>3, <1>4, <2>1 DEF OfClient, Placed, OnTheTrack
<1>7. registered' = registered /\ sessions' = sessions
  <2>1. registered \cup {c} = registered /\ sessions[c] \cup {s} = sessions[c]
    BY <1>2, <1>5
  <2>2. [sessions EXCEPT ![c] = @ \cup {s}] = sessions
    BY <2>1 DEF Types, Shapes
  <2> QED
    BY <1>2, <1>3, <2>1, <2>2 DEF OnTheTrack
<1>8. Keyed'
  BY SMT, <1>7 DEF Order, Keyed, OnTheTrack
<1>9. OthersKept(c)
  BY <1>2, <1>7 DEF OthersKept, OnTheTrack
<1>10. /\ source[GetUniqueServiceTrackId(c, s, k)] \in Media
       /\ encoder[GetUniqueServiceTrackId(c, s, k)] \in Media
  BY <1>6, KindTracks DEF Types, Shapes
<1>11. ByCall(t, c, s, k, call, death) \/ ByDeath(t, c, s, k, call, death)
  BY <1>2, <1>3, <1>4 DEF ByCall, ByDeath
<1>12. PICK w : w = thread'[t]
  OBVIOUS
<1> QED
  BY <1>2, <1>3, <1>4, <1>5, <1>6, <1>7, <1>8, <1>9, <1>10, <1>11, <1>12 DEF Scene
LEMMA OnTheTrackTypes ==
  ASSUME Types, NEW t \in Threads, OnTheTrack(t),
         source' \in [ServiceIds -> Media], encoder' \in [ServiceIds -> Media],
         tracks' \in [Clients -> [SessionIds -> SUBSET DOMAIN kind]],
         (\E to \in Coming \cup Going \cup {"idle", "tracks"} : Moves(t, to)) \/ Rests(t),
         thread'[t].pc \in Coming => thread[t].pc \in Coming
  PROVE  Types'
<1>1. thread[t].s \in SessionIds /\ Client(t) \in Clients
  BY Whose DEF Types, Record
<1>2. Shapes'
  <2>1. sessions' \in [Clients -> SUBSET SessionIds] /\ registered' \subseteq Clients
    BY SMT, <1>1 DEF Types, Shapes, OnTheTrack
  <2> QED
    BY <2>1 DEF Types, Shapes, OnTheTrack
<1>3. thread'[t].pc \in Coming => thread'[t].k \in DOMAIN kind
  BY DEF Types, Moves, Rests, Coming
<1>4. thread[t].pc # "createSession" /\ thread'[t].pc # "createSession"
  BY DEF OnTheTrack, Moves, Rests, Coming, Going
<1> QED
  BY <1>2, <1>3, <1>4, TypesKept DEF OnTheTrack

LEMMA TouchSame ==
  ASSUME Types, NEW i
  PROVE  [source EXCEPT ![i] = source[i]] = source /\ [encoder EXCEPT ![i] = encoder[i]] = encoder
BY DEF Types, Shapes

\* What a step at a track leads to, once it is known what the client sees.
LEMMA SceneDone ==
  ASSUME Types, Order, NEW t \in Threads, OnTheTrack(t), NEW c \in Clients, NEW s, NEW k,
         NEW call, NEW death, NEW w, Scene(t, c, s, k, call, death, w), MediaOf(c),
         ByCall(t, c, s, k, call, death) => OfClient(c, w, death)',
         ByDeath(t, c, s, k, call, death) => OfClient(c, call, w)'
  PROVE  Order'
<1>1. CASE ByCall(t, c, s, k, call, death)
  BY <1>1, CallDone DEF Scene, ByCall, OnTheTrack
<1>2. CASE ByDeath(t, c, s, k, call, death)
  BY <1>2, DeathDone DEF Scene, ByDeath, OnTheTrack
<1> QED
  BY <1>1, <1>2 DEF Scene
\* A track comes into being only in a call.
LEMMA ComingByCall ==
  ASSUME NEW t, NEW c, NEW s, NEW k, NEW call, NEW death, NEW w,
         Scene(t, c, s, k, call, death, w), thread[t].pc \in Coming
  PROVE  ByCall(t, c, s, k, call, death) /\ ~ByDeath(t, c, s, k, call, death)
<1>1. Coming \cap DeathPlaces = {}
  BY DEF Coming, DeathPlaces, Going
<1>2. ~ByDeath(t, c, s, k, call, death)
  BY <1>1 DEF Scene, ByDeath, OfClient, Alone
<1> QED
  BY <1>2 DEF Scene

\* The call w of client c goes on to make its track, or gives up.
LEMMA ComingClient ==
  ASSUME NEW c \in Clients, NEW call, NEW death, NEW w, OfClient(c, call, death),
         call.pc \in Coming, w.pc \in Coming \cup {"idle"},
         w.pc # "idle" => w.s = call.s /\ w.k = call.k,
         w.pc = "addSource" => IsEncoded(kind[w.k]),
         kind' = kind, life' = life, registered' = registered, sessions' = sessions,
         tracks' = tracks, cleaning' = cleaning, Exists(c, w, death)'
  PROVE  OfClient(c, w, death)'
<1>0. death.pc = "idle" /\ life[c] # "gone"
  BY DEF OfClient, Alone, Coming
<1>1. Alone(c, w, death)'
  BY <1>0 DEF OfClient, Alone, Coming, CallPlaces
<1>2. Placed(c, w)'
  BY DEF OfClient, Placed, Coming, Going
<1>3. Placed(c, death)' /\ Thorough(c, death)'
  BY <1>0 DEF Placed, Thorough, Coming, Going
<1> QED
  BY <1>1, <1>2, <1>3 DEF OfClient

LEMMA CreateTrackSourceOn ==
  ASSUME Types, NEW t \in Threads, CreateTrackSource(t)
  PROVE  OnTheTrack(t) /\ Types'
<1>0. {"addSource", "associate", "idle"} \subseteq Places /\ "createTrack" \in Coming
  BY DEF Places, CallPlaces, Coming
<1>1. (\E to \in {"addSource", "associate", "idle"} : Moves(t, to)) \/ Rests(t)
  <2>1. CASE \E to \in {"addSource", "associate"} : Goto(t, to)
    BY <1>0, <2>1, GotoMoves
  <2>2. CASE Return(t, "idle")
    BY <1>0, <2>2, ReturnMoves
  <2> QED
    BY <2>1, <2>2 DEF CreateTrackSource
<1>2. OnTheTrack(t)
  BY <1>0, <1>1 DEF OnTheTrack, CreateTrackSource, service, maps, state, Moves, Rests
<1>3. source' \in [ServiceIds -> Media] /\ encoder' \in [ServiceIds -> Media]
  BY SMT DEF Types, Shapes, CreateTrackSource, Media
<1>4. tracks' \in [Clients -> [SessionIds -> SUBSET DOMAIN kind]]
  BY DEF Types, Shapes, CreateTrackSource, maps
<1>5. (\E to \in Coming \cup Going \cup {"idle", "tracks"} : Moves(t, to)) \/ Rests(t)
  BY <1>1 DEF Coming
<1>6. thread[t].pc \in Coming
  BY <1>0 DEF CreateTrackSource
<1> QED
  BY <1>2, <1>3, <1>4, <1>5, <1>6, OnTheTrackTypes

LEMMA CreateTrackSourceKeeps ==
  ASSUME IInv, NEW t \in Threads, CreateTrackSource(t)
  PROVE  IInv'
<1>1. Types /\ Types' /\ OnTheTrack(t)
  BY CreateTrackSourceOn DEF IInv
<1> SUFFICES ASSUME Tidy' PROVE Order'
  BY <1>1 DEF IInv
<1>2. /\ Order /\ thread[t].pc = "createTrack" /\ "createTrack" \in Coming
      /\ kind[thread[t].k] # "rgb"
  BY NoteTidy DEF IInv, CreateTrackSource, Tidy, Coming
<1>who. PICK c \in Clients, s \in SessionIds, k \in DOMAIN kind : \E call, death, w :
        Scene(t, c, s, k, call, death, w)
  BY <1>1, <1>2, OnTheTrackSteps
<1>3. PICK call, death, w :
        Scene(t, c, s, k, call, death, w)
  BY <1>who
<1>4. ByCall(t, c, s, k, call, death) /\ ~ByDeath(t, c, s, k, call, death)
  BY <1>2, <1>3, ComingByCall
<1>5. call.pc = "createTrack" /\ call.s = s /\ call.k = k /\ death.pc = "idle"
  BY <1>2, <1>4 DEF ByCall
<1>6. PICK i, x, y : /\ i = GetUniqueServiceTrackId(c, s, k)
                     /\ x = source[i] /\ y = encoder[i]
  OBVIOUS
<1>7. k \notin tracks[c][s] /\ x = "none" /\ y = "none"
  <2>1. k \notin tracks[c][s]
    BY <1>3, <1>5 DEF Scene, OfClient, Placed, Coming
  <2>2. Exists(c, call, death)
    BY <1>3 DEF Scene, OfClient
  <2>3. ~HasSource(c, s, k, call, death) /\ ~HasEncoder(c, s, k, call, death)
    BY <1>5, <2>1 DEF HasSource, HasEncoder, Here
  <2> QED
    BY <1>6, <2>1, <2>2, <2>3 DEF Exists
<1>8. /\ kind' = kind /\ life' = life /\ registered' = registered /\ sessions' = sessions
      /\ tracks' = tracks /\ cleaning' = cleaning /\ encoder' = encoder
  BY DEF CreateTrackSource, service, maps
<1>9. w.pc # "idle" => w.s = call.s /\ w.k = call.k
  <2>1. (\E to : Moves(t, to)) \/ Rests(t)
    <3>0. {"addSource", "associate", "idle"} \subseteq Places
      BY DEF Places, CallPlaces, Coming
    <3>1. CASE \E to \in {"addSource", "associate"} : Goto(t, to)
      BY <1>1, <3>0, <3>1, GotoMoves
    <3>2. CASE Return(t, "idle")
      BY <1>1, <3>0, <3>2, ReturnMoves
    <3> QED
      BY <3>1, <3>2 DEF CreateTrackSource
  <2> QED
    BY <1>3, <1>4, <1>5, <2>1 DEF Scene, ByCall, Moves, Rests
<1>10. CASE /\ Goto(t, IF IsEncoded(kind[k]) THEN "addSource" ELSE "associate")
            /\ source' = [source EXCEPT ![i] = IF @ = "none" THEN "new" ELSE @]
  <2>1. w.pc = IF IsEncoded(kind[k]) THEN "addSource" ELSE "associate"
    <3>1. (IF IsEncoded(kind[k]) THEN "addSource" ELSE "associate") \in Places
      BY DEF Places, CallPlaces, Coming
    <3> QED
      BY <1>1, <1>3, <1>10, <3>1, GotoMoves DEF Scene, Moves
  <2>2. Touch(c, s, k, "new", y)
    BY <1>1, <1>6, <1>7, <1>8, <1>10, TouchSame DEF Touch
  <2>3. "new" \in Media /\ y \in Media
    BY <1>7 DEF Media
  <2>4. Elsewhere(c, s, k, w, death, call, death)
    BY SMT, <1>5, <1>8, <1>9, <2>1 DEF Elsewhere, HasSource, HasEncoder, Here
  <2>5. HasSource(c, s, k, w, death)' /\ ~HasEncoder(c, s, k, w, death)'
    BY <1>5, <1>7, <1>8, <1>9, <2>1 DEF HasSource, HasEncoder, Here
  <2>6. Exists(c, w, death)'
    <3>1. Exists(c, call, death)
      BY <1>3 DEF Scene, OfClient
    <3>2. AsWanted(c, s, k, w, death, "new", y)
      BY <1>7, <2>5 DEF AsWanted
    <3> QED
      BY <1>1, <1>8, <2>2, <2>3, <2>4, <3>1, <3>2, TouchedExists
  <2>7. OfClient(c, w, death)'
    BY <1>2, <1>3, <1>5, <1>8, <1>9, <2>1, <2>6, ComingClient DEF Scene, Coming
  <2>8. MediaOf(c)
    BY <1>1, <2>2, <2>3, Touched
  <2> QED
    BY <1>1, <1>2, <1>3, <1>4, <2>7, <2>8, SceneDone
<1>11. CASE Return(t, "idle") /\ source' = source
  <2>1. w.pc = "idle"
    <3>1. "idle" \in Places
      BY DEF Places, CallPlaces
    <3> QED
      BY <1>1, <1>3, <1>11, <3>1, Returned DEF Scene
  <2>2. Exists(c, w, death)'
    BY <1>3, <1>5, <1>8, <1>11, <2>1, ExistsSame DEF Scene, OfClient, Amid
  <2>3. OfClient(c, w, death)'
    BY <1>2, <1>3, <1>5, <1>8, <2>1, <2>2, ComingClient DEF Scene
  <2>4. MediaOf(c)
    BY <1>1, <1>8, <1>11, MediaSame
  <2> QED
    BY <1>1, <1>2, <1>3, <1>4, <2>3, <2>4, SceneDone
<1> QED
  BY <1>2, <1>3, <1>6, <1>10, <1>11 DEF CreateTrackSource, Scene, ServiceId
LEMMA AddSourceOn ==
  ASSUME Types, NEW t \in Threads, AddSource(t)
  PROVE  /\ OnTheTrack(t) /\ Types'
         /\ (\E to \in {"associate", "idle"} : Moves(t, to)) \/ Rests(t)
<1>0. {"associate", "idle"} \subseteq Places /\ "addSource" \in Coming
  BY DEF Places, CallPlaces, Coming
<1>1. (\E to \in {"associate", "idle"} : Moves(t, to)) \/ Rests(t)
  <2>1. CASE Goto(t, "associate")
    BY <1>0, <2>1, GotoMoves
  <2>2. CASE Return(t, "idle")
    BY <1>0, <2>2, ReturnMoves
  <2> QED
    BY <2>1, <2>2 DEF AddSource
<1>2. OnTheTrack(t)
  BY <1>0, <1>1 DEF OnTheTrack, AddSource, service, maps, state, Moves, Rests
<1>3. source' \in [ServiceIds -> Media] /\ encoder' \in [ServiceIds -> Media]
  BY DEF Types, Shapes, AddSource, Media
<1>4. tracks' \in [Clients -> [SessionIds -> SUBSET DOMAIN kind]]
  BY DEF Types, Shapes, AddSource, maps
<1>5. (\E to \in Coming \cup Going \cup {"idle", "tracks"} : Moves(t, to)) \/ Rests(t)
  BY <1>1 DEF Coming
<1>6. thread[t].pc \in Coming
  BY <1>0 DEF AddSource
<1> QED
  BY <1>1, <1>2, <1>3, <1>4, <1>5, <1>6, OnTheTrackTypes

LEMMA AddSourceKeeps ==
  ASSUME IInv, NEW t \in Threads, AddSource(t)
  PROVE  IInv'
<1>1. Types /\ Types' /\ OnTheTrack(t)
  BY AddSourceOn DEF IInv
<1> SUFFICES ASSUME Tidy' PROVE Order'
  BY <1>1 DEF IInv
<1>2. /\ Order /\ thread[t].pc = "addSource" /\ "addSource" \in Coming
      /\ Goto(t, "associate")
      /\ encoder' = [encoder EXCEPT ![ServiceId(t)] = IF @ = "none" THEN "new" ELSE @]
  BY NoteTidy DEF IInv, AddSource, Tidy, Coming
<1>who. PICK c \in Clients, s \in SessionIds, k \in DOMAIN kind : \E call, death, w :
        Scene(t, c, s, k, call, death, w)
  BY <1>1, <1>2, OnTheTrackSteps
<1>3. PICK call, death, w :
        Scene(t, c, s, k, call, death, w)
  BY <1>who
<1>4. ByCall(t, c, s, k, call, death) /\ ~ByDeath(t, c, s, k, call, death)
  BY <1>2, <1>3, ComingByCall
<1>5. call.pc = "addSource" /\ call.s = s /\ call.k = k /\ death.pc = "idle"
  BY <1>2, <1>4 DEF ByCall
<1>6. PICK i, x, y : /\ i = GetUniqueServiceTrackId(c, s, k)
                     /\ x = source[i] /\ y = encoder[i]
  OBVIOUS
<1>7. k \notin tracks[c][s] /\ x # "none" /\ y = "none" /\ IsEncoded(kind[k])
  <2>1. k \notin tracks[c][s] /\ IsEncoded(kind[k])
    BY <1>3, <1>5 DEF Scene, OfClient, Placed, Coming
  <2>2. Exists(c, call, death)
    BY <1>3 DEF Scene, OfClient
  <2>3. HasSource(c, s, k, call, death) /\ ~HasEncoder(c, s, k, call, death)
    BY <1>5, <2>1 DEF HasSource, HasEncoder, Here
  <2> QED
    BY <1>6, <2>1, <2>2, <2>3 DEF Exists
<1>8. /\ kind' = kind /\ life' = life /\ registered' = registered /\ sessions' = sessions
      /\ tracks' = tracks /\ cleaning' = cleaning /\ source' = source
  BY DEF AddSource, service, maps
<1>9. w.pc = "associate" /\ w.s = s /\ w.k = k
  <2>1. "associate" \in Places
    BY DEF Places, CallPlaces, Coming
  <2>2. Moves(t, "associate")
    BY <1>1, <1>2, <2>1, GotoMoves
  <2> QED
    BY <1>3, <2>2 DEF Scene, Moves
<1>10. Touch(c, s, k, x, "new")
  <2>1. ServiceId(t) = i
    BY <1>3, <1>6 DEF ServiceId, Scene
  <2> QED
    BY <1>1, <1>2, <1>6, <1>7, <1>8, <2>1, TouchSame DEF Touch
<1>11. "new" \in Media /\ x \in Media
  BY <1>3, <1>6 DEF Media, Scene
<1>12. Elsewhere(c, s, k, w, death, call, death)
  BY <1>5, <1>8, <1>9 DEF Elsewhere, HasSource, HasEncoder, Here
<1>13. Exists(c, w, death)'
  <2>1. Exists(c, call, death)
    BY <1>3 DEF Scene, OfClient
  <2>2. HasSource(c, s, k, w, death)' /\ HasEncoder(c, s, k, w, death)'
    BY <1>7, <1>8, <1>9 DEF HasSource, HasEncoder, Here
  <2>3. AsWanted(c, s, k, w, death, x, "new")
    BY <1>7, <2>2 DEF AsWanted
  <2> QED
    BY <1>1, <1>8, <1>10, <1>11, <1>12, <2>1, <2>3, TouchedExists
<1>14. OfClient(c, w, death)'
  BY <1>2, <1>3, <1>5, <1>8, <1>9, <1>13, ComingClient DEF Scene, Coming
<1>15. MediaOf(c)
  BY <1>1, <1>10, <1>11, Touched
<1> QED
  BY <1>1, <1>2, <1>3, <1>4, <1>14, <1>15, SceneDone

LEMMA AssociateOn ==
  ASSUME Types, NEW t \in Threads, Associate(t)
  PROVE  /\ OnTheTrack(t) /\ Types' /\ thread'[t].pc = "idle"
         /\ tracks'[Client(t)] =
              [tracks[Client(t)] EXCEPT ![thread[t].s] = @ \cup {thread[t].k}]
<1>0. "idle" \in Places /\ "associate" \in Coming /\ thread[t].pc = "associate"
  BY DEF Places, CallPlaces, Coming, Associate
<1>1. (\E to \in Coming \cup Going \cup {"idle", "tracks"} : Moves(t, to)) \/ Rests(t)
  BY <1>0, ReturnMoves DEF Associate
<1>2. Client(t) \in Clients /\ thread[t].s \in SessionIds /\ thread[t].k \in DOMAIN kind
  BY <1>0, Whose DEF Types, Record
<1>3. /\ tracks'[Client(t)] = [tracks[Client(t)] EXCEPT ![thread[t].s] = @ \cup {thread[t].k}]
      /\ \A d \in Clients : d # Client(t) => tracks'[d] = tracks[d]
  BY <1>2 DEF Associate, Types, Shapes
<1>4. Alters(t) /\ thread'[t].pc = "idle"
  BY <1>0, Returned DEF Associate
<1>5. OnTheTrack(t)
  BY <1>0, <1>3, <1>4 DEF OnTheTrack, Associate, service, state
<1>6. source' \in [ServiceIds -> Media] /\ encoder' \in [ServiceIds -> Media]
  BY DEF Types, Shapes, Associate, media
<1>7. tracks' \in [Clients -> [SessionIds -> SUBSET DOMAIN kind]]
  <2>1. tracks'[Client(t)] \in [SessionIds -> SUBSET DOMAIN kind]
    BY SMT, <1>2, <1>3 DEF Types, Shapes
  <2>2. tracks' = [tracks EXCEPT ![Client(t)] = tracks'[Client(t)]]
    BY <1>2, <1>3 DEF Types, Shapes, Associate
  <2> QED
    BY <2>1, <2>2 DEF Types, Shapes
<1> QED
  BY <1>0, <1>1, <1>3, <1>4, <1>5, <1>6, <1>7, OnTheTrackTypes

LEMMA AssociateKeeps ==
  ASSUME IInv, NEW t \in Threads, Associate(t)
  PROVE  IInv'
<1>1. Types /\ Types' /\ OnTheTrack(t)
  BY AssociateOn DEF IInv
<1> SUFFICES ASSUME Tidy' PROVE Order'
  BY <1>1 DEF IInv
<1>2. Order /\ thread[t].pc = "associate" /\ "associate" \in Coming
  BY DEF IInv, Associate, Tidy, Coming
<1>who. PICK c \in Clients, s \in SessionIds, k \in DOMAIN kind : \E call, death, w :
        Scene(t, c, s, k, call, death, w)
  BY <1>1, <1>2, OnTheTrackSteps
<1>3. PICK call, death, w :
        Scene(t, c, s, k, call, death, w)
  BY <1>who
<1>4. ByCall(t, c, s, k, call, death) /\ ~ByDeath(t, c, s, k, call, death)
  BY <1>2, <1>3, ComingByCall
<1>5. call.pc = "associate" /\ call.s = s /\ call.k = k /\ death.pc = "idle"
  BY <1>2, <1>4 DEF ByCall
<1>6. PICK i, x, y : /\ i = GetUniqueServiceTrackId(c, s, k)
                     /\ x = source[i] /\ y = encoder[i]
  OBVIOUS
<1>7. k \notin tracks[c][s] /\ x # "none" /\ (y # "none" <=> IsEncoded(kind[k]))
  <2>1. k \notin tracks[c][s]
    BY <1>3, <1>5 DEF Scene, OfClient, Placed, Coming
  <2>2. Exists(c, call, death)
    BY <1>3 DEF Scene, OfClient
  <2>3. /\ HasSource(c, s, k, call, death)
        /\ HasEncoder(c, s, k, call, death) <=> IsEncoded(kind[k])
    BY <1>5, <2>1 DEF HasSource, HasEncoder, Here
  <2> QED
    BY <1>6, <2>1, <2>2, <2>3 DEF Exists
<1>8. /\ kind' = kind /\ life' = life /\ cleaning' = cleaning
      /\ source' = source /\ encoder' = encoder
      /\ registered' = registered /\ sessions' = sessions /\ w.pc = "idle"
      /\ tracks'[c] = [tracks[c] EXCEPT ![s] = @ \cup {k}]
  BY <1>1, <1>3, AssociateOn DEF Associate, service, media, Scene
<1>9. \A r \in SessionIds : tracks'[c][r] = IF r = s THEN tracks[c][s] \cup {k} ELSE tracks[c][r]
  BY <1>1, <1>8 DEF Types, Shapes
<1>a. \A r \in SessionIds : \A j : j \in tracks'[c][r] <=> j \in tracks[c][r] \/ (r = s /\ j = k)
  BY <1>9
<1>b. /\ \A r, j, places : Here(w, r, j, places) \/ Here(death, r, j, places) => "idle" \in places
      /\ \A r, j, places : Here(call, r, j, places) <=> "associate" \in places /\ r = s /\ j = k
  BY <1>5, <1>8 DEF Here
<1>10. Touch(c, s, k, x, y)
  BY <1>1, <1>6, <1>8, TouchSame DEF Touch
<1>11. x \in Media /\ y \in Media
  BY <1>3, <1>6 DEF Scene
<1>12. Elsewhere(c, s, k, w, death, call, death)
  BY SMT, <1>8, <1>a, <1>b DEF Elsewhere, HasSource, HasEncoder
<1>13. Exists(c, w, death)'
  <2>1. Exists(c, call, death)
    BY <1>3 DEF Scene, OfClient
  <2>2. /\ HasSource(c, s, k, w, death)'
        /\ HasEncoder(c, s, k, w, death)' <=> IsEncoded(kind[k])
    BY <1>8, <1>a, <1>b DEF HasSource, HasEncoder
  <2>3. AsWanted(c, s, k, w, death, x, y)
    BY <1>7, <2>2 DEF AsWanted
  <2> QED
    BY <1>1, <1>8, <1>10, <1>11, <1>12, <2>1, <2>3, TouchedExists
<1>14. OfClient(c, w, death)'
  <2>1. Alone(c, w, death)'
    BY <1>3, <1>5, <1>8 DEF Scene, OfClient, Alone, CallPlaces
  <2>2. Placed(c, w)' /\ Placed(c, death)' /\ Thorough(c, death)'
    BY <1>5, <1>8 DEF Placed, Thorough, Coming, Going
  <2>3. \A r \in SessionIds : r \notin sessions'[c] => tracks'[c][r] = {}
    BY <1>3, <1>8, <1>9 DEF Scene, OfClient
  <2> QED
    BY <1>13, <2>1, <2>2, <2>3 DEF OfClient
<1>15. MediaOf(c)
  BY <1>1, <1>8, MediaSame
<1> QED
  BY <1>1, <1>2, <1>3, <1>4, <1>14, <1>15, SceneDone

\* The thread w of client c goes on to delete its track: a call ...
LEMMA GoingCall ==
  ASSUME NEW c \in Clients, NEW call, NEW death, NEW w, OfClient(c, call, death),
         call.pc \in Going, w.pc \in {"deleteEncoder", "forget"}, w.s = call.s, w.k = call.k,
         w.pc = "deleteEncoder" => IsEncoded(kind[w.k]),
         kind' = kind, life' = life, registered' = registered, sessions' = sessions,
         tracks' = tracks, cleaning' = cleaning, Exists(c, w, death)'
  PROVE  OfClient(c, w, death)'
<1>0. death.pc = "idle" /\ life[c] # "gone"
  BY DEF OfClient, Alone, Going
<1>1. Alone(c, w, death)'
  BY <1>0 DEF OfClient, Alone, Going, CallPlaces
<1>2. Placed(c, w)'
  BY DEF OfClient, Placed, Coming, Going
<1>3. Placed(c, death)' /\ Thorough(c, death)'
  BY <1>0 DEF Placed, Thorough, Coming, Going
<1> QED
  BY <1>1, <1>2, <1>3 DEF OfClient

\* ... or the cleanup.
LEMMA GoingDeath ==
  ASSUME NEW c \in Clients, NEW call, NEW death, NEW w, OfClient(c, call, death),
         death.pc \in Going, w.pc \in {"deleteEncoder", "forget"}, w.s = death.s, w.k = death.k,
         w.pc = "deleteEncoder" => IsEncoded(kind[w.k]),
         kind' = kind, life' = life, registered' = registered, sessions' = sessions,
         tracks' = tracks, cleaning' = cleaning, left' = left, copied' = copied,
         Exists(c, call, w)'
  PROVE  OfClient(c, call, w)'
<1>0. call.pc = "idle" /\ life[c] = "dead" /\ cleaning = c /\ death.pc \notin {"idle", "next"}
  BY DEF OfClient, Alone, Going
<1>1. Alone(c, call, w)'
  BY <1>0 DEF OfClient, Alone, Going, DeathPlaces
<1>2. Placed(c, w)'
  BY DEF OfClient, Placed, Coming, Going
<1>3. Placed(c, call)'
  BY <1>0 DEF Placed, Coming, Going
<1>4. Thorough(c, w)'
  <2>1. /\ \A s \in left : copied[s] = tracks[c][s]
        /\ w.s \notin left /\ sessions[c] = left \cup {w.s}
        /\ tracks[c][w.s] = copied[w.s] \cup {w.k} /\ w.k \notin copied[w.s]
    BY <1>0 DEF OfClient, Thorough
  <2> QED
    BY <2>1 DEF Thorough, Going
<1> QED
  BY <1>1, <1>2, <1>3, <1>4 DEF OfClient

LEMMA DeleteTrackSourceOn ==
  ASSUME Types, NEW t \in Threads, DeleteTrackSource(t)
  PROVE  OnTheTrack(t) /\ Types'
<1>0. /\ {"deleteEncoder", "forget", "tracks"} \subseteq Places /\ "deleteTrack" \in Going
      /\ {"deleteEncoder", "forget"} \cap Coming = {}
  BY DEF Places, CallPlaces, DeathPlaces, Going, Coming
<1>1. (\E to \in {"deleteEncoder", "forget", "tracks"} : Moves(t, to)) \/ Rests(t)
  <2>1. CASE \E to \in {"deleteEncoder", "forget"} : Goto(t, to)
    BY <1>0, <2>1, GotoMoves
  <2>2. CASE Return(t, "tracks")
    BY <1>0, <2>2, ReturnMoves
  <2> QED
    BY <2>1, <2>2 DEF DeleteTrackSource
<1>2. OnTheTrack(t)
  BY <1>0, <1>1 DEF OnTheTrack, DeleteTrackSource, service, maps, state, Moves, Rests
<1>3. source' \in [ServiceIds -> Media] /\ encoder' \in [ServiceIds -> Media]
  BY DEF Types, Shapes, DeleteTrackSource, Media
<1>4. tracks' \in [Clients -> [SessionIds -> SUBSET DOMAIN kind]]
  BY DEF Types, Shapes, DeleteTrackSource, maps
<1>5. (\E to \in Coming \cup Going \cup {"idle", "tracks"} : Moves(t, to)) \/ Rests(t)
  BY <1>1 DEF Going
<1>6. thread'[t].pc \notin Coming
  BY <1>1 DEF Moves, Rests, Coming
<1> QED
  BY <1>2, <1>3, <1>4, <1>5, <1>6, OnTheTrackTypes

\* A track that a thread is about to delete is there, and no other thread is
\* at work for the client.
LEMMA GoingTrack ==
  ASSUME NEW t \in Threads, NEW c \in Clients, NEW s \in SessionIds, NEW k \in DOMAIN kind,
         NEW call, NEW death, NEW w, Scene(t, c, s, k, call, death, w),
         thread[t].pc \in Going
  PROVE  k \in tracks[c][s] /\ \A r, j, places :
           Here(call, r, j, places) \/ Here(death, r, j, places)
             => "idle" \in places \/ (thread[t].pc \in places /\ r = s /\ j = k)
<1>1. CASE ByCall(t, c, s, k, call, death)
  <2>1. call.s = s /\ call.k = k /\ call.pc = thread[t].pc /\ death.pc = "idle"
    BY <1>1 DEF ByCall
  <2>2. k \in tracks[c][s]
    BY <2>1 DEF Scene, OfClient, Placed
  <2> QED
    BY <2>1, <2>2 DEF Here
<1>2. CASE ByDeath(t, c, s, k, call, death)
  <2>1. death.s = s /\ death.k = k /\ death.pc = thread[t].pc /\ call.pc = "idle"
    BY <1>2 DEF ByDeath
  <2>2. k \in tracks[c][s]
    BY <2>1 DEF Scene, OfClient, Placed
  <2> QED
    BY <2>1, <2>2 DEF Here
<1> QED
  BY <1>1, <1>2 DEF Scene

\* A thread goes on to delete its track, whose source is now gone and whose
\* encoder is y.
LEMMA GoingOn ==
  ASSUME Types, Order, NEW t \in Threads, OnTheTrack(t), thread[t].pc \in Going \ {"forget"},
         NEW c \in Clients, NEW s \in SessionIds, NEW k \in DOMAIN kind,
         NEW call, NEW death, NEW w, Scene(t, c, s, k, call, death, w),
         NEW y \in Media, Touch(c, s, k, "none", y), tracks' = tracks,
         w.pc \in {"deleteEncoder", "forget"}, w.s = s, w.k = k,
         w.pc = "deleteEncoder" => IsEncoded(kind[k]),
         y # "none" <=> IsEncoded(kind[k]) /\ w.pc # "forget"
  PROVE  Order'
<1>4. "idle" \notin Going
  BY SMT DEF Going
<1>5. /\ k \in tracks[c][s]
      /\ \A r, j, places : Here(call, r, j, places) \/ Here(death, r, j, places)
            => "idle" \in places \/ (thread[t].pc \in places /\ r = s /\ j = k)
  <2>1. thread[t].pc \in Going
    OBVIOUS
  <2> QED
    BY SMTT(30), <2>1, GoingTrack
<1>8. /\ kind' = kind /\ life' = life /\ registered' = registered /\ sessions' = sessions
      /\ cleaning' = cleaning /\ left' = left /\ copied' = copied
  BY DEF OnTheTrack, Scene
<1>11. "none" \in Media
  BY DEF Media
<1>13. ASSUME NEW v, NEW u, v = w \/ u = w, v = w \/ v.pc = "idle", u = w \/ u.pc = "idle"
       PROVE  Exists(c, v, u)'
  <2>0. \A r, j, places : "idle" \notin places =>
          (Here(v, r, j, places) \/ Here(u, r, j, places) <=> w.pc \in places /\ r = s /\ j = k)
    BY <1>13 DEF Here
  <2>1. Elsewhere(c, s, k, v, u, call, death)
    <3>1. ASSUME NEW r, NEW j, ~(r = s /\ j = k), NEW places, "idle" \notin places
          PROVE  /\ ~Here(v, r, j, places) /\ ~Here(u, r, j, places)
                 /\ ~Here(call, r, j, places) /\ ~Here(death, r, j, places)
      BY <1>5, <2>0, <3>1
    <3>2. /\ "idle" \notin {"deleteEncoder", "forget"} /\ "idle" \notin {"forget"}
          /\ "idle" \notin {"addSource", "associate"} /\ "idle" \notin {"associate"}
      BY SMT
    <3>3. ASSUME NEW r, NEW j, ~(r = s /\ j = k)
          PROVE  /\ HasSource(c, r, j, v, u)' <=> HasSource(c, r, j, call, death)
                 /\ HasEncoder(c, r, j, v, u)' <=> HasEncoder(c, r, j, call, death)
      <4>1. /\ ~Here(v, r, j, {"deleteEncoder", "forget"}) /\ ~Here(v, r, j, {"forget"})
            /\ ~Here(u, r, j, {"deleteEncoder", "forget"}) /\ ~Here(u, r, j, {"forget"})
            /\ ~Here(v, r, j, {"addSource", "associate"}) /\ ~Here(v, r, j, {"associate"})
        BY <3>1, <3>2, <3>3
      <4>2. /\ ~Here(call, r, j, {"deleteEncoder", "forget"}) /\ ~Here(call, r, j, {"forget"})
            /\ ~Here(death, r, j, {"deleteEncoder", "forget"}) /\ ~Here(death, r, j, {"forget"})
            /\ ~Here(call, r, j, {"addSource", "associate"}) /\ ~Here(call, r, j, {"associate"})
        BY <3>1, <3>2, <3>3
      <4> QED
        BY <1>8, <4>1, <4>2 DEF HasSource, HasEncoder
    <3> QED
      BY <3>3 DEF Elsewhere
  <2>3. ~HasSource(c, s, k, v, u)' /\ (HasEncoder(c, s, k, v, u)' <=> y # "none")
    <3>1. /\ ~Here(v, s, k, {"addSource", "associate"}) /\ ~Here(v, s, k, {"associate"})
          /\ \/ Here(v, s, k, {"deleteEncoder", "forget"})
             \/ Here(u, s, k, {"deleteEncoder", "forget"})
          /\ Here(v, s, k, {"forget"}) \/ Here(u, s, k, {"forget"}) <=> w.pc = "forget"
      BY SMT, <2>0
    <3> QED
      BY <1>5, <1>8, <3>1 DEF HasSource, HasEncoder
  <2>4. Exists(c, call, death)
    BY DEF Scene, OfClient
  <2>5. AsWanted(c, s, k, v, u, "none", y)
    BY <2>3 DEF AsWanted
  <2> QED
    BY <1>8, <1>11, <2>1, <2>4, <2>5, TouchedExists
<1>14. ASSUME ByCall(t, c, s, k, call, death) PROVE OfClient(c, w, death)'
  <2>1. death.pc = "idle" /\ call.pc \in Going /\ call.s = s /\ call.k = k
    BY <1>14 DEF ByCall
  <2>2. Exists(c, w, death)' /\ OfClient(c, call, death)
    BY <1>13, <2>1 DEF Scene
  <2> QED
    BY <1>8, <2>1, <2>2, GoingCall
<1>15. ASSUME ByDeath(t, c, s, k, call, death) PROVE OfClient(c, call, w)'
  <2>1. call.pc = "idle" /\ death.pc \in Going /\ death.s = s /\ death.k = k
    BY <1>15 DEF ByDeath
  <2>2. Exists(c, call, w)' /\ OfClient(c, call, death)
    BY <1>13, <2>1 DEF Scene
  <2> QED
    BY <1>8, <2>1, <2>2, GoingDeath
<1>16. MediaOf(c)
  BY <1>11, Touched
<1> QED
  BY <1>14, <1>15, <1>16, SceneDone

LEMMA DeleteTrackSourceKeeps ==
  ASSUME IInv, NEW t \in Threads, DeleteTrackSource(t)
  PROVE  IInv'
<1>1. Types /\ Types' /\ OnTheTrack(t)
  BY DeleteTrackSourceOn DEF IInv
<1> SUFFICES ASSUME Tidy' PROVE Order'
  BY <1>1 DEF IInv
<1>2. Order /\ thread[t].pc = "deleteTrack" /\ "deleteTrack" \in Going
  BY DEF IInv, DeleteTrackSource, Tidy, Going
<1>who. PICK c \in Clients, s \in SessionIds, k \in DOMAIN kind : \E call, death, w :
        Scene(t, c, s, k, call, death, w)
  BY <1>1, <1>2, OnTheTrackSteps
<1>3. PICK call, death, w :
        Scene(t, c, s, k, call, death, w)
  BY <1>who
<1>4. PICK i, y : i = GetUniqueServiceTrackId(c, s, k) /\ y = encoder[i]
  OBVIOUS
<1>5. /\ k \in tracks[c][s]
      /\ \A r, j, places : Here(call, r, j, places) \/ Here(death, r, j, places)
            => "idle" \in places \/ ("deleteTrack" \in places /\ r = s /\ j = k)
  BY SMT, <1>2, <1>3, GoingTrack
<1>6. source[i] # "none" /\ (y # "none" <=> IsEncoded(kind[k]))
  <2>1. Exists(c, call, death)
    BY <1>3 DEF Scene, OfClient
  <2>2. HasSource(c, s, k, call, death) /\ (HasEncoder(c, s, k, call, death) <=> IsEncoded(kind[k]))
    BY <1>5 DEF HasSource, HasEncoder
  <2> QED
    BY <1>4, <2>1, <2>2 DEF Exists
<1>7. /\ source' = [source EXCEPT ![i] = "none"]
      /\ Goto(t, IF IsEncoded(kind[k]) THEN "deleteEncoder" ELSE "forget")
  <2>1. c \in registered /\ s \in sessions[c] /\ ServiceId(t) = i
    BY <1>3, <1>4 DEF Scene, ServiceId
  <2>2. Client(t) = c /\ thread[t].s = s /\ thread[t].k = k
    BY <1>3 DEF Scene
  <2> QED
    BY <1>5, <1>6, <2>1, <2>2 DEF DeleteTrackSource, IsClientValid, IsSessionValid, IsTrackValid
<1>8. tracks' = tracks /\ encoder' = encoder
  BY DEF DeleteTrackSource, maps
<1>9. w.pc = (IF IsEncoded(kind[k]) THEN "deleteEncoder" ELSE "forget") /\ w.s = s /\ w.k = k
  <2>1. (IF IsEncoded(kind[k]) THEN "deleteEncoder" ELSE "forget") \in Places
    BY DEF Places, CallPlaces, Going
  <2>2. Moves(t, IF IsEncoded(kind[k]) THEN "deleteEncoder" ELSE "forget")
    BY <1>1, <1>7, <2>1, GotoMoves
  <2> QED
    BY <1>3, <2>2 DEF Scene, Moves
<1>10. Touch(c, s, k, "none", y) /\ y \in Media
  BY <1>1, <1>3, <1>4, <1>7, <1>8, TouchSame DEF Touch, Scene
<1>11. /\ w.pc \in {"deleteEncoder", "forget"} /\ (w.pc = "deleteEncoder" => IsEncoded(kind[k]))
       /\ y # "none" <=> IsEncoded(kind[k]) /\ w.pc # "forget"
  BY <1>6, <1>9
<1> QED
  BY <1>1, <1>2, <1>3, <1>8, <1>9, <1>10, <1>11, GoingOn

LEMMA DeleteTrackEncoderOn ==
  ASSUME Types, NEW t \in Threads, DeleteTrackEncoder(t)
  PROVE  OnTheTrack(t) /\ Types'
<1>0. {"forget", "tracks"} \subseteq Places /\ "deleteEncoder" \in Going
  BY DEF Places, CallPlaces, DeathPlaces, Going
<1>1. (\E to \in {"forget", "tracks"} : Moves(t, to)) \/ Rests(t)
  <2>1. CASE Goto(t, "forget")
    BY <1>0, <2>1, GotoMoves
  <2>2. CASE Return(t, "tracks")
    BY <1>0, <2>2, ReturnMoves
  <2> QED
    BY <2>1, <2>2 DEF DeleteTrackEncoder
<1>2. OnTheTrack(t)
  BY <1>0, <1>1 DEF OnTheTrack, DeleteTrackEncoder, service, maps, state, Moves, Rests
<1>3. source' \in [ServiceIds -> Media] /\ encoder' \in [ServiceIds -> Media]
  BY DEF Types, Shapes, DeleteTrackEncoder, Media
<1>4. tracks' \in [Clients -> [SessionIds -> SUBSET DOMAIN kind]]
  BY DEF Types, Shapes, DeleteTrackEncoder, maps
<1>5. (\E to \in Coming \cup Going \cup {"idle", "tracks"} : Moves(t, to)) \/ Rests(t)
  BY <1>1 DEF Going
<1>6. thread'[t].pc \notin Coming
  BY <1>1 DEF Moves, Rests, Coming
<1> QED
  BY <1>2, <1>3, <1>4, <1>5, <1>6, OnTheTrackTypes

LEMMA DeleteTrackEncoderKeeps ==
  ASSUME IInv, NEW t \in Threads, DeleteTrackEncoder(t)
  PROVE  IInv'
<1>1. Types /\ Types' /\ OnTheTrack(t)
  BY DeleteTrackEncoderOn DEF IInv
<1> SUFFICES ASSUME Tidy' PROVE Order'
  BY <1>1 DEF IInv
<1>2. Order /\ thread[t].pc = "deleteEncoder" /\ "deleteEncoder" \in Going
  BY DEF IInv, DeleteTrackEncoder, Tidy, Going
<1>who. PICK c \in Clients, s \in SessionIds, k \in DOMAIN kind : \E call, death, w :
        Scene(t, c, s, k, call, death, w)
  BY <1>1, <1>2, OnTheTrackSteps
<1>3. PICK call, death, w :
        Scene(t, c, s, k, call, death, w)
  BY <1>who
<1>4. PICK i : i = GetUniqueServiceTrackId(c, s, k)
  OBVIOUS
<1>5. /\ k \in tracks[c][s]
      /\ \A r, j, places : Here(call, r, j, places) \/ Here(death, r, j, places)
            => "idle" \in places \/ ("deleteEncoder" \in places /\ r = s /\ j = k)
  BY SMT, <1>2, <1>3, GoingTrack
<1>6. source[i] = "none" /\ encoder[i] # "none" /\ IsEncoded(kind[k])
  <2>1. Exists(c, call, death) /\ IsEncoded(kind[k])
    BY <1>2, <1>3 DEF Scene, ByCall, ByDeath, OfClient, Placed
  <2>2. /\ Here(call, s, k, {"deleteEncoder", "forget"}) \/ Here(death, s, k, {"deleteEncoder", "forget"})
        /\ ~Here(call, s, k, {"addSource", "associate"})
    BY <1>2, <1>3, <1>5 DEF Scene, ByCall, ByDeath, Here
  <2>3. ~HasSource(c, s, k, call, death)
    BY <2>2 DEF HasSource
  <2>4. HasEncoder(c, s, k, call, death)
    BY <1>5, <2>1 DEF HasEncoder
  <2> QED
    BY <1>4, <2>1, <2>3, <2>4 DEF Exists
<1>7. encoder' = [encoder EXCEPT ![i] = "none"] /\ Goto(t, "forget") /\ source' = source
  <2>1. ServiceId(t) = i
    BY <1>3, <1>4 DEF Scene, ServiceId
  <2> QED
    BY <1>6, <2>1 DEF DeleteTrackEncoder
<1>8. tracks' = tracks
  BY DEF DeleteTrackEncoder, maps
<1>9. w.pc = "forget" /\ w.s = s /\ w.k = k
  <2>1. "forget" \in Places
    BY DEF Places, CallPlaces, Going
  <2>2. Moves(t, "forget")
    BY <1>1, <1>7, <2>1, GotoMoves
  <2> QED
    BY <1>3, <2>2 DEF Scene, Moves
<1>10. Touch(c, s, k, "none", "none") /\ "none" \in Media
  BY <1>1, <1>4, <1>6, <1>7, TouchSame DEF Touch, Media
<1> QED
  BY <1>1, <1>2, <1>3, <1>8, <1>9, <1>10, GoingOn

LEMMA ForgetOn ==
  ASSUME Types, NEW t \in Threads, Forget(t)
  PROVE  /\ OnTheTrack(t) /\ Types'
         /\ \/ t[2] = "call" /\ Rests(t)
            \/ t[2] = "death" /\ Moves(t, "tracks")
         /\ tracks'[Client(t)] =
              [tracks[Client(t)] EXCEPT ![thread[t].s] = @ \ {thread[t].k}]
<1>0. "tracks" \in Places /\ "forget" \in Going /\ thread[t].pc = "forget" /\ "tracks" \notin Coming
  BY DEF Places, DeathPlaces, Going, Coming, Forget
<1>1. (t[2] = "call" /\ Rests(t)) \/ (t[2] = "death" /\ Moves(t, "tracks"))
  BY <1>0, ReturnMoves DEF Forget
<1>2. Client(t) \in Clients /\ thread[t].s \in SessionIds
  BY Whose DEF Types, Record
<1>3. /\ tracks'[Client(t)] = [tracks[Client(t)] EXCEPT ![thread[t].s] = @ \ {thread[t].k}]
      /\ \A d \in Clients : d # Client(t) => tracks'[d] = tracks[d]
  BY <1>2 DEF Forget, Types, Shapes
<1>4. OnTheTrack(t)
  BY <1>0, <1>1, <1>3 DEF OnTheTrack, Forget, service, state, Moves, Rests
<1>5. source' \in [ServiceIds -> Media] /\ encoder' \in [ServiceIds -> Media]
  BY DEF Types, Shapes, Forget, media
<1>6. tracks' \in [Clients -> [SessionIds -> SUBSET DOMAIN kind]]
  <2>1. tracks'[Client(t)] \in [SessionIds -> SUBSET DOMAIN kind]
    BY SMT, <1>2, <1>3 DEF Types, Shapes
  <2>2. tracks' = [tracks EXCEPT ![Client(t)] = tracks'[Client(t)]]
    BY <1>2, <1>3 DEF Types, Shapes, Forget
  <2> QED
    BY <2>1, <2>2 DEF Types, Shapes
<1>7. (\E to \in Coming \cup Going \cup {"idle", "tracks"} : Moves(t, to)) \/ Rests(t)
  BY <1>1
<1>8. thread'[t].pc \notin Coming
  BY <1>0, <1>1 DEF Moves, Rests, Coming
<1> QED
  BY <1>1, <1>3, <1>4, <1>5, <1>6, <1>7, <1>8, OnTheTrackTypes

LEMMA ForgetKeeps ==
  ASSUME IInv, NEW t \in Threads, Forget(t)
  PROVE  IInv'
<1>1. Types /\ Types' /\ OnTheTrack(t)
  BY ForgetOn DEF IInv
<1> SUFFICES ASSUME Tidy' PROVE Order'
  BY <1>1 DEF IInv
<1>2. Order /\ thread[t].pc = "forget" /\ "forget" \in Going
  BY DEF IInv, Forget, Tidy, Going
<1>who. PICK c \in Clients, s \in SessionIds, k \in DOMAIN kind : \E call, death, w :
        Scene(t, c, s, k, call, death, w)
  BY <1>1, <1>2, OnTheTrackSteps
<1>3. PICK call, death, w :
        Scene(t, c, s, k, call, death, w)
  BY <1>who
<1>4. PICK i, x, y : /\ i = GetUniqueServiceTrackId(c, s, k)
                     /\ x = source[i] /\ y = encoder[i]
  OBVIOUS
<1>5. /\ k \in tracks[c][s]
      /\ \A r, j, places : Here(call, r, j, places) \/ Here(death, r, j, places)
            => "idle" \in places \/ ("forget" \in places /\ r = s /\ j = k)
  BY SMT, <1>2, <1>3, GoingTrack
<1>6. x = "none" /\ y = "none"
  <2>1. Exists(c, call, death)
    BY <1>3 DEF Scene, OfClient
  <2>2. /\ Here(call, s, k, {"deleteEncoder", "forget"}) \/ Here(death, s, k, {"deleteEncoder", "forget"})
        /\ Here(call, s, k, {"forget"}) \/ Here(death, s, k, {"forget"})
        /\ ~Here(call, s, k, {"addSource", "associate"}) /\ ~Here(call, s, k, {"associate"})
    BY <1>2, <1>3, <1>5 DEF Scene, ByCall, ByDeath, Here
  <2>3. ~HasSource(c, s, k, call, death) /\ ~HasEncoder(c, s, k, call, death)
    BY <2>2 DEF HasSource, HasEncoder
  <2> QED
    BY <1>4, <2>1, <2>3 DEF Exists
<1>7. /\ kind' = kind /\ life' = life /\ cleaning' = cleaning /\ left' = left /\ copied' = copied
      /\ source' = source /\ encoder' = encoder
      /\ registered' = registered /\ sessions' = sessions
      /\ tracks'[c] = [tracks[c] EXCEPT ![s] = @ \ {k}]
  BY <1>1, <1>3, ForgetOn DEF Forget, service, media, Scene
<1>8. \A r \in SessionIds : tracks'[c][r] = IF r = s THEN tracks[c][s] \ {k} ELSE tracks[c][r]
  BY SMT, <1>1, <1>7 DEF Types, Shapes
<1>9. \A r \in SessionIds : \A j : j \in tracks'[c][r] <=> j \in tracks[c][r] /\ ~(r = s /\ j = k)
  BY <1>8
<1>10. Touch(c, s, k, x, y) /\ x \in Media /\ y \in Media
  BY <1>1, <1>3, <1>4, <1>7, TouchSame DEF Touch, Scene
<1>11. w.pc \in {"idle", "tracks"}
  BY <1>1, <1>3, ForgetOn DEF Scene, Moves, Rests
<1>12. \A r \in SessionIds : r \notin sessions'[c] => tracks'[c][r] = {}
  BY <1>3, <1>7, <1>8 DEF Scene, OfClient
<1>13. ASSUME NEW v, NEW u, v.pc \in {"idle", "tracks"}, u.pc \in {"idle", "tracks"}
       PROVE  Exists(c, v, u)'
  <2>1. \A r, j, places : Here(v, r, j, places) \/ Here(u, r, j, places)
          => "idle" \in places \/ "tracks" \in places
    BY <1>13 DEF Here
  <2>2. Elsewhere(c, s, k, v, u, call, death)
    BY <1>5, <1>7, <1>9, <2>1 DEF Elsewhere, HasSource, HasEncoder
  <2>3. ~HasSource(c, s, k, v, u)' /\ ~HasEncoder(c, s, k, v, u)'
    BY <1>9, <2>1 DEF HasSource, HasEncoder
  <2>4. Exists(c, call, death)
    BY <1>3 DEF Scene, OfClient
  <2>5. AsWanted(c, s, k, v, u, x, y)
    BY <1>6, <2>3 DEF AsWanted
  <2> QED
    BY <1>1, <1>7, <1>10, <2>2, <2>4, <2>5, TouchedExists
<1>14. ASSUME ByCall(t, c, s, k, call, death) PROVE OfClient(c, w, death)'
  <2>1. death.pc = "idle" /\ call.pc = "forget" /\ w.pc = "idle"
    <3>1. t[2] = "call" /\ death.pc = "idle" /\ call.pc = "forget" /\ w = thread'[t]
      <4>1. t = <<c, "call">> /\ death.pc = "idle" /\ call.pc = "forget"
        BY <1>2, <1>14 DEF ByCall
      <4>2. t[2] = "call"
        BY SMT, <4>1
      <4> QED
        BY <1>3, <4>1, <4>2 DEF Scene
    <3>2. Rests(t)
      BY <1>1, <3>1, ForgetOn
    <3> QED
      BY <3>1, <3>2 DEF Rests
  <2>2. Exists(c, w, death)'
    BY SMT, <1>13, <2>1
  <2>3. Alone(c, w, death)'
    BY <1>3, <1>7, <2>1 DEF Scene, OfClient, Alone, CallPlaces
  <2>4. Placed(c, w)' /\ Placed(c, death)' /\ Thorough(c, death)'
    BY <2>1 DEF Placed, Thorough, Coming, Going
  <2> QED
    BY <1>12, <2>2, <2>3, <2>4 DEF OfClient
<1>15. ASSUME ByDeath(t, c, s, k, call, death) PROVE OfClient(c, call, w)'
  <2>1. /\ call.pc = "idle" /\ death.pc = "forget" /\ death.s = s /\ death.k = k
        /\ w.pc = "tracks" /\ w.s = s
    <3>1. /\ t[2] = "death" /\ call.pc = "idle" /\ death.pc = "forget"
          /\ death.s = s /\ death.k = k /\ w = thread'[t] /\ s = thread[t].s
      <4>1. /\ t = <<c, "death">> /\ call.pc = "idle" /\ death.pc = "forget"
            /\ death.s = s /\ death.k = k
        BY <1>2, <1>15 DEF ByDeath
      <4>2. t[2] = "death"
        BY SMT, <4>1
      <4> QED
        BY <1>3, <4>1, <4>2 DEF Scene
    <3>2. Moves(t, "tracks")
      BY <1>1, <3>1, ForgetOn
    <3> QED
      BY <3>1, <3>2 DEF Moves
  <2>2. Exists(c, call, w)'
    BY SMT, <1>13, <2>1
  <2>3. Alone(c, call, w)'
    BY <1>3, <1>7, <2>1 DEF Scene, OfClient, Alone, DeathPlaces
  <2>4. Placed(c, w)' /\ Placed(c, call)'
    BY <1>3, <1>7, <2>1 DEF Scene, Placed, Coming, Going
  <2>5. Thorough(c, w)'
    <3>1. /\ \A r \in left : copied[r] = tracks[c][r]
          /\ s \notin left /\ sessions[c] = left \cup {s}
          /\ tracks[c][s] = copied[s] \cup {k} /\ k \notin copied[s]
      BY <1>2, <1>3, <2>1 DEF Scene, OfClient, Thorough
    <3>2. tracks'[c][s] = copied'[s] /\ \A r \in left' : copied'[r] = tracks'[c][r]
      <4>1. left \subseteq SessionIds
        BY <1>1 DEF Types, Shapes
      <4>2. tracks'[c][s] = copied[s]
        <5>1. tracks'[c][s] = tracks[c][s] \ {k}
          BY <1>8
        <5> QED
          BY <3>1, <5>1
      <4>3. ASSUME NEW r \in left PROVE copied[r] = tracks'[c][r]
        <5>1. r # s /\ r \in SessionIds
          BY <3>1, <4>1
        <5> QED
          BY <1>8, <3>1, <5>1
      <4> QED
        BY <1>7, <4>2, <4>3
    <3> QED
      BY <1>7, <2>1, <3>1, <3>2 DEF Thorough, Going
  <2> QED
    BY <1>12, <2>2, <2>3, <2>4, <2>5 DEF OfClient
<1>16. MediaOf(c)
  BY <1>1, <1>7, MediaSame
<1> QED
  BY <1>1, <1>2, <1>3, <1>14, <1>15, <1>16, SceneDone

-----------------------------------------------------------------------------
(* The death of a client, and the cleanup.                                 *)

\* Client c dies: nothing else changes.
LEMMA DieKeeps ==
  ASSUME IInv, NEW c \in Clients, Die(c)
  PROVE  IInv'
<1> DEFINE t == <<c, "call">>
<1>1. /\ Types /\ life[c] = "alive" /\ life' = [life EXCEPT ![c] = "dead"]
      /\ kind' = kind /\ cleaning' = cleaning /\ left' = left /\ copied' = copied
      /\ registered' = registered /\ sessions' = sessions /\ tracks' = tracks
      /\ sessions_state_' = sessions_state_ /\ mutexes' = mutexes
      /\ unique_session_id_' = unique_session_id_ /\ source' = source /\ encoder' = encoder
      /\ thread' = thread /\ conduct' = conduct
  BY DEF IInv, Die, maps, state, media
<1>2. t \in Threads /\ Alters(t)
  BY <1>1 DEF Threads, Alters, Types
<1>3. life'[c] = "dead" /\ \A d \in Clients : d # c => life'[d] = life[d]
  BY <1>1 DEF Types, Shapes
<1>4. Types'
  <2>1. Shapes'
    BY <1>1 DEF Types, Shapes
  <2>2. Counted'
    BY <1>1 DEF Types, Counted, Creating
  <2> QED
    BY <1>1, <2>1, <2>2 DEF Types
<1> SUFFICES ASSUME Tidy' PROVE Order'
  BY <1>4 DEF IInv
<1>5. Order
  BY <1>1 DEF IInv, Tidy
<1>6. PICK call, death : call = thread[<<c, "call">>] /\ death = thread[<<c, "death">>]
  OBVIOUS
<1>7. OfClient(c, call, death)
  BY <1>5, <1>6 DEF Order
<1>8. OthersKept(c) /\ MediaOf(c) /\ Keyed'
  BY SMT, <1>1, <1>3, <1>5, MediaSame DEF OthersKept, Order, Keyed
<1>9. OfClient(c, call, death)'
  <2>1. Alone(c, call, death)'
    BY <1>1, <1>3, <1>7 DEF OfClient, Alone
  <2>2. Placed(c, call)' /\ Placed(c, death)'
    BY <1>1, <1>7 DEF OfClient, Placed
  <2>4. Thorough(c, death)'
    BY <1>1, <1>7 DEF OfClient, Thorough
  <2>3. Exists(c, call, death)'
    BY <1>1, <1>7 DEF OfClient, Exists, HasSource, HasEncoder
  <2> QED
    BY <1>1, <1>7, <2>1, <2>2, <2>3, <2>4 DEF OfClient
<1>10. call = thread'[t]
  BY <1>1, <1>6
<1> QED
  BY <1>1, <1>2, <1>5, <1>6, <1>8, <1>9, <1>10, CallDone

\* What a step of the cleanup does besides moving its thread.
CleanUpOnly(c) ==
  /\ kind' = kind /\ registered' = registered /\ sessions' = sessions /\ tracks' = tracks
  /\ sessions_state_' = sessions_state_ /\ mutexes' = mutexes
  /\ unique_session_id_' = unique_session_id_ /\ source' = source /\ encoder' = encoder
  /\ life' = life /\ left' \subseteq SessionIds /\ copied' \in [SessionIds -> SUBSET DOMAIN kind]
  /\ Alters(<<c, "death">>) /\ thread'[<<c, "death">>].pc \in DeathPlaces

LEMMA CleanUpTypes ==
  ASSUME Types, NEW c \in Clients, CleanUpOnly(c)
  PROVE  Types'
<1> DEFINE t == <<c, "death">>
<1>1. t \in Threads
  BY DEF Threads
<1>2. thread'[t].pc \notin Coming /\ thread'[t].pc # "createSession"
  BY DEF CleanUpOnly, DeathPlaces, Coming, Going
<1>3. Shapes'
  BY DEF Types, Shapes, CleanUpOnly
<1> QED
  BY <1>1, <1>2, <1>3, TypesKept DEF CleanUpOnly

\* The cleanup of client c alone is at work, or nobody's.
LEMMA CleanUpOrder ==
  ASSUME Types, Order, NEW c \in Clients, CleanUpOnly(c), cleaning \in {c, None},
         cleaning' = c, life[c] = "dead", NEW w, w = thread'[<<c, "death">>],
         NEW call, NEW death, call = thread[<<c, "call">>], death = thread[<<c, "death">>],
         call.pc = "idle", death.pc \notin Amid, w.pc \notin Amid,
         Placed(c, w), Thorough(c, w)'
  PROVE  Order'
<1>1. OfClient(c, call, death)
  BY DEF Order
<1>2. OthersKept(c)
  <2>1. ASSUME NEW d \in Clients, d # c PROVE thread[<<d, "death">>].pc = "idle"
    <3>1. thread[<<d, "death">>].pc # "idle" => cleaning = d
      BY <2>1 DEF Order, OfClient, Alone
    <3>2. d # None
      BY SMT, SessionsAssumption
    <3> QED
      BY <2>1, <3>1, <3>2
  <2> QED
    BY <2>1 DEF OthersKept, CleanUpOnly
<1>3. MediaOf(c) /\ Keyed'
  BY MediaSame DEF CleanUpOnly, Order, Keyed
<1>4. OfClient(c, call, w)'
  <2>1. Alone(c, call, w)'
    BY <1>1 DEF OfClient, Alone, CleanUpOnly
  <2>2. Placed(c, call)' /\ Placed(c, w)'
    BY DEF Placed, CleanUpOnly, Coming, Going
  <2>3. Exists(c, call, w)'
    <3>1. Exists(c, call, death) /\ call.pc \notin Amid
      BY <1>1 DEF OfClient, Amid
    <3> QED
      BY <3>1, ExistsSame DEF CleanUpOnly
  <2> QED
    BY <1>1, <2>1, <2>2, <2>3 DEF OfClient, CleanUpOnly
<1> QED
  BY <1>2, <1>3, <1>4, DeathDone DEF CleanUpOnly

LEMMA CleanUpKeeps ==
  ASSUME IInv, NEW c \in Clients, CleanUp(c)
  PROVE  IInv'
<1> DEFINE t == <<c, "death">>
<1>1. t \in Threads /\ "next" \in Places /\ "next" \in DeathPlaces /\ Types
  BY DEF Threads, Places, DeathPlaces, IInv
<1>2. Moves(t, "next")
  BY <1>1, GotoMoves DEF CleanUp
<1>3. CleanUpOnly(c)
  <2>1. left' \subseteq SessionIds /\ copied' \in [SessionIds -> SUBSET DOMAIN kind]
    BY <1>1 DEF CleanUp, Types, Shapes
  <2>2. Alters(<<c, "death">>) /\ thread'[<<c, "death">>].pc \in DeathPlaces
    BY <1>1, <1>2 DEF Moves
  <2> QED
    BY <2>1, <2>2 DEF CleanUp, CleanUpOnly, maps, state, media
<1>4. Types'
  BY <1>1, <1>3, CleanUpTypes
<1> SUFFICES ASSUME Tidy' PROVE Order'
  BY <1>4 DEF IInv
<1>5. PICK call, death, w : /\ call = thread[<<c, "call">>] /\ death = thread[<<c, "death">>]
                            /\ w = thread'[<<c, "death">>]
  OBVIOUS
<1>6. Order /\ call.pc = "idle"
  BY <1>5 DEF CleanUp, IInv, Tidy
<1>7. death.pc = "idle"
  <2>1. cleaning # c
    BY SMT, SessionsAssumption DEF CleanUp
  <2> QED
    BY <1>5, <1>6, <2>1 DEF Order, OfClient, Alone
<1>8. w.pc = "next"
  BY <1>2, <1>5 DEF Moves
<1>9. Placed(c, w) /\ Thorough(c, w)'
  <2>1. sessions'[c] = left' /\ copied' = tracks'[c]
    BY DEF CleanUp, maps
  <2> QED
    BY <1>8, <2>1 DEF Placed, Thorough, Coming, Going
<1> QED
  BY <1>1, <1>3, <1>5, <1>6, <1>7, <1>8, <1>9, CleanUpOrder DEF CleanUp, Amid

LEMMA NextSessionKeeps ==
  ASSUME IInv, NEW c \in Clients, NextSession(c)
  PROVE  IInv'
<1> DEFINE t == <<c, "death">>
<1>1. /\ t \in Threads /\ "stop" \in Places /\ "stop" \in DeathPlaces /\ Types
      /\ thread[t].pc = "next" /\ left # {} /\ left \subseteq SessionIds
  BY DEF Threads, Places, DeathPlaces, IInv, NextSession, GoToSession, Types, Shapes
<1>2. PICK s : s = Min(left)
  OBVIOUS
<1>3. s \in left /\ s \in SessionIds
  <2>1. left \subseteq Nat
    BY SMT, <1>1 DEF SessionIds
  <2>2. Min(left) \in left
    BY <1>1, <2>1, MinIn
  <2> QED
    BY <1>1, <1>2, <2>2
<1>4. left' = left \ {s} /\ copied' = copied /\ cleaning' = cleaning /\ conduct' = conduct
  BY <1>2 DEF NextSession, GoToSession
<1>5. Alters(t) /\ thread'[t].pc = "stop" /\ thread'[t].s = s
  <2>1. Put(t, "stop", s)
    BY <1>2 DEF NextSession, GoToSession, Put
  <2> QED
    BY <1>1, <1>3, <2>1, SetPlace
<1>6. CleanUpOnly(c)
  <2>1. left' \subseteq SessionIds /\ copied' \in [SessionIds -> SUBSET DOMAIN kind]
    BY <1>1, <1>4 DEF Types, Shapes
  <2> QED
    BY <1>1, <1>5, <2>1 DEF NextSession, GoToSession, CleanUpOnly, maps, state, media
<1>7. Types'
  BY <1>1, <1>6, CleanUpTypes
<1> SUFFICES ASSUME Tidy' PROVE Order'
  BY <1>7 DEF IInv
<1>8. PICK call, death, w : /\ call = thread[<<c, "call">>] /\ death = thread[<<c, "death">>]
                            /\ w = thread'[<<c, "death">>]
  OBVIOUS
<1>9. Order /\ death.pc = "next" /\ OfClient(c, call, death)
  BY <1>1, <1>4, <1>8 DEF IInv, Tidy, Order
<1>10. call.pc = "idle" /\ cleaning = c /\ life[c] = "dead"
  BY <1>9 DEF OfClient, Alone
<1>11. w.pc = "stop" /\ w.s = s
  BY <1>5, <1>8
<1>12. sessions[c] = left /\ \A r \in left : copied[r] = tracks[c][r]
  BY <1>9 DEF OfClient, Thorough
<1>13. Placed(c, w)
  BY <1>3, <1>11, <1>12 DEF Placed, Coming, Going
<1>14. Thorough(c, w)'
  <2>1. sessions' = sessions /\ tracks' = tracks
    BY <1>6 DEF CleanUpOnly
  <2>2. /\ \A r \in left' : copied'[r] = tracks'[c][r]
        /\ s \notin left' /\ sessions'[c] = left' \cup {s} /\ tracks'[c][s] = copied'[s]
    BY <1>3, <1>4, <1>12, <2>1
  <2> QED
    BY <1>11, <2>2 DEF Thorough, Going
<1>15. death.pc \notin Amid /\ w.pc \notin Amid
  BY <1>9, <1>11 DEF Amid
<1> QED
  BY <1>1, <1>4, <1>6, <1>8, <1>9, <1>10, <1>13, <1>14, <1>15, CleanUpOrder

\* The next track to delete, of a session that has some left.
LEMMA LastTrack ==
  ASSUME Types, NEW s \in SessionIds, copied[s] # {}
  PROVE  Max(copied[s]) \in copied[s] /\ Max(copied[s]) \in Tracks
<1>1. copied[s] \subseteq Tracks
  BY KindTracks DEF Types, Shapes
<1>2. PICK n \in Nat : \A k \in Tracks : k \in Nat /\ k <= n
  BY SMT, SessionsAssumption
<1>3. copied[s] \subseteq 0 .. n
  BY SMT, <1>1, <1>2
<1>4. Max(copied[s]) \in copied[s]
  BY <1>3, MaxIn
<1> QED
  BY <1>1, <1>4

LEMMA SamePlace ==
  ASSUME Types, NEW t \in Threads, NEW to, NEW k,
         thread' = [thread EXCEPT ![t].pc = to, ![t].k = k]
  PROVE  PutAt(t, to, thread[t].s, k)
<1> DEFINE u == [thread[t] EXCEPT !.pc = to, !.k = k]
           v == [thread[t] EXCEPT !.pc = to, !.s = thread[t].s, !.k = k]
<1>1. thread \in [Threads -> Record] /\ thread[t] \in Record
  BY DEF Types
<1>2. u = v
  BY <1>1 DEF Record
<1>3. thread' = [thread EXCEPT ![t] = u]
  OBVIOUS
<1>4. PutAt(t, to, thread[t].s, k) <=> thread' = [thread EXCEPT ![t] = v]
  BY DEF PutAt
<1> QED
  BY <1>2, <1>3, <1>4

LEMMA NextTrackKeeps ==
  ASSUME IInv, NEW c \in Clients, NextTrack(c)
  PROVE  IInv'
<1> DEFINE t == <<c, "death">>
<1>1. /\ t \in Threads /\ {"deleteSession", "deleteTrack"} \subseteq Places \cap DeathPlaces
      /\ Types /\ thread[t].pc = "tracks"
  BY DEF Threads, Places, DeathPlaces, Going, IInv, NextTrack
<1>2. PICK s \in SessionIds : s = thread[t].s
  BY <1>1 DEF Types, Record
<1>3. /\ left' = left /\ cleaning' = cleaning /\ conduct' = conduct
      /\ kind' = kind /\ registered' = registered /\ sessions' = sessions /\ tracks' = tracks
      /\ sessions_state_' = sessions_state_ /\ mutexes' = mutexes
      /\ unique_session_id_' = unique_session_id_ /\ source' = source /\ encoder' = encoder
      /\ life' = life
  BY DEF NextTrack, maps, state, media
<1>4. PICK call, death, w : /\ call = thread[<<c, "call">>] /\ death = thread[<<c, "death">>]
                            /\ w = thread'[<<c, "death">>]
  OBVIOUS
<1>5. CASE copied[s] = {}
  <2>1. copied' = copied /\ Moves(t, "deleteSession")
    BY <1>1, <1>2, <1>5, GotoMoves DEF NextTrack, TracksLeft
  <2>2. CleanUpOnly(c)
    BY <1>1, <1>3, <2>1 DEF CleanUpOnly, Moves, Types, Shapes
  <2>3. Types'
    BY <1>1, <2>2, CleanUpTypes
  <2> SUFFICES ASSUME Tidy' PROVE Order'
    BY <2>3 DEF IInv
  <2>4. Order /\ death.pc = "tracks" /\ OfClient(c, call, death) /\ death.s = s
    BY <1>1, <1>2, <1>3, <1>4 DEF IInv, Tidy, Order
  <2>5. call.pc = "idle" /\ cleaning = c /\ life[c] = "dead"
    BY <2>4 DEF OfClient, Alone
  <2>6. w.pc = "deleteSession" /\ w.s = s
    BY <1>2, <1>4, <2>1 DEF Moves
  <2>7. /\ \A r \in left : copied[r] = tracks[c][r]
        /\ s \notin left /\ sessions[c] = left \cup {s} /\ tracks[c][s] = copied[s]
    BY <2>4 DEF OfClient, Thorough, Going
  <2>8. Placed(c, w)
    BY <1>5, <2>6, <2>7 DEF Placed, Coming, Going
  <2>9. Thorough(c, w)'
    BY <1>3, <2>1, <2>6, <2>7 DEF Thorough, Going
  <2>10. death.pc \notin Amid /\ w.pc \notin Amid
    BY <2>4, <2>6 DEF Amid
  <2> QED
    BY <1>1, <1>3, <1>4, <2>2, <2>4, <2>5, <2>8, <2>9, <2>10, CleanUpOrder
<1>6. CASE copied[s] # {}
  <2>0. PICK k : k = Max(copied[s]) /\ k \in copied[s] /\ k \in Tracks
    BY <1>1, <1>6, LastTrack
  <2>1. copied' = [copied EXCEPT ![s] = @ \ {k}]
    BY <1>2, <1>6, <2>0 DEF NextTrack, TracksLeft
  <2>a. Alters(t) /\ thread'[t].pc = "deleteTrack" /\ thread'[t].s = s /\ thread'[t].k = k
    <3>1. thread' = [thread EXCEPT ![t].pc = "deleteTrack", ![t].k = k]
      BY <1>2, <1>6, <2>0 DEF NextTrack, TracksLeft
    <3>2. PutAt(t, "deleteTrack", s, k)
      BY <1>1, <1>2, <3>1, SamePlace
    <3> QED
      BY <1>1, <2>0, <3>2, SetTrack
  <2>b. copied' \in [SessionIds -> SUBSET DOMAIN kind]
    BY <1>1, <2>1 DEF Types, Shapes
  <2>c. copied'[s] = copied[s] \ {k} /\ \A r \in SessionIds : r # s => copied'[r] = copied[r]
    BY <1>1, <2>1 DEF Types, Shapes
  <2>2. CleanUpOnly(c)
    BY <1>1, <1>3, <2>a, <2>b DEF CleanUpOnly, Types, Shapes
  <2>3. Types'
    BY <1>1, <2>2, CleanUpTypes
  <2> SUFFICES ASSUME Tidy' PROVE Order'
    BY <2>3 DEF IInv
  <2>4. Order /\ death.pc = "tracks" /\ OfClient(c, call, death) /\ death.s = s
    BY <1>1, <1>2, <1>3, <1>4 DEF IInv, Tidy, Order
  <2>5. call.pc = "idle" /\ cleaning = c /\ life[c] = "dead"
    BY <2>4 DEF OfClient, Alone
  <2>6. w.pc = "deleteTrack" /\ w.s = s /\ w.k = k
    BY <1>4, <2>a
  <2>7. /\ \A r \in left : copied[r] = tracks[c][r]
        /\ s \notin left /\ sessions[c] = left \cup {s} /\ tracks[c][s] = copied[s]
    BY <2>4 DEF OfClient, Thorough, Going
  <2>8. Placed(c, w)
    BY <2>0, <2>6, <2>7 DEF Placed, Coming, Going
  <2>9. Thorough(c, w)'
    <3>1. tracks'[c][s] = copied'[s] \cup {k} /\ k \notin copied'[s]
      BY <1>3, <2>0, <2>7, <2>c
    <3>2. ASSUME NEW r \in left PROVE copied'[r] = tracks'[c][r]
      <4>1. r # s /\ r \in SessionIds
        BY <1>1, <2>7 DEF Types, Shapes
      <4> QED
        BY <1>3, <2>7, <2>c, <4>1
    <3> QED
      BY <1>3, <2>6, <2>7, <3>1, <3>2 DEF Thorough, Going
  <2>10. death.pc \notin Amid /\ w.pc \notin Amid
    BY <2>4, <2>6 DEF Amid
  <2> QED
    BY <1>1, <1>3, <1>4, <2>2, <2>4, <2>5, <2>8, <2>9, <2>10, CleanUpOrder
<1> QED
  BY <1>5, <1>6

LEMMA CleanedUpKeeps ==
  ASSUME IInv, NEW c \in Clients, CleanedUp(c)
  PROVE  IInv'
<1> DEFINE t == <<c, "death">>
<1>1. t \in Threads /\ Types /\ thread[t].pc = "next" /\ left = {}
  BY DEF Threads, IInv, CleanedUp
<1>2. Alters(t) /\ thread'[t].pc = "idle"
  BY <1>1, IdleRecord DEF CleanedUp, Types, Alters
<1>3. /\ kind' = kind /\ left' = left /\ copied' = copied /\ conduct' = conduct
      /\ cleaning' = None /\ registered' = registered \ {c}
      /\ sessions_state_' = sessions_state_ /\ mutexes' = mutexes
      /\ unique_session_id_' = unique_session_id_ /\ source' = source /\ encoder' = encoder
  BY DEF CleanedUp, state, media
<1>4. NoTracks \in [SessionIds -> SUBSET DOMAIN kind]
  BY DEF NoTracks
<1>5. /\ life'[c] = "gone" /\ sessions'[c] = {} /\ tracks'[c] = NoTracks
      /\ \A d \in Clients : d # c =>
           life'[d] = life[d] /\ sessions'[d] = sessions[d] /\ tracks'[d] = tracks[d]
  BY <1>1 DEF CleanedUp, Types, Shapes
<1>6. Types'
  <2>1. /\ life' \in [Clients -> {"alive", "dead", "gone"}]
        /\ sessions' \in [Clients -> SUBSET SessionIds]
        /\ tracks' \in [Clients -> [SessionIds -> SUBSET DOMAIN kind]]
    BY <1>1, <1>4 DEF CleanedUp, Types, Shapes
  <2>2. Shapes'
    BY <1>1, <1>3, <2>1 DEF Types, Shapes
  <2>3. thread'[t].pc \notin Coming /\ thread'[t].pc # "createSession"
    BY <1>2 DEF Coming
  <2> QED
    BY <1>1, <1>2, <1>3, <2>2, <2>3, TypesKept
<1> SUFFICES ASSUME Tidy' PROVE Order'
  BY <1>6 DEF IInv
<1>7. PICK call, death, w : /\ call = thread[<<c, "call">>] /\ death = thread[<<c, "death">>]
                            /\ w = thread'[<<c, "death">>]
  OBVIOUS
<1>8. Order /\ death.pc = "next" /\ OfClient(c, call, death) /\ w.pc = "idle"
  BY <1>1, <1>2, <1>3, <1>7 DEF IInv, Tidy, Order
<1>9. call.pc = "idle" /\ cleaning = c /\ sessions[c] = {}
  BY <1>1, <1>8 DEF OfClient, Alone, Thorough
<1>10. sessions' = sessions /\ \A s \in SessionIds : tracks'[c][s] = tracks[c][s]
  <2>1. sessions' = sessions
    BY <1>1, <1>9 DEF CleanedUp, Types, Shapes
  <2>2. \A s \in SessionIds : tracks[c][s] = {} /\ tracks'[c][s] = {}
    BY <1>5, <1>8, <1>9 DEF OfClient, NoTracks
  <2> QED
    BY <2>1, <2>2
<1>11. Keyed' /\ MediaOf(c)
  BY <1>1, <1>3, <1>8, <1>10, MediaSame DEF Order, Keyed
<1>12. OthersKept(c)
  <2>1. ASSUME NEW d \in Clients, d # c PROVE thread[<<d, "death">>].pc = "idle"
    BY <1>8, <1>9, <2>1 DEF Order, OfClient, Alone
  <2> QED
    BY <1>3, <1>5, <2>1 DEF OthersKept
<1>13. OfClient(c, call, w)'
  <2>1. Alone(c, call, w)'
    BY <1>3, <1>5, <1>8, <1>9 DEF Alone, CallPlaces, DeathPlaces
  <2>2. Placed(c, call)' /\ Placed(c, w)' /\ Thorough(c, w)'
    BY <1>8, <1>9 DEF Placed, Thorough, Coming, Going
  <2>3. Exists(c, call, w)'
    <3>1. Exists(c, call, death)
      BY <1>8 DEF OfClient
    <3>2. \A s \in SessionIds, k \in DOMAIN kind :
            /\ HasSource(c, s, k, call, w)' <=> HasSource(c, s, k, call, death)
            /\ HasEncoder(c, s, k, call, w)' <=> HasEncoder(c, s, k, call, death)
      BY <1>3, <1>8, <1>9, <1>10 DEF HasSource, HasEncoder, Here
    <3> QED
      BY <1>3, <3>1, <3>2 DEF Exists
  <2>4. \A s \in SessionIds : s \notin sessions'[c] => tracks'[c][s] = {}
    BY <1>8, <1>10 DEF OfClient
  <2> QED
    BY <2>1, <2>2, <2>3, <2>4 DEF OfClient
<1> QED
  BY <1>1, <1>2, <1>7, <1>8, <1>11, <1>12, <1>13, DeathDone
-----------------------------------------------------------------------------
(* The invariant holds.                                                    *)

LEMMA InitIInv ==
  ASSUME Init
  PROVE  IInv
<1>1. Shapes
  BY DEF Init, Shapes, NoTracks, Media
<1>2. thread \in [Threads -> Record] /\ \A t \in Threads : thread[t].pc = "idle"
  BY IdleRecord DEF Init
<1>3. Counted
  <2>1. Creating = {}
    BY <1>2 DEF Creating
  <2>2. Cardinality(Creating) = 0
    BY <2>1, FS_EmptySet
  <2>3. unique_session_id_ = 0 /\ MaxSession \in Nat
    BY SMT, SessionsAssumption DEF Init
  <2> QED
    BY SMT, <2>2, <2>3 DEF Counted
<1>4. Types
  BY <1>1, <1>2, <1>3 DEF Types, Coming
<1>5. Keyed
  BY DEF Init, Keyed
<1>6. ASSUME NEW c \in Clients, NEW call, NEW death, call.pc = "idle", death.pc = "idle"
      PROVE  OfClient(c, call, death)
  <2>1. Alone(c, call, death)
    BY <1>6 DEF Init, Alone, CallPlaces, DeathPlaces
  <2>2. Placed(c, call) /\ Placed(c, death) /\ Thorough(c, death)
    BY <1>6 DEF Placed, Thorough, Coming, Going
  <2>3. \A s \in SessionIds : tracks[c][s] = {}
    BY DEF Init, NoTracks
  <2>4. Exists(c, call, death)
    <3>1. \A s \in SessionIds, k \in DOMAIN kind :
            ~HasSource(c, s, k, call, death) /\ ~HasEncoder(c, s, k, call, death)
      BY <1>6, <2>3 DEF HasSource, HasEncoder, Here
    <3>2. \A s \in SessionIds, k \in DOMAIN kind :
            LET i == GetUniqueServiceTrackId(c, s, k) IN source[i] = "none" /\ encoder[i] = "none"
      BY <1>4, KindTracks DEF Init
    <3> QED
      BY <3>1, <3>2 DEF Exists
  <2> QED
    BY <2>1, <2>2, <2>3, <2>4 DEF OfClient
<1>7. \A c \in Clients : thread[<<c, "call">>].pc = "idle" /\ thread[<<c, "death">>].pc = "idle"
  BY <1>2 DEF Threads
<1> QED
  BY <1>4, <1>5, <1>6, <1>7 DEF IInv, Order

LEMMA IInvStep ==
  ASSUME IInv, [Next]_vars
  PROVE  IInv'
<1>1. ASSUME NEW c \in Clients, Calls(c) PROVE IInv'
  BY <1>1, CallKeeps, CallCreateKeeps, CallTrackKeeps DEF Calls
<1>2. ASSUME NEW c \in Clients, Die(c) \/ CleanUp(c) \/ CleanUpStep(c) PROVE IInv'
  BY <1>2, DieKeeps, CleanUpKeeps, NextSessionKeeps, NextTrackKeeps, CleanedUpKeeps
     DEF CleanUpStep
<1>3. ASSUME NEW t \in Threads, Step(t) PROVE IInv'
  <2>1. CASE InnerStep(t)
    BY <2>1, InnerActions, InnerKeeps DEF IInv
  <2>2. CASE CreateSession(t) \/ DeleteSession(t)
    BY <2>2, CreateSessionKeeps, DeleteSessionKeeps
  <2>3. CASE CreateTrackSource(t) \/ AddSource(t) \/ Associate(t)
    BY <2>3, CreateTrackSourceKeeps, AddSourceKeeps, AssociateKeeps
  <2>4. CASE DeleteTrackSource(t) \/ DeleteTrackEncoder(t) \/ Forget(t)
    BY <2>4, DeleteTrackSourceKeeps, DeleteTrackEncoderKeeps, ForgetKeeps
  <2> QED
    BY <1>3, <2>1, <2>2, <2>3, <2>4 DEF Step, InnerStep
<1>4. CASE UNCHANGED vars
  <2>1. /\ Still /\ thread' = thread /\ conduct' = conduct
    BY <1>4 DEF vars, Still, service, maps, state, media
  <2>2. Types'
    BY <2>1 DEF IInv, Types, Shapes, Counted, Creating, Still
  <2>3. ASSUME Tidy PROVE Order'
    <3>1. Types /\ Order
      BY <2>3 DEF IInv
    <3>2. Keyed' /\ \A c \in Clients : \A w : Steady(c, w)
      BY <2>1, <3>1, StillKept DEF Order
    <3>3. ASSUME NEW c \in Clients
          PROVE  OfClient(c, thread[<<c, "call">>], thread[<<c, "death">>])'
      <4>1. PICK call, death : call = thread[<<c, "call">>] /\ death = thread[<<c, "death">>]
        OBVIOUS
      <4>2. OfClient(c, call, death)'
        BY <3>1, <3>2, <4>1, SteadyKept DEF Order
      <4> QED
        BY <2>1, <4>1, <4>2
    <3> QED
      BY <3>2, <3>3 DEF Order
  <2> QED
    BY <2>1, <2>2, <2>3 DEF IInv, Tidy
<1> QED
  BY <1>1, <1>2, <1>3, <1>4 DEF Next

\* The maps of RecorderImpl that are keyed by session agree with
\* client_session_map_, and between two calls of a client a track source, and
\* an encoder for an encoded track, exists for exactly the tracks that the map
\* lists: for any number of clients, sessions and tracks, whatever calls,
\* failures of tracks and codecs, deaths and cleanups interleave, unless a
\* client dies inside a call or a track is left behind by a failed call.
THEOREM SessionMapsKept == Spec => []SessionMapsAgree
<1>1. Init => IInv
  BY InitIInv
<1>2. IInv /\ [Next]_vars => IInv'
  BY IInvStep
<1>3. IInv => SessionMapsAgree
  <2> SUFFICES ASSUME IInv, Tidy PROVE SessionMapsAgree
    BY DEF SessionMapsAgree, MapsAgree, ListedTracksExist, Tidy
  <2>1. Order
    BY DEF IInv
  <2>2. MapsAgree
    BY <2>1 DEF Order, Keyed, MapsAgree
  <2>3. ASSUME NEW c \in Clients, Quiet(c)
        PROVE  /\ life[c] = "gone" => c \notin registered /\ sessions[c] = {}
               /\ \A s \in SessionIds, k \in DOMAIN kind :
                    LET i == GetUniqueServiceTrackId(c, s, k)
                        listed == c \in registered /\ s \in sessions[c] /\ k \in tracks[c][s]
                    IN /\ source[i] # "none" <=> listed
                       /\ encoder[i] # "none" <=> listed /\ IsEncoded(kind[k])
    <3>1. PICK call, death : call = thread[<<c, "call">>] /\ death = thread[<<c, "death">>]
      OBVIOUS
    <3>2. OfClient(c, call, death) /\ call.pc = "idle" /\ death.pc = "idle"
      BY <2>1, <2>3, <3>1 DEF Order, Quiet
    <3>3. Alone(c, call, death)
      BY <3>2 DEF OfClient
    <3>4. \A s \in SessionIds : \A k \in tracks[c][s] : s \in sessions[c] /\ c \in registered
      BY <3>2, <3>3 DEF OfClient, Alone
    <3>5. \A s \in SessionIds, k \in DOMAIN kind :
            /\ HasSource(c, s, k, call, death) <=> k \in tracks[c][s]
            /\ HasEncoder(c, s, k, call, death) <=> k \in tracks[c][s] /\ IsEncoded(kind[k])
      BY <3>2 DEF HasSource, HasEncoder, Here
    <3>6. Exists(c, call, death)
      BY <3>2 DEF OfClient
    <3>7. life[c] = "gone" => c \notin registered /\ sessions[c] = {}
      BY <3>3 DEF Alone
    <3> QED
      BY <3>4, <3>5, <3>6, <3>7 DEF Exists
  <2> QED
    BY <2>2, <2>3 DEF SessionMapsAgree, ListedTracksExist
<1> QED
  BY <1>1, <1>2, <1>3, PTL DEF Spec
=============================================================================
