------------------------ MODULE Camera3Results_proofs ------------------------
(***************************************************************************)
(* Proof that Camera3Results gives every buffer back to the client exactly *)
(* once, whatever the number of requests, buffers and metadata parts, and  *)
(* in whatever order the HAL answers, as long as no frame number is in use *)
(* by two requests.                                                        *)
(***************************************************************************)
EXTENDS Camera3Results, FiniteSetTheorems, TLAPS

\* Most leaves are set and function reasoning; those that count or do
\* arithmetic cite SMT.
USE Zenon

Known(r) == r[2] \in DOMAIN pending /\ pending[r[2]].kind = r[1]

\* What a request that is still to come looks like.
Fresh(r) ==
  /\ hal[r].owned = {} /\ hal[r].parts = {}
  /\ hal[r].fault = "none" /\ ~hal[r].notified

\* The entry of a request agrees with what the HAL has of it.
Agrees(r) ==
  /\ hal[r].fault # "unsent" =>
       pending[r[2]].buffersRemaining = Cardinality(hal[r].owned)
  /\ pending[r[2]].isMetaPresent => PartialResultCount \in hal[r].parts
  /\ pending[r[2]].pendingBuffers \subseteq {r} \X (Outputs \ hal[r].owned)

Accounted(r) ==
  hal[r].fault # "unsent" =>
    \A b \in Buffers(r[1]) :
      client[r].returned[b] = IF b \in hal[r].owned \cup Held(r) THEN 0 ELSE 1

\* Unless a frame number was shared: a request with an entry agrees with it,
\* one without has no buffers in the HAL, and one whose number has gone to
\* another request gets no message any more.
Apart ==
  /\ \A r \in Requests \ Sent :
       \A b \in Outputs \cup {0} : client[r].returned[b] = 0
  /\ \A r \in Sent :
       /\ Known(r) => Agrees(r)
       /\ ~Known(r) => hal[r].owned = {}
       /\ r[2] \in DOMAIN pending /\ ~Known(r) => ~HalOwes(r)
       /\ Accounted(r)

\* What holds in any case.
Basic ==
  /\ TypeOK
  /\ \A kind \in Kinds : frames[kind] <= FrameLimit[kind]
  /\ \A n \in DOMAIN pending : <<pending[n].kind, n>> \in Sent
  /\ \A r \in Requests \ Sent : Fresh(r)
  /\ \A r \in Requests : /\ hal[r].owned \subseteq Buffers(r[1])
                         /\ hal[r].fault = "unsent" => hal[r].owned = {}

\* The inductive invariant.
IInv == Basic /\ ("shared" \notin troubles => Apart)

Works == [e : PendingRequest, client : [Requests -> ClientRequest],
          next : [Kinds -> Nat], causes : SUBSET Causes]

\* Entries that differ in their status at most, as far as buffers go.
SameEntry(e, f) ==
  /\ f.kind = e.kind /\ f.buffersRemaining = e.buffersRemaining
  /\ f.isMetaPresent = e.isMetaPresent /\ f.pendingBuffers = e.pendingBuffers

\* From one client record to another, the buffers bufs are given back.
GivesBack(before, after, bufs) ==
  \A r \in Requests : \A b \in Outputs \cup {0} :
    after[r].returned[b] = IF <<r, b>> \in bufs THEN before[r].returned[b] + 1
                           ELSE before[r].returned[b]
GivesNone(before, after) ==
  \A r \in Requests : after[r].returned = before[r].returned
-----------------------------------------------------------------------------
\* A request is a kind and a frame number below its limit.
LEMMA RequestShape ==
  /\ \A r \in Requests : /\ r[1] \in Kinds /\ r[2] \in Nat
                         /\ r[2] < FrameLimit[r[1]] /\ r = <<r[1], r[2]>>
  /\ \A kind \in Kinds, n \in Nat : n < FrameLimit[kind] => <<kind, n>> \in Requests
BY SMT, ResultsAssumption DEF Requests, FrameNumbers, Kinds

\* The buffers of a request are those of its streams, and its input buffer.
LEMMA BuffersShape ==
  /\ \A kind \in Kinds : Buffers(kind) \in SUBSET (Outputs \cup {0})
  /\ \A r \in Requests : Buffers(r[1]) \subseteq Outputs \cup {0}
BY ResultsAssumption, RequestShape DEF Buffers

\* Sets of buffers are finite, and taking some away takes away their number.
LEMMA BufferCount ==
  /\ \A S \in SUBSET (Outputs \cup {0}) : IsFiniteSet(S) /\ Cardinality(S) \in Nat
  /\ \A S \in SUBSET (Outputs \cup {0}) : \A T \in SUBSET S :
       Cardinality(S \ T) = Cardinality(S) - Cardinality(T)
  /\ \A S \in SUBSET (Outputs \cup {0}) : Cardinality(S) = 0 <=> S = {}
<1>1. IsFiniteSet(Outputs \cup {0})
  <2>1. IsFiniteSet(1 .. NumStreams)
    BY SMT, FS_Interval, ResultsAssumption
  <2> QED
    BY <2>1, FS_AddElement DEF Outputs
<1>2. ASSUME NEW S \in SUBSET (Outputs \cup {0})
      PROVE  IsFiniteSet(S) /\ Cardinality(S) \in Nat
  BY <1>1, FS_Subset, FS_CardinalityType
<1>3. ASSUME NEW S \in SUBSET (Outputs \cup {0}), NEW T \in SUBSET S
      PROVE  Cardinality(S \ T) = Cardinality(S) - Cardinality(T)
  <2>1. S \cap T = T
    OBVIOUS
  <2> QED
    BY SMT, <1>2, <2>1, FS_Difference
<1>4. ASSUME NEW S \in SUBSET (Outputs \cup {0})
      PROVE  Cardinality(S) = 0 <=> S = {}
  BY <1>2, FS_EmptySet
<1> QED
  BY <1>2, <1>3, <1>4

\* SendCaptureResult touches neither the entry nor the buffers.
LEMMA SendKeeps ==
  ASSUME NEW w \in Works, NEW n \in Nat, <<w.e.kind, n>> \in Requests,
         NEW metadata \in SUBSET Parts, NEW collected \in SUBSET Parts,
         NEW x, x = SendCaptureResult(w, n, metadata, collected)
  PROVE  /\ x \in Works /\ x.e = w.e
         /\ GivesNone(w.client, x.client)
<1> DEFINE q == <<w.e.kind, n>>
<1>0. w.e \in PendingRequest /\ w.client \in [Requests -> ClientRequest]
      /\ w.next \in [Kinds -> Nat] /\ w.causes \in SUBSET Causes
  BY DEF Works
<1>1. CASE metadata = {}
  BY <1>1 DEF SendCaptureResult, GivesNone
<1>2. CASE metadata # {} /\ n < w.next[w.e.kind]
  BY <1>0, <1>2 DEF SendCaptureResult, Works, Causes, GivesNone
<1> DEFINE next == [w.next EXCEPT ![w.e.kind] = n + 1]
<1>3. next \in [Kinds -> Nat]
  <2> DEFINE k == w.e.kind
             m == n + 1
  <2>1. m \in Nat
    BY SMT
  <2> HIDE DEF k, m
  <2>2. [w.next EXCEPT ![k] = m] \in [Kinds -> Nat]
    BY <1>0, <2>1
  <2> QED
    BY <2>2 DEF k, m
<1>4. CASE /\ metadata # {} /\ ~(n < w.next[w.e.kind])
           /\ TimestampPart \notin metadata \cup collected
  <2> DEFINE C == w.causes \cup {"no timestamp"}
  <2>1. x = [w EXCEPT !.next = next, !.causes = C]
    BY <1>0, <1>4 DEF SendCaptureResult, Works
  <2>2. C \in SUBSET Causes
    BY <1>0 DEF Causes
  <2> HIDE DEF next, C
  <2> QED
    BY <1>0, <1>3, <2>1, <2>2 DEF Works, GivesNone
<1>5. CASE /\ metadata # {} /\ ~(n < w.next[w.e.kind])
           /\ TimestampPart \in metadata \cup collected
  <2> DEFINE c == [w.client[q] EXCEPT !.results = @ + 1,
                                      !.result = metadata \cup collected]
  <2>1. x = [w EXCEPT !.next = next, !.client = [w.client EXCEPT ![q] = c]]
    BY <1>0, <1>5 DEF SendCaptureResult, Works
  <2>2. c \in ClientRequest /\ c.returned = w.client[q].returned
    <3>1. w.client[q] \in ClientRequest
      BY <1>0
    <3>2. metadata \cup collected \in SUBSET Parts
      OBVIOUS
    <3>3. w.client[q].results \in Nat
      BY <3>1 DEF ClientRequest
    <3> DEFINE m == w.client[q].results + 1
               p == metadata \cup collected
    <3>4. m \in Nat
      BY SMT, <3>3
    <3> HIDE DEF m, p, q
    <3>5. [w.client[q] EXCEPT !.results = m, !.result = p] \in ClientRequest
      BY <3>1, <3>2, <3>4 DEF ClientRequest, p
    <3>6. [w.client[q] EXCEPT !.results = m, !.result = p].returned
            = w.client[q].returned
      BY <3>1 DEF ClientRequest
    <3> QED
      BY <3>5, <3>6 DEF m, p
  <2> HIDE DEF c, q, next
  <2>3. [w.client EXCEPT ![q] = c] \in [Requests -> ClientRequest]
    BY <1>0, <2>2
  <2>4. \A r \in Requests :
          [w.client EXCEPT ![q] = c][r].returned = w.client[r].returned
    BY <1>0, <2>2
  <2> QED
    BY <1>0, <1>3, <2>1, <2>3, <2>4 DEF Works, GivesNone
<1> QED
  BY <1>1, <1>2, <1>4, <1>5

\* ReturnOutputBuffers gives each of its buffers back once more and changes
\* nothing of the entry but its status.
LEMMA ReturnGives ==
  ASSUME NEW w \in Works, NEW bufs \in SUBSET (Requests \X Outputs), NEW failed,
         NEW timestamp \in {0, 1}, NEW x,
         x = ReturnOutputBuffers(w, bufs, failed, timestamp)
  PROVE  /\ x \in Works
         /\ SameEntry(w.e, x.e)
         /\ x.next = w.next /\ x.causes = w.causes
         /\ GivesBack(w.client, x.client, bufs)
<1>0. w.e \in PendingRequest /\ w.client \in [Requests -> ClientRequest]
      /\ w.next \in [Kinds -> Nat] /\ w.causes \in SUBSET Causes
  BY DEF Works
<1> DEFINE mine(r) == {b \in Outputs : <<r, b>> \in bufs}
           c(r) == ReturnBufferToClient(w.client[r], mine(r), timestamp)
           s == IF bufs \cap failed # {} /\ ~flushing THEN "BUFFER"
                ELSE w.e.status
<1>1. x = [w EXCEPT !.client = [r \in Requests |-> c(r)],
                    !.e = [w.e EXCEPT !.status = s]]
  BY <1>0 DEF ReturnOutputBuffers, Works
<1>2. ASSUME NEW r \in Requests
      PROVE  /\ c(r) \in ClientRequest
             /\ \A b \in Outputs \cup {0} :
                  c(r).returned[b] = IF <<r, b>> \in bufs
                                     THEN w.client[r].returned[b] + 1
                                     ELSE w.client[r].returned[b]
  <2>1. w.client[r] \in ClientRequest /\ mine(r) \in SUBSET Outputs
    BY <1>0
  <2>2. \A b \in Outputs \cup {0} : b \in mine(r) <=> <<r, b>> \in bufs
    OBVIOUS
  <2> HIDE DEF mine
  <2>3. c(r).returned = [b \in Outputs \cup {0} |->
                           IF b \in mine(r) THEN w.client[r].returned[b] + 1
                           ELSE w.client[r].returned[b]]
    BY <2>1 DEF ReturnBufferToClient, ClientRequest
  <2>4. c(r).returned \in [Outputs \cup {0} -> Nat]
    BY SMT, <2>1, <2>3 DEF ClientRequest
  <2>5. c(r) \in ClientRequest
    <3>1. c(r).unstamped \in SUBSET Outputs
      BY <2>1 DEF ReturnBufferToClient, ClientRequest
    <3> QED
      BY <2>1, <2>4, <3>1 DEF ReturnBufferToClient, ClientRequest
  <2> QED
    BY <2>2, <2>3, <2>5
<1>3. [w.e EXCEPT !.status = s] \in PendingRequest
  BY <1>0 DEF PendingRequest, Faults
<1> HIDE DEF c, s
<1>4. [r \in Requests |-> c(r)] \in [Requests -> ClientRequest]
  BY <1>2
<1>5. /\ x \in Works /\ x.client = [r \in Requests |-> c(r)]
      /\ x.e = [w.e EXCEPT !.status = s]
      /\ x.next = w.next /\ x.causes = w.causes
  BY <1>0, <1>1, <1>3, <1>4 DEF Works, PendingRequest
<1>6. SameEntry(w.e, x.e)
  BY <1>0, <1>5 DEF SameEntry, PendingRequest
<1> QED
  BY SMT, <1>2, <1>5, <1>6 DEF GivesBack

\* RemovePendingRequestLocked keeps the types and the other entries.  The
\* entry goes when no buffer remains, and the kept buffers with it, or stays.
LEMMA RemoveGives ==
  ASSUME TypeOK, NEW w \in Works, NEW n \in DOMAIN pending, NEW failed,
         w.e.kind = pending[n].kind, RemovePendingRequestLocked(w, n, failed)
  PROVE  /\ client' \in [Requests -> ClientRequest]
         /\ nextResult' \in [Kinds -> Nat]
         /\ causes' \subseteq Causes /\ errors' \subseteq Nat
         /\ DOMAIN pending' \subseteq DOMAIN pending
         /\ \A m \in DOMAIN pending' : /\ pending'[m] \in PendingRequest
                                       /\ pending'[m].kind = pending[m].kind
         /\ \A m \in DOMAIN pending \ {n} : /\ m \in DOMAIN pending'
                                            /\ pending'[m] = pending[m]
         /\ \/ /\ n \notin DOMAIN pending' /\ w.e.buffersRemaining = 0
               /\ GivesBack(w.client, client', w.e.pendingBuffers)
            \/ /\ n \in DOMAIN pending' /\ pending'[n] = w.e
               /\ GivesNone(w.client, client')
<1> DEFINE z == ReturnOutputBuffers(w, w.e.pendingBuffers, failed, 0)
           x == IF Complete(w.e) THEN z ELSE w
<1>0. /\ w.e \in PendingRequest /\ w.client \in [Requests -> ClientRequest]
      /\ w.next \in [Kinds -> Nat] /\ w.causes \in SUBSET Causes
      /\ w.e.pendingBuffers \in SUBSET (Requests \X Outputs)
  BY DEF Works, PendingRequest
<1>1. z \in Works /\ GivesBack(w.client, z.client, w.e.pendingBuffers)
  BY <1>0, ReturnGives, Zenon
<1>2. x \in Works
  BY <1>1
<1> HIDE DEF z
<1>3. /\ client' = x.client /\ nextResult' = x.next
      /\ causes' \subseteq x.causes \cup {"timestamps differ"}
      /\ errors' \subseteq errors \cup {n}
      /\ pending' = IF Complete(w.e)
                    THEN [m \in DOMAIN pending \ {n} |-> pending[m]]
                    ELSE [pending EXCEPT ![n] = x.e]
  <2>1. client' = x.client /\ nextResult' = x.next
    BY DEF RemovePendingRequestLocked, z
  <2>2. causes' \subseteq x.causes \cup {"timestamps differ"}
    BY DEF RemovePendingRequestLocked, z
  <2>3. errors' \subseteq errors \cup {n}
    BY DEF RemovePendingRequestLocked
  <2>4. pending' = IF Complete(w.e)
                   THEN [m \in DOMAIN pending \ {n} |-> pending[m]]
                   ELSE [pending EXCEPT ![n] = x.e]
    BY DEF RemovePendingRequestLocked, z
  <2> QED
    BY <2>1, <2>2, <2>3, <2>4
<1>4. /\ client' \in [Requests -> ClientRequest]
      /\ nextResult' \in [Kinds -> Nat]
      /\ causes' \subseteq Causes
  BY <1>2, <1>3 DEF Works, Causes
<1>5. errors' \subseteq Nat
  BY <1>3 DEF TypeOK
<1>6. CASE Complete(w.e)
  <2>1. pending' = [m \in DOMAIN pending \ {n} |-> pending[m]]
    BY <1>3, <1>6
  <2>2. client' = z.client
    BY <1>3, <1>6
  <2>3. w.e.buffersRemaining = 0
    BY <1>6 DEF Complete
  <2>4. \A m \in DOMAIN pending : pending[m] \in PendingRequest
    BY DEF TypeOK
  <2> QED
    BY <1>1, <1>4, <1>5, <2>1, <2>2, <2>3, <2>4
<1>7. CASE ~Complete(w.e)
  <2>1. pending' = [pending EXCEPT ![n] = w.e]
    BY <1>3, <1>7
  <2>2. client' = w.client
    BY <1>3, <1>7
  <2>3. \A m \in DOMAIN pending : pending[m] \in PendingRequest
    BY DEF TypeOK
  <2> QED
    BY <1>0, <1>4, <1>5, <2>1, <2>2, <2>3 DEF GivesNone
<1> QED
  BY <1>6, <1>7
-----------------------------------------------------------------------------
(* What a message of the HAL about r does, in three parts: the HAL's own   *)
(* record moves on, the handler keeps the types and invents no entry, and  *)
(* r's entry and buffers are settled while the others' stay.               *)

HalMoves(r) ==
  /\ r \in Sent /\ frames' = frames
  /\ hal' \in [Requests -> HalRequest]
  /\ \A q \in Requests \ {r} : hal'[q] = hal[q]
  /\ hal'[r].fault = hal[r].fault /\ hal'[r].owned \subseteq hal[r].owned
  /\ flushing' = flushing
  /\ troubles' \subseteq {"shared", "unordered"} /\ troubles \subseteq troubles'

HandlerKeeps ==
  /\ client' \in [Requests -> ClientRequest]
  /\ nextResult' \in [Kinds -> Nat] /\ nextShutter' \in [Kinds -> Nat]
  /\ causes' \subseteq Causes /\ errors' \subseteq Nat
  /\ DOMAIN pending' \subseteq DOMAIN pending
  /\ \A m \in DOMAIN pending' : /\ pending'[m] \in PendingRequest
                                /\ pending'[m].kind = pending[m].kind

SameReturned(q) ==
  \A b \in Outputs \cup {0} : client'[q].returned[b] = client[q].returned[b]

Settles(r) ==
  /\ \A m \in DOMAIN pending \ {r[2]} : m \in DOMAIN pending' /\ pending'[m] = pending[m]
  /\ \A q \in Requests \ {r} : SameReturned(q)
  /\ r[2] \in DOMAIN pending' => Agrees(r)'
  /\ r[2] \notin DOMAIN pending' => hal'[r].owned = {}
  /\ Accounted(r)'

\* A message keeps the part of the invariant that holds in any case.
LEMMA BasicKept ==
  ASSUME Basic, NEW r \in Requests, HalMoves(r), HandlerKeeps
  PROVE  Basic'
<1>1. Sent' = Sent /\ r \in Sent
  BY DEF HalMoves, Sent
<1>2. TypeOK'
  BY DEF Basic, TypeOK, HalMoves, HandlerKeeps
<1>3. \A kind \in Kinds : frames'[kind] <= FrameLimit[kind]
  BY DEF Basic, HalMoves
<1>4. \A n \in DOMAIN pending' : <<pending'[n].kind, n>> \in Sent'
  BY <1>1 DEF Basic, HandlerKeeps
<1>5. \A q \in Requests \ Sent' : Fresh(q)'
  <2> SUFFICES ASSUME NEW q \in Requests \ Sent PROVE Fresh(q)'
    BY <1>1
  <2>1. hal'[q] = hal[q]
    BY <1>1 DEF HalMoves
  <2> QED
    BY <2>1 DEF Basic, Fresh
<1>6. \A q \in Requests : /\ hal'[q].owned \subseteq Buffers(q[1])
                          /\ hal'[q].fault = "unsent" => hal'[q].owned = {}
  BY DEF Basic, HalMoves
<1> QED
  BY <1>2, <1>3, <1>4, <1>5, <1>6 DEF Basic

\* A message about a request whose number is its own keeps the rest.
LEMMA ApartKept ==
  ASSUME Basic, Basic', Apart, NEW r \in Requests, HalMoves(r), HandlerKeeps,
         Settles(r), r[2] \in DOMAIN pending => Known(r)
  PROVE  Apart'
<1>1. Sent' = Sent /\ r \in Sent
  BY DEF HalMoves, Sent
<1>2. \A q \in Requests \ Sent' :
        \A b \in Outputs \cup {0} : client'[q].returned[b] = 0
  BY SMT, <1>1 DEF Apart, Settles, SameReturned
<1>3. r[2] \in DOMAIN pending' => Known(r)'
  BY DEF HandlerKeeps, Known
<1>4. ASSUME NEW q \in Sent, q # r
      PROVE  /\ Known(q)' => Agrees(q)'
             /\ ~Known(q)' => hal'[q].owned = {}
             /\ q[2] \in DOMAIN pending' /\ ~Known(q)' => ~HalOwes(q)'
             /\ Accounted(q)'
  <2>0. q \in Requests /\ q = <<q[1], q[2]>> /\ r = <<r[1], r[2]>>
    BY RequestShape DEF Sent
  <2>1. hal'[q] = hal[q] /\ SameReturned(q)
    BY <2>0, <1>4 DEF HalMoves, Settles
  <2>2. HalOwes(q)' = HalOwes(q)
    BY <2>1 DEF HalOwes, HalDone, NoShutter, NoResult
  <2>3. CASE q[2] # r[2]
    <3>1. /\ q[2] \in DOMAIN pending' <=> q[2] \in DOMAIN pending
          /\ q[2] \in DOMAIN pending => pending'[q[2]] = pending[q[2]]
      BY <2>3 DEF HandlerKeeps, Settles
    <3>2. Known(q)' = Known(q)
      BY <3>1 DEF Known
    <3>3. Known(q) => (Agrees(q)' <=> Agrees(q))
      BY <2>1, <3>1 DEF Agrees, Known
    <3>4. Held(q)' = Held(q)
      BY <3>1 DEF Held
    <3>5. Accounted(q)' <=> Accounted(q)
      BY <2>0, <2>1, <3>4, BuffersShape DEF Accounted, SameReturned
    <3> QED
      BY <2>1, <2>2, <3>1, <3>2, <3>3, <3>5 DEF Apart
  <2>4. CASE q[2] = r[2]
    <3>1. q[1] # r[1]
      BY <2>0, <2>4, <1>4
    <3>2. r[2] \in DOMAIN pending => ~Known(q)
      BY <2>4, <3>1 DEF Known
    <3>3. ~Known(q)'
      BY <1>3, <2>4, <3>1 DEF Known
    <3>4. ~Known(q)
      BY <2>4, <3>2 DEF Known
    <3>5. Held(q) = {}
      BY SMT, <1>1, <2>4, <1>4 DEF Held, Apart, Agrees
    <3>6. Held(q)' = {}
      BY SMT, <2>4, <1>4 DEF Held, Settles, Agrees
    <3>7. Accounted(q)'
      <4>1. Accounted(q)
        BY DEF Apart
      <4> QED
        BY <2>0, <2>1, <3>5, <3>6, <4>1, BuffersShape DEF Accounted, SameReturned
    <3>8. hal'[q].owned = {}
      BY <2>1, <3>4 DEF Apart
    <3>9. q[2] \in DOMAIN pending' => ~HalOwes(q)'
      BY <2>2, <3>4 DEF Apart, HandlerKeeps
    <3> QED
      BY <3>3, <3>7, <3>8, <3>9
  <2> QED
    BY <2>3, <2>4
<1>5. /\ Known(r)' => Agrees(r)'
      /\ ~Known(r)' => hal'[r].owned = {}
      /\ ~(r[2] \in DOMAIN pending' /\ ~Known(r)')
      /\ Accounted(r)'
  BY <1>3 DEF Settles, Known
<1> QED
  BY <1>1, <1>2, <1>4, <1>5 DEF Apart

\* A message that leaves r's buffers where they are settles r.
LEMMA UntouchedSettles ==
  ASSUME Basic, Apart, NEW r \in Requests, HalMoves(r),
         r[2] \in DOMAIN pending => Known(r),
         hal'[r].owned = hal[r].owned, hal[r].parts \subseteq hal'[r].parts,
         DOMAIN pending' = DOMAIN pending,
         \A m \in DOMAIN pending \ {r[2]} : pending'[m] = pending[m],
         r[2] \in DOMAIN pending =>
           /\ pending'[r[2]].buffersRemaining = pending[r[2]].buffersRemaining
           /\ pending'[r[2]].isMetaPresent = pending[r[2]].isMetaPresent
           /\ pending'[r[2]].pendingBuffers = pending[r[2]].pendingBuffers,
         \A q \in Requests : SameReturned(q)
  PROVE  Settles(r)
<1>1. r \in Sent /\ hal'[r].fault = hal[r].fault
  BY DEF HalMoves
<1>2. r[2] \in DOMAIN pending' => Agrees(r)'
  <2>1. r[2] \in DOMAIN pending => Agrees(r)
    BY <1>1 DEF Apart
  <2> QED
    BY <1>1, <2>1 DEF Agrees
<1>3. r[2] \notin DOMAIN pending' => hal'[r].owned = {}
  BY <1>1 DEF Apart, Known
<1>4. Held(r)' = Held(r)
  BY DEF Held
<1>5. Accounted(r)'
  <2>1. Accounted(r)
    BY <1>1 DEF Apart
  <2> QED
    BY <1>1, <1>4, <2>1, BuffersShape DEF Accounted, SameReturned
<1> QED
  BY <1>2, <1>3, <1>5 DEF Settles

\* What a handler's work record must be for its last step to settle r.
Fits(w, r) ==
  /\ w.e.buffersRemaining = Cardinality(hal'[r].owned)
  /\ w.e.isMetaPresent => PartialResultCount \in hal'[r].parts
  /\ w.e.pendingBuffers \subseteq {r} \X (Outputs \ hal'[r].owned)
  /\ \A q \in Requests \ {r} : \A b \in Outputs \cup {0} :
       w.client[q].returned[b] = client[q].returned[b]
  /\ \A b \in Buffers(r[1]) :
       w.client[r].returned[b] =
         IF b \in hal'[r].owned \/ <<r, b>> \in w.e.pendingBuffers THEN 0 ELSE 1

\* RemovePendingRequestLocked settles the request of the message.
LEMMA RemoveSettles ==
  ASSUME Basic, NEW r \in Requests, HalMoves(r), Known(r),
         NEW w \in Works, NEW failed, w.e.kind = r[1], Fits(w, r),
         RemovePendingRequestLocked(w, r[2], failed)
  PROVE  Settles(r)
<1>1. TypeOK /\ r[2] \in DOMAIN pending /\ w.e.kind = pending[r[2]].kind
  BY DEF Basic, Known
<1>2. /\ \A m \in DOMAIN pending \ {r[2]} : /\ m \in DOMAIN pending'
                                            /\ pending'[m] = pending[m]
      /\ \/ /\ r[2] \notin DOMAIN pending' /\ w.e.buffersRemaining = 0
            /\ GivesBack(w.client, client', w.e.pendingBuffers)
         \/ /\ r[2] \in DOMAIN pending' /\ pending'[r[2]] = w.e
            /\ GivesNone(w.client, client')
  BY <1>1, RemoveGives, Zenon
<1>3. \A b \in Buffers(r[1]) : b \in Outputs \cup {0}
  BY BuffersShape
<1>4. hal'[r].owned \in SUBSET (Outputs \cup {0})
  BY DEF HalMoves, HalRequest
<1>5. CASE /\ r[2] \notin DOMAIN pending' /\ w.e.buffersRemaining = 0
           /\ GivesBack(w.client, client', w.e.pendingBuffers)
  <2>1. hal'[r].owned = {}
    BY <1>4, <1>5, BufferCount DEF Fits
  <2>2. \A q \in Requests \ {r} : SameReturned(q)
    <3> SUFFICES ASSUME NEW q \in Requests \ {r}, NEW b \in Outputs \cup {0}
                 PROVE  client'[q].returned[b] = client[q].returned[b]
      BY DEF SameReturned
    <3>1. <<q, b>> \notin w.e.pendingBuffers
      BY DEF Fits
    <3>2. client'[q].returned[b] = w.client[q].returned[b]
      BY <1>5, <3>1 DEF GivesBack
    <3> QED
      BY <3>2 DEF Fits
  <2>3. Held(r)' = {}
    BY <1>5 DEF Held
  <2>4. Accounted(r)'
    <3> SUFFICES ASSUME NEW b \in Buffers(r[1]) PROVE client'[r].returned[b] = 1
      BY <2>1, <2>3 DEF Accounted
    <3>1. client'[r].returned[b] = IF <<r, b>> \in w.e.pendingBuffers
                                   THEN w.client[r].returned[b] + 1
                                   ELSE w.client[r].returned[b]
      BY <1>3, <1>5 DEF GivesBack
    <3>2. w.client[r].returned[b] =
            IF <<r, b>> \in w.e.pendingBuffers THEN 0 ELSE 1
      BY <2>1 DEF Fits
    <3> QED
      BY SMT, <3>1, <3>2
  <2> QED
    BY <1>2, <1>5, <2>1, <2>2, <2>4 DEF Settles
<1>6. CASE /\ r[2] \in DOMAIN pending' /\ pending'[r[2]] = w.e
           /\ GivesNone(w.client, client')
  <2>1. Agrees(r)'
    BY <1>6 DEF Agrees, Fits
  <2>2. \A q \in Requests \ {r} : SameReturned(q)
    BY <1>6 DEF Fits, GivesNone, SameReturned
  <2>3. Held(r)' = {b \in Outputs : <<r, b>> \in w.e.pendingBuffers}
    BY <1>6 DEF Held
  <2>4. Accounted(r)'
    <3> SUFFICES ASSUME NEW b \in Buffers(r[1])
                 PROVE  client'[r].returned[b] =
                          IF b \in hal'[r].owned \cup Held(r)' THEN 0 ELSE 1
      BY DEF Accounted
    <3>1. b \in Held(r)' <=> <<r, b>> \in w.e.pendingBuffers
      BY <2>3 DEF Fits
    <3>2. client'[r].returned[b] = w.client[r].returned[b]
      BY <1>6 DEF GivesNone
    <3> QED
      BY <3>1, <3>2 DEF Fits
  <2> QED
    BY <1>2, <1>6, <2>1, <2>2, <2>4 DEF Settles
<1> QED
  BY <1>2, <1>5, <1>6

\* A message that settles its request keeps the invariant.
LEMMA MessageKept ==
  ASSUME IInv, NEW r \in Requests, HalMoves(r), HandlerKeeps, HalOwes(r),
         Apart /\ (r[2] \in DOMAIN pending => Known(r)) => Settles(r)
  PROVE  IInv'
<1>1. Basic /\ Basic'
  BY BasicKept DEF IInv
<1>2. ASSUME "shared" \notin troubles' PROVE Apart'
  <2>1. Apart /\ r \in Sent
    BY <1>2 DEF IInv, HalMoves
  <2>2. r[2] \in DOMAIN pending => Known(r)
    BY <2>1 DEF Apart
  <2> QED
    BY <1>1, <2>1, <2>2, ApartKept
<1> QED
  BY <1>1, <1>2 DEF IInv

\* NotifyShutter keeps the invariant.
LEMMA ShutterStep ==
  ASSUME IInv, NEW r \in Requests, HalShutter(r)
  PROVE  IInv'
<1> DEFINE n == r[2]
           e == pending[n]
           q == <<e.kind, n>>
           heard == [client EXCEPT ![q].shutters = @ + 1]
           failed == FailedBuffers(hal)
<1>0. TypeOK /\ Basic /\ n \in Nat
  BY RequestShape DEF IInv, Basic
<1>1. /\ HalMoves(r) /\ HalOwes(r)
      /\ hal'[r].owned = hal[r].owned /\ hal'[r].parts = hal[r].parts
  <2>1. r \in Sent /\ ~hal[r].shutter /\ ~NoShutter(r)
        /\ hal' = [hal EXCEPT ![r].shutter = TRUE]
        /\ frames' = frames /\ flushing' = flushing
        /\ InOrder(ShutterInOrder(r))
    BY DEF HalShutter
  <2>2. hal[r] \in HalRequest /\ hal \in [Requests -> HalRequest]
    BY <1>0 DEF TypeOK
  <2>3. /\ hal' \in [Requests -> HalRequest]
        /\ \A p \in Requests \ {r} : hal'[p] = hal[p]
        /\ hal'[r].fault = hal[r].fault /\ hal'[r].owned = hal[r].owned
        /\ hal'[r].parts = hal[r].parts
    BY <2>1, <2>2 DEF HalRequest
  <2>4. /\ troubles' \subseteq {"shared", "unordered"}
        /\ troubles \subseteq troubles'
    BY <1>0, <2>1 DEF InOrder, TypeOK
  <2>5. HalOwes(r)
    BY <2>1 DEF HalOwes, HalDone
  <2> QED
    BY <2>1, <2>3, <2>4, <2>5 DEF HalMoves
<1>2. NotifyShutter(n, failed)
  BY DEF HalShutter
<1>3. CASE n \notin DOMAIN pending
  <2>1. /\ causes' = causes \cup {"shutter of an invalid frame"}
        /\ UNCHANGED <<pending, errors, nextShutter, nextResult, client>>
    BY <1>2, <1>3 DEF NotifyShutter, SET_ERR
  <2>2. HandlerKeeps
    BY <1>0, <2>1 DEF HandlerKeeps, TypeOK, Causes
  <2>3. ASSUME Apart, r[2] \in DOMAIN pending => Known(r) PROVE Settles(r)
    <3>1. \A p \in Requests : SameReturned(p)
      BY <2>1 DEF SameReturned
    <3> QED
      BY <1>0, <1>1, <1>3, <2>1, <2>3, <3>1, UntouchedSettles
  <2> QED
    BY <1>1, <2>2, <2>3, MessageKept
<1>4. ASSUME n \in DOMAIN pending
      PROVE  /\ e \in PendingRequest /\ q \in Requests
             /\ heard \in [Requests -> ClientRequest]
             /\ \A p \in Requests : heard[p].returned = client[p].returned
  <2>1. e \in PendingRequest /\ q \in Requests /\ client \in [Requests -> ClientRequest]
    BY <1>0, <1>4 DEF TypeOK, Basic, Sent
  <2> HIDE DEF q
  <2>2. client[q] \in ClientRequest /\ client[q].shutters \in Nat
    BY <2>1 DEF ClientRequest
  <2> DEFINE m == client[q].shutters + 1
             c == [client[q] EXCEPT !.shutters = m]
  <2>3. m \in Nat
    BY SMT, <2>2
  <2> HIDE DEF m
  <2>4. c \in ClientRequest /\ c.returned = client[q].returned
    BY <2>2, <2>3 DEF ClientRequest
  <2>5. heard = [client EXCEPT ![q] = c]
    BY <2>1 DEF m
  <2> HIDE DEF c, heard
  <2> QED
    BY <2>1, <2>4, <2>5
<1>5. CASE n \in DOMAIN pending /\ n < nextShutter[e.kind]
  <2>1. /\ client' = heard
        /\ causes' = causes \cup {"out-of-order shutter"}
        /\ UNCHANGED <<pending, errors, nextShutter, nextResult>>
    BY <1>2, <1>5 DEF NotifyShutter
  <2> HIDE DEF heard
  <2>2. HandlerKeeps
    BY <1>0, <1>4, <1>5, <2>1 DEF HandlerKeeps, TypeOK, Causes
  <2>3. ASSUME Apart, r[2] \in DOMAIN pending => Known(r) PROVE Settles(r)
    <3>1. \A p \in Requests : SameReturned(p)
      BY <1>4, <1>5, <2>1 DEF SameReturned
    <3> QED
      BY <1>0, <1>1, <2>1, <2>3, <3>1, UntouchedSettles
  <2> QED
    BY <1>1, <2>2, <2>3, MessageKept
<1>6. CASE n \in DOMAIN pending /\ ~(n < nextShutter[e.kind])
  <2> DEFINE e1 == [e EXCEPT !.shutterTS = TRUE]
             w == [Work(e1) EXCEPT !.client = heard]
             x == SendCaptureResult(w, n, e.pendingMetadata, e.composedResult)
             y == ReturnOutputBuffers(x, e.pendingBuffers, failed, 1)
             z == [y EXCEPT !.e = Cleared(@)]
  <2>1. /\ nextShutter' = [nextShutter EXCEPT ![e.kind] = n + 1]
        /\ RemovePendingRequestLocked(z, n, failed)
    BY <1>2, <1>6 DEF NotifyShutter
  <2>2. /\ e \in PendingRequest /\ e.kind \in Kinds
        /\ e.pendingMetadata \in SUBSET Parts /\ e.composedResult \in SUBSET Parts
        /\ e.pendingBuffers \in SUBSET (Requests \X Outputs)
    BY <1>4, <1>6 DEF PendingRequest
  <2>3. /\ e1 \in PendingRequest /\ e1.kind = e.kind
        /\ e1.buffersRemaining = e.buffersRemaining
        /\ e1.isMetaPresent = e.isMetaPresent
    BY <2>2 DEF PendingRequest
  <2> HIDE DEF e1, heard, e
  <2>4. w \in Works /\ w.e = e1 /\ w.client = heard
    <3>1. heard \in [Requests -> ClientRequest]
      BY <1>4, <1>6
    <3> QED
      BY <1>0, <2>3, <3>1 DEF Works, Work, TypeOK
  <2> HIDE DEF w
  <2>5. x \in Works /\ x.e = w.e /\ GivesNone(w.client, x.client)
    BY <1>0, <1>4, <1>6, <2>2, <2>3, <2>4, SendKeeps
  <2> HIDE DEF x
  <2>6. /\ y \in Works /\ SameEntry(x.e, y.e)
        /\ GivesBack(x.client, y.client, e.pendingBuffers)
    <3>1. 1 \in {0, 1}
      OBVIOUS
    <3> QED
      BY <2>2, <2>5, <3>1, ReturnGives, Zenon
  <2> HIDE DEF y
  <2>7. /\ z \in Works /\ z.e.pendingBuffers = {} /\ z.client = y.client
        /\ z.e.kind = y.e.kind
        /\ z.e.buffersRemaining = y.e.buffersRemaining
        /\ z.e.isMetaPresent = y.e.isMetaPresent
    BY <2>6 DEF Works, Cleared, PendingRequest
  <2>8. /\ z.e.kind = e.kind /\ z.e.buffersRemaining = e.buffersRemaining
        /\ z.e.isMetaPresent = e.isMetaPresent
    BY <2>3, <2>4, <2>5, <2>6, <2>7 DEF SameEntry
  <2> HIDE DEF z
  <2>9. HandlerKeeps
    <3>1. nextShutter' \in [Kinds -> Nat]
      <4> DEFINE m == n + 1
      <4>1. m \in Nat
        BY SMT, <1>0
      <4> HIDE DEF m
      <4>2. [nextShutter EXCEPT ![e.kind] = m] \in [Kinds -> Nat]
        BY <1>0, <4>1 DEF TypeOK
      <4> QED
        BY <2>1, <4>2 DEF m
    <3>2. z.e.kind = pending[n].kind
      BY <2>8 DEF e
    <3> QED
      BY <1>0, <1>6, <2>1, <2>7, <3>1, <3>2, RemoveGives DEF HandlerKeeps
  <2>10. ASSUME Apart, r[2] \in DOMAIN pending => Known(r) PROVE Settles(r)
    <3>1. Known(r) /\ Agrees(r) /\ Accounted(r) /\ r \in Sent /\ e.kind = r[1]
      BY <1>1, <1>6, <2>10 DEF Apart, HalMoves, Known, e
    <3>2. hal[r].fault # "unsent"
      BY DEF HalShutter, NoShutter
    <3>3. \A p \in Requests : \A b \in Outputs \cup {0} :
            z.client[p].returned[b] =
              IF <<p, b>> \in e.pendingBuffers THEN client[p].returned[b] + 1
              ELSE client[p].returned[b]
      <4> SUFFICES ASSUME NEW p \in Requests, NEW b \in Outputs \cup {0}
                   PROVE  z.client[p].returned[b] =
                            IF <<p, b>> \in e.pendingBuffers
                            THEN client[p].returned[b] + 1
                            ELSE client[p].returned[b]
        OBVIOUS
      <4>1. x.client[p].returned = client[p].returned
        BY <1>4, <1>6, <2>4, <2>5 DEF GivesNone
      <4> QED
        BY <2>6, <2>7, <4>1 DEF GivesBack
    <3>4. Fits(z, r)
      <4>1. /\ e.buffersRemaining = Cardinality(hal[r].owned)
            /\ e.isMetaPresent => PartialResultCount \in hal[r].parts
            /\ e.pendingBuffers \subseteq {r} \X (Outputs \ hal[r].owned)
        BY <3>1, <3>2 DEF Agrees, e
      <4>2. \A p \in Requests \ {r} : \A b \in Outputs \cup {0} :
              z.client[p].returned[b] = client[p].returned[b]
        BY <3>3, <4>1
      <4>3. ASSUME NEW b \in Buffers(r[1])
            PROVE  z.client[r].returned[b] =
                     IF b \in hal'[r].owned \/ <<r, b>> \in z.e.pendingBuffers
                     THEN 0 ELSE 1
        <5>1. b \in Outputs \cup {0}
          BY BuffersShape
        <5>2. client[r].returned[b] =
                IF b \in hal[r].owned \/ <<r, b>> \in e.pendingBuffers THEN 0 ELSE 1
          BY <1>6, <3>1, <3>2, <4>1 DEF Accounted, Held, e
        <5> QED
          BY SMT, <1>1, <2>7, <3>3, <4>1, <5>1, <5>2
      <4> QED
        BY <1>1, <2>7, <2>8, <4>1, <4>2, <4>3 DEF Fits
    <3> QED
      BY <1>0, <1>1, <2>1, <2>7, <2>8, <3>1, <3>4, RemoveSettles
  <2> QED
    BY <1>1, <2>9, <2>10, MessageKept
<1> QED
  BY <1>3, <1>5, <1>6

\* NotifyError keeps the invariant.
LEMMA ErrorStep ==
  ASSUME IInv, NEW r \in Requests, HalError(r)
  PROVE  IInv'
<1> DEFINE n == r[2]
<1>0. TypeOK /\ Basic
  BY DEF IInv, Basic
<1>1. /\ hal[r].fault \in {"REQUEST", "RESULT", "BUFFER"} /\ ~hal[r].notified
      /\ hal' = [hal EXCEPT ![r].notified = TRUE, ![r].late = hal[r].owned = {}]
      /\ pending' = IF n \in DOMAIN pending
                    THEN [pending EXCEPT ![n].status = hal[r].fault] ELSE pending
      /\ UNCHANGED <<frames, flushing, troubles>>
      /\ UNCHANGED <<errors, nextShutter, nextResult, causes, client>>
  BY DEF HalError, NotifyError
<1>2. /\ hal' \in [Requests -> HalRequest]
      /\ \A p \in Requests \ {r} : hal'[p] = hal[p]
      /\ hal'[r].fault = hal[r].fault /\ hal'[r].owned = hal[r].owned
      /\ hal'[r].parts = hal[r].parts
  <2>1. hal[r] \in HalRequest /\ hal \in [Requests -> HalRequest]
    BY <1>0 DEF TypeOK
  <2> QED
    BY <1>1, <2>1 DEF HalRequest
<1>3. r \in Sent
  BY <1>0, <1>1 DEF Basic, Fresh
<1>4. HalMoves(r)
  BY <1>0, <1>1, <1>2, <1>3 DEF HalMoves, TypeOK
<1>5. HalOwes(r)
  BY <1>1 DEF HalOwes
<1>6. /\ DOMAIN pending' = DOMAIN pending
      /\ \A m \in DOMAIN pending : /\ pending'[m] \in PendingRequest
                                   /\ SameEntry(pending[m], pending'[m])
      /\ \A m \in DOMAIN pending \ {n} : pending'[m] = pending[m]
  <2>1. \A m \in DOMAIN pending : pending[m] \in PendingRequest
    BY <1>0 DEF TypeOK
  <2>2. CASE n \notin DOMAIN pending
    BY <1>1, <2>1, <2>2 DEF SameEntry
  <2>3. CASE n \in DOMAIN pending
    <3> DEFINE f == [pending[n] EXCEPT !.status = hal[r].fault]
    <3>1. f \in PendingRequest /\ SameEntry(pending[n], f)
      BY SMT, <1>1, <2>1, <2>3 DEF PendingRequest, Faults, SameEntry
    <3>2. pending' = [pending EXCEPT ![n] = f]
      BY <1>1, <2>3
    <3> HIDE DEF f
    <3> QED
      BY <2>1, <2>3, <3>1, <3>2 DEF SameEntry
  <2> QED
    BY <2>2, <2>3
<1>7. HandlerKeeps
  BY <1>0, <1>1, <1>6 DEF HandlerKeeps, TypeOK, SameEntry
<1>8. ASSUME Apart, r[2] \in DOMAIN pending => Known(r) PROVE Settles(r)
  <2>1. \A p \in Requests : SameReturned(p)
    BY <1>1 DEF SameReturned
  <2> QED
    BY <1>0, <1>2, <1>4, <1>6, <1>8, <2>1, UntouchedSettles DEF SameEntry
<1> QED
  BY <1>4, <1>5, <1>7, <1>8, MessageKept

\* What the HAL does when it sends a result, apart from the handler.
LEMMA ResultMoves ==
  ASSUME IInv, NEW r \in Requests, NEW part \in Parts \cup {0},
         NEW bufs \in SUBSET hal[r].owned, NEW bad \in SUBSET (bufs \ {0}),
         HalResult(r, part, bufs, bad)
  PROVE  /\ HalMoves(r) /\ HalOwes(r) /\ hal[r].fault # "unsent"
         /\ hal'[r].owned = hal[r].owned \ bufs
         /\ hal[r].parts \subseteq hal'[r].parts
         /\ part # 0 => part \in hal'[r].parts
         /\ part = PartialResultCount => PartialResultCount \notin hal[r].parts
         /\ bufs \in SUBSET (Outputs \cup {0})
<1>0. TypeOK /\ Basic /\ PartialResultCount \in Nat \ {0}
  BY ResultsAssumption DEF IInv, Basic
<1>1. /\ r \in Sent /\ (part # 0 \/ bufs # {})
      /\ part # 0 => MaySend(r, part)
      /\ InOrder(part = PartialResultCount => ResultInOrder(r))
      /\ hal' = [hal EXCEPT ![r].parts = IF part = 0 THEN @ ELSE @ \cup {part},
                            ![r].owned = @ \ bufs, ![r].failed = @ \cup bad]
      /\ frames' = frames /\ flushing' = flushing
  BY DEF HalResult
<1>2. /\ hal[r] \in HalRequest /\ hal \in [Requests -> HalRequest]
      /\ hal[r].parts \in SUBSET Parts /\ hal[r].failed \in SUBSET Outputs
      /\ hal[r].owned \in SUBSET (Outputs \cup {0})
  BY <1>0 DEF TypeOK, HalRequest
<1> DEFINE P == IF part = 0 THEN hal[r].parts ELSE hal[r].parts \cup {part}
           O == hal[r].owned \ bufs
           F == hal[r].failed \cup bad
           h == [hal[r] EXCEPT !.parts = P, !.owned = O, !.failed = F]
<1>3. /\ P \in SUBSET Parts /\ O \in SUBSET (Outputs \cup {0})
      /\ F \in SUBSET Outputs
  BY <1>2
<1>4. hal' = [hal EXCEPT ![r] = h]
  BY <1>1, <1>2
<1>5. hal[r].parts \subseteq P /\ (part # 0 => part \in P)
  OBVIOUS
<1> HIDE DEF P, O, F
<1>6. /\ h \in HalRequest /\ h.fault = hal[r].fault
      /\ h.owned = O /\ h.parts = P
  BY <1>2, <1>3 DEF HalRequest
<1> HIDE DEF h
<1>7. /\ hal' \in [Requests -> HalRequest] /\ hal'[r] = h
      /\ \A p \in Requests \ {r} : hal'[p] = hal[p]
  BY <1>2, <1>4, <1>6
<1>8. /\ troubles' \subseteq {"shared", "unordered"}
      /\ troubles \subseteq troubles'
  BY <1>0, <1>1 DEF InOrder, TypeOK
<1>9. hal'[r].owned = hal[r].owned \ bufs
  BY <1>6, <1>7 DEF O
<1>10. HalMoves(r)
  BY <1>1, <1>6, <1>7, <1>8, <1>9 DEF HalMoves
<1>11. part = PartialResultCount => PartialResultCount \notin hal[r].parts
  BY SMT, <1>0, <1>1 DEF MaySend
<1>12. part # 0 => PartialResultCount \notin hal[r].parts
  BY SMT, <1>0, <1>1, <1>2 DEF MaySend, Parts
<1>13. hal[r].fault # "unsent"
  BY <1>0, <1>1 DEF Basic, MaySend
<1>14. HalOwes(r)
  <2>1. CASE bufs # {}
    BY <2>1 DEF HalOwes, HalDone
  <2>2. CASE part # 0
    BY <1>1, <1>12, <2>2 DEF HalOwes, HalDone, MaySend, NoResult
  <2> QED
    BY <1>1, <2>1, <2>2
<1> QED
  BY <1>2, <1>5, <1>6, <1>7, <1>9, <1>10, <1>11, <1>13, <1>14

\* The entry after the first half of HandleCaptureResult.
LEMMA NotedGives ==
  ASSUME NEW e \in PendingRequest, NEW part \in Parts \cup {0}, NEW count \in Nat,
         NEW f, f = Noted(e, part, count)
  PROVE  /\ f \in PendingRequest /\ f.kind = e.kind
         /\ f.buffersRemaining = e.buffersRemaining - count
         /\ f.pendingBuffers = e.pendingBuffers
         /\ f.isMetaPresent => e.isMetaPresent \/ part = PartialResultCount
         /\ [f EXCEPT !.sensorTS = e.sensorTS] \in PendingRequest
         /\ [f EXCEPT !.sensorTS = e.sensorTS].kind = e.kind
<1> DEFINE C == IF part \in Parts \ {PartialResultCount}
                THEN e.composedResult \cup {part}
                ELSE IF part = PartialResultCount THEN {} ELSE e.composedResult
           B == e.buffersRemaining - count
           M == e.isMetaPresent \/ part = PartialResultCount
           T == e.sensorTS \/ part = TimestampPart
<1>1. C \in SUBSET Parts /\ B \in Int
  BY SMT DEF PendingRequest
<1>0. M \in BOOLEAN /\ T \in BOOLEAN
  OBVIOUS
<1>2. f = [e EXCEPT !.composedResult = C, !.isMetaPresent = M,
                    !.buffersRemaining = B, !.sensorTS = T]
  BY DEF Noted
<1>2a. M => e.isMetaPresent \/ part = PartialResultCount
  OBVIOUS
<1> HIDE DEF C, B, M, T
<1>3. /\ f \in PendingRequest /\ f.kind = e.kind
      /\ f.buffersRemaining = B /\ f.pendingBuffers = e.pendingBuffers
      /\ f.isMetaPresent => e.isMetaPresent \/ part = PartialResultCount
  <2>1. f \in PendingRequest
    BY <1>0, <1>1, <1>2 DEF PendingRequest
  <2>2. /\ f.kind = e.kind /\ f.buffersRemaining = B
        /\ f.pendingBuffers = e.pendingBuffers /\ f.isMetaPresent = M
    BY SMT, <1>2 DEF PendingRequest
  <2> QED
    BY <1>2a, <2>1, <2>2
<1>4. /\ [f EXCEPT !.sensorTS = e.sensorTS] \in PendingRequest
      /\ [f EXCEPT !.sensorTS = e.sensorTS].kind = e.kind
  BY <1>3 DEF PendingRequest
<1> QED
  BY <1>3, <1>4 DEF B

\* The entry that keeps what came before the shutter.
LEMMA KeptGives ==
  ASSUME NEW e \in PendingRequest, NEW part \in Parts \cup {0},
         NEW outs \in SUBSET (Requests \X Outputs),
         NEW collected \in SUBSET Parts, NEW f, f = Kept(e, part, outs, collected)
  PROVE  /\ f \in PendingRequest /\ f.kind = e.kind
         /\ f.buffersRemaining = e.buffersRemaining
         /\ f.isMetaPresent = e.isMetaPresent
         /\ f.pendingBuffers = e.pendingBuffers \cup outs
<1> DEFINE P == e.pendingBuffers \cup outs
           M == IF part = PartialResultCount THEN {part} ELSE e.pendingMetadata
           C == IF part = PartialResultCount THEN collected ELSE e.composedResult
<1>1. /\ P \in SUBSET (Requests \X Outputs)
      /\ M \in SUBSET Parts /\ C \in SUBSET Parts
  BY ResultsAssumption DEF PendingRequest, Parts
<1>2. f = [e EXCEPT !.pendingBuffers = P, !.pendingMetadata = M,
                    !.composedResult = C]
  BY DEF Kept
<1>3. f.pendingBuffers = P
  BY <1>2 DEF PendingRequest
<1> HIDE DEF P, M, C
<1>4. /\ f \in PendingRequest /\ f.kind = e.kind
      /\ f.buffersRemaining = e.buffersRemaining
      /\ f.isMetaPresent = e.isMetaPresent
  BY <1>1, <1>2 DEF PendingRequest
<1> QED
  BY <1>3, <1>4 DEF P

\* The client after a partial result and the return of the input buffer.
LEMMA BackGives ==
  ASSUME NEW c \in [Requests -> ClientRequest], NEW q \in Requests,
         NEW r \in Requests, NEW parts \in SUBSET Parts,
         NEW d, d = [c EXCEPT ![q].partial = parts],
         NEW f, f = [c EXCEPT ![r].returned[0] = @ + 1]
  PROVE  /\ d \in [Requests -> ClientRequest] /\ GivesNone(c, d)
         /\ f \in [Requests -> ClientRequest] /\ GivesBack(c, f, {<<r, 0>>})
<1> DEFINE cq == [c[q] EXCEPT !.partial = parts]
           R == [c[r].returned EXCEPT ![0] = c[r].returned[0] + 1]
           cr == [c[r] EXCEPT !.returned = R]
<1>1. cq \in ClientRequest /\ cq.returned = c[q].returned
  BY DEF ClientRequest
<1>2. d = [c EXCEPT ![q] = cq]
  OBVIOUS
<1>3. c[r].returned \in [Outputs \cup {0} -> Nat]
  BY DEF ClientRequest
<1>4. /\ R \in [Outputs \cup {0} -> Nat]
      /\ \A b \in Outputs \cup {0} :
           R[b] = IF b = 0 THEN c[r].returned[b] + 1 ELSE c[r].returned[b]
  <2> DEFINE m == c[r].returned[0] + 1
  <2>1. m \in Nat
    BY SMT, <1>3
  <2> HIDE DEF m
  <2>2. [c[r].returned EXCEPT ![0] = m] \in [Outputs \cup {0} -> Nat]
    BY <1>3, <2>1
  <2>3. \A b \in Outputs \cup {0} : [c[r].returned EXCEPT ![0] = m][b]
                                      = IF b = 0 THEN m ELSE c[r].returned[b]
    BY <1>3
  <2> QED
    BY <2>2, <2>3 DEF m
<1>5. f = [c EXCEPT ![r] = cr]
  OBVIOUS
<1> HIDE DEF R
<1>6. cr \in ClientRequest /\ cr.returned = R
  BY <1>4 DEF ClientRequest
<1> HIDE DEF cq, cr
<1>7. d \in [Requests -> ClientRequest] /\ GivesNone(c, d)
  BY <1>1, <1>2 DEF GivesNone
<1>8. f \in [Requests -> ClientRequest]
  BY <1>5, <1>6
<1>9. GivesBack(c, f, {<<r, 0>>})
  <2> SUFFICES ASSUME NEW p \in Requests, NEW b \in Outputs \cup {0}
               PROVE  f[p].returned[b] = IF <<p, b>> \in {<<r, 0>>}
                                         THEN c[p].returned[b] + 1
                                         ELSE c[p].returned[b]
    BY DEF GivesBack
  <2>1. CASE p = r
    BY <1>4, <1>5, <1>6, <2>1
  <2>2. CASE p # r
    BY <1>5, <2>2
  <2> QED
    BY <2>1, <2>2
<1> QED
  BY <1>7, <1>8, <1>9

\* HandleCaptureResult keeps the invariant.
LEMMA ResultStep ==
  ASSUME IInv, NEW r \in Requests, NEW part \in Parts \cup {0},
         NEW bufs \in SUBSET hal[r].owned, NEW bad \in SUBSET (bufs \ {0}),
         HalResult(r, part, bufs, bad)
  PROVE  IInv'
<1> DEFINE n == r[2]
           e == pending[n]
           q == <<e.kind, n>>
           failed == FailedBuffers(hal')
           outs == OutputsReturned(r, bufs)
           final == part = PartialResultCount
           count == Cardinality(bufs)
           noted == Noted(e, part, count)
           told == IF part \in Parts /\ ~final
                   THEN [client EXCEPT ![q].partial = noted.composedResult]
                   ELSE client
           back == IF 0 \in bufs
                   THEN [told EXCEPT ![r].returned[0] = @ + 1] ELSE told
           w == [Work(noted) EXCEPT !.client = back]
           x == IF final THEN SendCaptureResult(w, n, {part}, e.composedResult)
                ELSE w
           y == ReturnOutputBuffers(x, outs, failed, 1)
           z == [w EXCEPT !.e = Kept(noted, part, outs, e.composedResult)]
<1>0. TypeOK /\ Basic /\ n \in Nat
  BY RequestShape DEF IInv, Basic
<1>1. /\ HalMoves(r) /\ HalOwes(r) /\ hal[r].fault # "unsent"
      /\ hal'[r].owned = hal[r].owned \ bufs
      /\ hal[r].parts \subseteq hal'[r].parts
      /\ part # 0 => part \in hal'[r].parts
      /\ part = PartialResultCount => PartialResultCount \notin hal[r].parts
      /\ bufs \in SUBSET (Outputs \cup {0})
  BY ResultMoves
<1>2. HandleCaptureResult(r, part, bufs, failed)
  BY DEF HalResult
<1>3. CASE n \notin DOMAIN pending
  <2>1. UnknownResult(n)
    BY <1>2, <1>3 DEF HandleCaptureResult
  <2>2. /\ UNCHANGED <<pending, nextShutter, nextResult, client>>
        /\ causes' \subseteq causes \cup {"result of an invalid frame"}
        /\ errors' \subseteq errors
    BY <2>1 DEF UnknownResult, SET_ERR
  <2>3. HandlerKeeps
    BY <1>0, <2>2 DEF HandlerKeeps, TypeOK, Causes
  <2>4. ASSUME Apart, r[2] \in DOMAIN pending => Known(r) PROVE Settles(r)
    <3>1. \A p \in Requests : SameReturned(p)
      BY <2>2 DEF SameReturned
    <3>2. hal'[r].owned = hal[r].owned
      BY <1>1, <1>3, <2>4 DEF Apart, Known, HalMoves
    <3> QED
      BY <1>0, <1>1, <1>3, <2>2, <2>4, <3>1, <3>2, UntouchedSettles
  <2> QED
    BY <1>1, <2>3, <2>4, MessageKept
<1>4. ASSUME n \in DOMAIN pending
      PROVE  /\ e \in PendingRequest /\ q \in Requests /\ count \in Nat
             /\ e.composedResult \in SUBSET Parts
             /\ outs \in SUBSET (Requests \X Outputs)
  <2>1. e \in PendingRequest /\ q \in Requests
    BY <1>0, <1>4 DEF TypeOK, Basic, Sent
  <2>2. e.composedResult \in SUBSET Parts
    BY <2>1 DEF PendingRequest
  <2>3. outs \in SUBSET (Requests \X Outputs)
    BY <1>1 DEF OutputsReturned
  <2> QED
    BY <1>1, <2>1, <2>2, <2>3, BufferCount
<1>5. ASSUME n \in DOMAIN pending
      PROVE  /\ noted \in PendingRequest /\ noted.kind = e.kind
             /\ noted.buffersRemaining = e.buffersRemaining - count
             /\ noted.pendingBuffers = e.pendingBuffers
             /\ noted.isMetaPresent => e.isMetaPresent \/ part = PartialResultCount
             /\ [noted EXCEPT !.sensorTS = e.sensorTS] \in PendingRequest
             /\ [noted EXCEPT !.sensorTS = e.sensorTS].kind = e.kind
  <2> HIDE DEF e, count
  <2> QED
    BY SMT, <1>4, <1>5, NotedGives
<1>6. ASSUME n \in DOMAIN pending
      PROVE  /\ told \in [Requests -> ClientRequest] /\ GivesNone(client, told)
             /\ back \in [Requests -> ClientRequest]
             /\ 0 \in bufs => GivesBack(told, back, {<<r, 0>>})
             /\ 0 \notin bufs => back = told
  <2>1. client \in [Requests -> ClientRequest]
    BY <1>0 DEF TypeOK
  <2>2. noted.composedResult \in SUBSET Parts
    BY <1>5, <1>6 DEF PendingRequest
  <2> HIDE DEF noted, q
  <2>3. told \in [Requests -> ClientRequest] /\ GivesNone(client, told)
    <3>1. CASE part \in Parts /\ ~final
      BY <1>4, <1>6, <2>1, <2>2, <3>1, BackGives
    <3>2. CASE ~(part \in Parts /\ ~final)
      BY <2>1, <3>2 DEF GivesNone
    <3> QED
      BY <3>1, <3>2
  <2> HIDE DEF told
  <2>4. 0 \in bufs => /\ back \in [Requests -> ClientRequest]
                      /\ GivesBack(told, back, {<<r, 0>>})
    BY <1>4, <1>6, <2>2, <2>3, BackGives
  <2> QED
    BY <2>3, <2>4
<1>7. CASE n \in DOMAIN pending /\ final /\ e.isMetaPresent
  <2>1. /\ causes' = causes \cup {"metadata given twice"}
        /\ UNCHANGED <<pending, errors, nextShutter, nextResult, client>>
    BY <1>2, <1>7 DEF HandleCaptureResult
  <2>2. HandlerKeeps
    BY <1>0, <2>1 DEF HandlerKeeps, TypeOK, Causes
  <2>3. ASSUME Apart, r[2] \in DOMAIN pending => Known(r) PROVE FALSE
    BY <1>1, <1>7, <2>3 DEF Apart, Agrees, HalMoves
  <2> QED
    BY <1>1, <2>2, <2>3, MessageKept
<1>8. ASSUME n \in DOMAIN pending, Apart, Known(r)
      PROVE  /\ noted.buffersRemaining = Cardinality(hal'[r].owned)
             /\ noted.buffersRemaining \in Nat
  <2>1. e.buffersRemaining = Cardinality(hal[r].owned)
    BY <1>1, <1>8 DEF Apart, Agrees, HalMoves
  <2>2. hal[r].owned \in SUBSET (Outputs \cup {0})
    BY <1>0 DEF TypeOK, HalRequest
  <2>3. Cardinality(hal[r].owned \ bufs) = Cardinality(hal[r].owned) - count
    BY <2>2, BufferCount
  <2>4. Cardinality(hal[r].owned \ bufs) \in Nat
    BY <2>2, BufferCount
  <2> QED
    BY <1>1, <1>5, <1>8, <2>1, <2>3, <2>4
<1>9. CASE /\ n \in DOMAIN pending /\ ~(final /\ e.isMetaPresent)
           /\ noted.buffersRemaining < 0
  <2> DEFINE f == [noted EXCEPT !.sensorTS = e.sensorTS]
  <2>1. /\ causes' = causes \cup {"too many buffers"}
        /\ pending' = [pending EXCEPT ![n] = f] /\ client' = told
        /\ UNCHANGED <<errors, nextShutter, nextResult>>
    BY <1>2, <1>9 DEF HandleCaptureResult
  <2>2. f \in PendingRequest /\ f.kind = pending[n].kind
    BY <1>5, <1>9
  <2>3. told \in [Requests -> ClientRequest]
    BY <1>6, <1>9
  <2> HIDE DEF f, told
  <2>4. HandlerKeeps
    BY <1>0, <1>9, <2>1, <2>2, <2>3 DEF HandlerKeeps, TypeOK, Causes
  <2>5. ASSUME Apart, r[2] \in DOMAIN pending => Known(r) PROVE FALSE
    BY SMT, <1>8, <1>9, <2>5
  <2> QED
    BY <1>1, <2>4, <2>5, MessageKept
<1>10. CASE /\ n \in DOMAIN pending /\ ~(final /\ e.isMetaPresent)
            /\ ~(noted.buffersRemaining < 0)
  <2> DEFINE v == IF Shuttered(e) THEN y ELSE z
  <2>1. /\ UNCHANGED nextShutter
        /\ RemovePendingRequestLocked(v, n, failed)
    BY <1>2, <1>10 DEF HandleCaptureResult
  <2>2. /\ e \in PendingRequest /\ q \in Requests /\ count \in Nat
        /\ e.composedResult \in SUBSET Parts
        /\ outs \in SUBSET (Requests \X Outputs)
    BY <1>4, <1>10
  <2>3. /\ noted \in PendingRequest /\ noted.kind = e.kind
        /\ noted.pendingBuffers = e.pendingBuffers
        /\ noted.isMetaPresent => e.isMetaPresent \/ part = PartialResultCount
    BY <1>5, <1>10
  <2>4. back \in [Requests -> ClientRequest]
    BY <1>6, <1>10
  <2> HIDE DEF noted, back, e, outs
  <2>5. w \in Works /\ w.e = noted /\ w.client = back
    BY <1>0, <2>3, <2>4 DEF Works, Work, TypeOK
  <2> HIDE DEF w
  <2>6. x \in Works /\ x.e = noted /\ GivesNone(back, x.client)
    <3>1. CASE final
      <4>1. {part} \in SUBSET Parts
        BY <3>1, ResultsAssumption DEF Parts
      <4> QED
        BY SMT, <1>0, <2>2, <2>3, <2>5, <3>1, <4>1, SendKeeps
    <3>2. CASE ~final
      BY <2>5, <3>2 DEF GivesNone
    <3> QED
      BY <3>1, <3>2
  <2> HIDE DEF x
  <2>7. y \in Works /\ SameEntry(noted, y.e) /\ GivesBack(x.client, y.client, outs)
    <3>1. 1 \in {0, 1}
      OBVIOUS
    <3> QED
      BY <2>2, <2>6, <3>1, ReturnGives, Zenon
  <2> HIDE DEF y
  <2>8. /\ z \in Works /\ z.client = back /\ z.e.kind = noted.kind
        /\ z.e.buffersRemaining = noted.buffersRemaining
        /\ z.e.isMetaPresent = noted.isMetaPresent
        /\ z.e.pendingBuffers = e.pendingBuffers \cup outs
    <3> DEFINE f == Kept(noted, part, outs, e.composedResult)
    <3>1. /\ f \in PendingRequest /\ f.kind = noted.kind
          /\ f.buffersRemaining = noted.buffersRemaining
          /\ f.isMetaPresent = noted.isMetaPresent
          /\ f.pendingBuffers = noted.pendingBuffers \cup outs
      BY SMT, <2>2, <2>3, KeptGives
    <3> HIDE DEF f
    <3>2. z = [w EXCEPT !.e = f]
      BY DEF f
    <3> HIDE DEF z
    <3> QED
      BY <2>3, <2>5, <3>1, <3>2 DEF Works
  <2> HIDE DEF z
  <2>9. /\ v \in Works /\ v.e.kind = e.kind
        /\ v.e.buffersRemaining = noted.buffersRemaining
        /\ v.e.isMetaPresent = noted.isMetaPresent
    BY <2>3, <2>7, <2>8 DEF SameEntry
  <2>10. HandlerKeeps
    <3>1. v.e.kind = pending[n].kind
      BY <2>9 DEF e
    <3> HIDE DEF v
    <3> QED
      BY <1>0, <1>10, <2>1, <2>9, <3>1, RemoveGives DEF HandlerKeeps, TypeOK
  <2>11. ASSUME Apart, r[2] \in DOMAIN pending => Known(r) PROVE Settles(r)
    <3>1. Known(r) /\ Agrees(r) /\ Accounted(r) /\ r \in Sent /\ e.kind = r[1]
      BY <1>1, <1>10, <2>11 DEF Apart, HalMoves, Known, e
    <3>2. /\ e.isMetaPresent => PartialResultCount \in hal[r].parts
          /\ e.pendingBuffers \subseteq {r} \X (Outputs \ hal[r].owned)
      BY <3>1 DEF Agrees, e
    <3>3. outs = {r} \X (bufs \ {0})
      BY DEF OutputsReturned, outs
    <3>4. ASSUME NEW p \in Requests, NEW b \in Outputs \cup {0}
          PROVE  back[p].returned[b] =
                   IF p = r /\ b = 0 /\ 0 \in bufs THEN client[p].returned[b] + 1
                   ELSE client[p].returned[b]
      <4>1. told[p].returned = client[p].returned
        BY <1>6, <1>10 DEF GivesNone
      <4>2. CASE 0 \in bufs
        <5>1. GivesBack(told, back, {<<r, 0>>})
          BY <1>6, <1>10, <4>2
        <5>2. <<p, b>> \in {<<r, 0>>} <=> p = r /\ b = 0
          OBVIOUS
        <5> HIDE DEF told
        <5> QED
          BY <4>1, <4>2, <5>1, <5>2 DEF GivesBack
      <4>3. CASE 0 \notin bufs
        BY <1>6, <1>10, <4>1, <4>3
      <4> QED
        BY <4>2, <4>3
    <3>5. ASSUME NEW p \in Requests, NEW b \in Outputs \cup {0}
          PROVE  v.client[p].returned[b] =
                   IF Shuttered(e) /\ <<p, b>> \in outs
                   THEN back[p].returned[b] + 1 ELSE back[p].returned[b]
      <4>1. CASE Shuttered(e)
        <5>1. x.client[p].returned = back[p].returned
          BY <2>6 DEF GivesNone
        <5>2. y.client[p].returned[b] =
                IF <<p, b>> \in outs THEN x.client[p].returned[b] + 1
                ELSE x.client[p].returned[b]
          BY <2>7 DEF GivesBack
        <5> QED
          BY <4>1, <5>1, <5>2
      <4>2. CASE ~Shuttered(e)
        BY <2>8, <4>2
      <4> QED
        BY <4>1, <4>2
    <3>6. v.e.pendingBuffers = IF Shuttered(e) THEN e.pendingBuffers
                               ELSE e.pendingBuffers \cup outs
      BY <2>3, <2>7, <2>8 DEF SameEntry
    <3> HIDE DEF v
    <3>7. v.e.pendingBuffers \subseteq {r} \X (Outputs \ hal'[r].owned)
      <4>1. outs \subseteq {r} \X (Outputs \ hal'[r].owned)
        BY <1>1, <3>3
      <4>2. e.pendingBuffers \subseteq {r} \X (Outputs \ hal'[r].owned)
        BY <1>1, <3>2
      <4> QED
        BY <3>6, <4>1, <4>2
    <3>8. ASSUME NEW p \in Requests \ {r}, NEW b \in Outputs \cup {0}
          PROVE  v.client[p].returned[b] = client[p].returned[b]
      <4>1. <<p, b>> \notin outs
        BY <3>3
      <4> QED
        BY SMT, <3>4, <3>5, <4>1
    <3>9. ASSUME NEW b \in Buffers(r[1])
          PROVE  v.client[r].returned[b] =
                   IF b \in hal'[r].owned \/ <<r, b>> \in v.e.pendingBuffers
                   THEN 0 ELSE 1
      <4>1. b \in Outputs \cup {0}
        BY BuffersShape
      <4>2. client[r].returned[b] =
              IF b \in hal[r].owned \/ <<r, b>> \in e.pendingBuffers THEN 0 ELSE 1
        BY <1>1, <1>10, <3>1, <3>2 DEF Accounted, Held, e
      <4>3. /\ <<r, b>> \in outs <=> b \in bufs /\ b # 0
            /\ <<r, b>> \in e.pendingBuffers => b \notin hal[r].owned /\ b \in Outputs
        BY <3>2, <3>3
      <4>4. 0 \notin Outputs
        BY SMT, ResultsAssumption DEF Outputs
      <4>5. back[r].returned[b] =
              IF b = 0 /\ 0 \in bufs THEN client[r].returned[b] + 1
              ELSE client[r].returned[b]
        BY <3>4, <4>1
      <4>6. v.client[r].returned[b] =
              IF Shuttered(e) /\ <<r, b>> \in outs
              THEN back[r].returned[b] + 1 ELSE back[r].returned[b]
        BY <3>5, <4>1
      <4>7. CASE b \notin bufs
        BY <1>1, <3>6, <4>2, <4>3, <4>5, <4>6, <4>7
      <4>8. CASE b \in bufs /\ b = 0
        BY SMT, <1>1, <3>6, <4>2, <4>3, <4>4, <4>5, <4>6, <4>8
      <4>9. CASE b \in bufs /\ b # 0
        BY SMT, <1>1, <3>6, <4>2, <4>3, <4>5, <4>6, <4>9
      <4> QED
        BY <4>7, <4>8, <4>9
    <3>10. v.e.isMetaPresent => PartialResultCount \in hal'[r].parts
      <4>1. PartialResultCount # 0
        BY ResultsAssumption
      <4> QED
        BY <1>1, <2>3, <2>9, <3>2, <4>1
    <3>11. v.e.buffersRemaining = Cardinality(hal'[r].owned)
      BY <1>8, <1>10, <2>9, <2>11, <3>1
    <3>12. Fits(v, r)
      BY <3>7, <3>8, <3>9, <3>10, <3>11 DEF Fits
    <3> QED
      BY <1>0, <1>1, <2>1, <2>9, <3>1, <3>12, RemoveSettles
  <2> QED
    BY <1>1, <2>10, <2>11, MessageKept
<1> QED
  BY <1>3, <1>7, <1>9, <1>10

\* The registration and submission of a request keep the invariant.
LEMMA SubmitStep ==
  ASSUME IInv, NEW kind \in Kinds, SubmitRequest(kind)
  PROVE  IInv'
<1>0a. PICK n \in Nat : n = frames[kind] /\ n < FrameLimit[kind]
  BY DEF IInv, Basic, TypeOK, SubmitRequest
<1> DEFINE r == <<kind, n>>
<1>0. TypeOK /\ Basic
  BY DEF IInv, Basic
<1>1. r \in Requests /\ r \notin Sent /\ r[1] = kind /\ r[2] = n
  BY SMT, <1>0a, RequestShape DEF Sent
<1>2. PICK fault \in Faults \cup {"none"} :
        hal' = [hal EXCEPT ![r].fault = fault,
                           ![r].owned = IF fault = "unsent" THEN {}
                                        ELSE Buffers(kind)]
  BY <1>0a DEF SubmitRequest
<1>3. /\ pending' = [m \in DOMAIN pending \cup {n} |->
                       IF m = n THEN NewRequest(kind) ELSE pending[m]]
      /\ troubles' = IF \/ n \in DOMAIN pending
                        \/ \E q \in Sent : q[2] = n /\ HalOwes(q)
                     THEN troubles \cup {"shared"} ELSE troubles
      /\ frames' = [frames EXCEPT ![kind] = @ + 1]
      /\ UNCHANGED <<errors, nextShutter, nextResult, causes, flushing, client>>
  BY <1>0a DEF SubmitRequest, MarkPendingRequest
<1>4. /\ frames' \in [Kinds -> Nat] /\ frames'[kind] = n + 1
      /\ \A k \in Kinds \ {kind} : frames'[k] = frames[k]
      /\ \A k \in Kinds : frames'[k] <= FrameLimit[k]
  <2>1. frames \in [Kinds -> Nat] /\ \A k \in Kinds : frames[k] <= FrameLimit[k]
    BY <1>0 DEF Basic, TypeOK
  <2> QED
    BY SMT, <1>0a, <1>3, <2>1, ResultsAssumption
<1>5. Sent' = Sent \cup {r}
  <2>1. ASSUME NEW q \in Requests
        PROVE  q[2] < frames'[q[1]] <=> (q[2] < frames[q[1]] \/ q = r)
    <3>1. q[1] \in Kinds /\ q[2] \in Nat /\ q = <<q[1], q[2]>>
      BY RequestShape
    <3>2. frames \in [Kinds -> Nat]
      BY <1>0 DEF TypeOK
    <3>3. CASE q[1] = kind
      BY SMT, <1>0a, <1>4, <3>1, <3>2, <3>3
    <3>4. CASE q[1] # kind
      BY SMT, <1>4, <3>1, <3>2, <3>4
    <3> QED
      BY <3>3, <3>4
  <2> QED
    BY <1>1, <2>1 DEF Sent
<1>6. Buffers(kind) \in SUBSET (Outputs \cup {0})
  BY BuffersShape
<1> DEFINE O == IF fault = "unsent" THEN {} ELSE Buffers(kind)
           h == [hal[r] EXCEPT !.fault = fault, !.owned = O]
<1>7. O \in SUBSET (Outputs \cup {0}) /\ O \subseteq Buffers(kind)
  BY <1>6
<1>8. /\ hal' \in [Requests -> HalRequest]
      /\ hal'[r].fault = fault /\ hal'[r].owned = O
      /\ \A q \in Requests \ {r} : hal'[q] = hal[q]
  <2>1. hal \in [Requests -> HalRequest] /\ hal[r] \in HalRequest
    BY <1>0, <1>1 DEF TypeOK
  <2>2. hal' = [hal EXCEPT ![r] = h]
    BY <1>1, <1>2, <2>1
  <2> HIDE DEF O
  <2>3. h \in HalRequest /\ h.fault = fault /\ h.owned = O
    BY <1>7, <2>1 DEF HalRequest
  <2> HIDE DEF h, r
  <2> QED
    BY <1>1, <2>1, <2>2, <2>3
<1>9. /\ NewRequest(kind) \in PendingRequest
      /\ NewRequest(kind).kind = kind
      /\ NewRequest(kind).buffersRemaining = Cardinality(Buffers(kind))
      /\ NewRequest(kind).isMetaPresent = FALSE
      /\ NewRequest(kind).pendingBuffers = {}
  <2>1. Cardinality(Buffers(kind)) \in Int
    BY SMT, <1>6, BufferCount
  <2> QED
    BY <2>1 DEF NewRequest, PendingRequest
<1>10. /\ DOMAIN pending' = DOMAIN pending \cup {n}
       /\ pending'[n] = NewRequest(kind)
       /\ \A m \in DOMAIN pending \ {n} : pending'[m] = pending[m]
  BY <1>3
<1> HIDE DEF O, h
<1>11. Basic'
  <2>1. TypeOK'
    <3>1. DOMAIN pending' \subseteq Nat
      BY <1>0, <1>10 DEF TypeOK
    <3>2. \A m \in DOMAIN pending' : pending'[m] \in PendingRequest
      BY <1>0, <1>9, <1>10 DEF TypeOK
    <3>3. troubles' \subseteq {"shared", "unordered"}
      BY <1>0, <1>3 DEF TypeOK
    <3> QED
      BY <1>0, <1>3, <1>4, <1>8, <3>1, <3>2, <3>3 DEF TypeOK
  <2>2. \A m \in DOMAIN pending' : <<pending'[m].kind, m>> \in Sent'
    BY <1>0, <1>5, <1>9, <1>10 DEF Basic
  <2>3. \A q \in Requests \ Sent' : Fresh(q)'
    <3> SUFFICES ASSUME NEW q \in Requests \ Sent' PROVE Fresh(q)'
      OBVIOUS
    <3>1. hal'[q] = hal[q] /\ q \notin Sent
      BY <1>5, <1>8
    <3> QED
      BY <1>0, <3>1 DEF Basic, Fresh
  <2>4. \A q \in Requests : /\ hal'[q].owned \subseteq Buffers(q[1])
                            /\ hal'[q].fault = "unsent" => hal'[q].owned = {}
    <3> SUFFICES ASSUME NEW q \in Requests
                 PROVE  /\ hal'[q].owned \subseteq Buffers(q[1])
                        /\ hal'[q].fault = "unsent" => hal'[q].owned = {}
      OBVIOUS
    <3>1. CASE q = r
      BY <1>1, <1>7, <1>8, <3>1 DEF O
    <3>2. CASE q # r
      BY <1>0, <1>8, <3>2 DEF Basic
    <3> QED
      BY <3>1, <3>2
  <2> QED
    BY <1>4, <2>1, <2>2, <2>3, <2>4 DEF Basic
<1>12. ASSUME "shared" \notin troubles' PROVE Apart'
  <2>1. /\ n \notin DOMAIN pending /\ Apart
        /\ \A q \in Sent : q[2] = n => ~HalOwes(q)
    BY <1>3, <1>12 DEF IInv
  <2>2. \A q \in Requests \ Sent' :
          \A b \in Outputs \cup {0} : client'[q].returned[b] = 0
    BY <1>3, <1>5, <2>1 DEF Apart
  <2>3. /\ Known(r)' /\ Agrees(r)' /\ Accounted(r)'
    <3>1. Known(r)'
      BY <1>1, <1>9, <1>10 DEF Known
    <3>2. Agrees(r)'
      BY <1>1, <1>8, <1>9, <1>10 DEF Agrees, O
    <3>3. Held(r)' = {}
      BY <1>1, <1>9, <1>10 DEF Held
    <3>4. \A b \in Buffers(kind) : client'[r].returned[b] = 0
      BY <1>1, <1>3, <1>6, <2>1 DEF Apart
    <3>5. Accounted(r)'
      BY <1>1, <1>8, <3>3, <3>4 DEF Accounted, O
    <3> QED
      BY <3>1, <3>2, <3>5
  <2>4. ASSUME NEW q \in Sent
        PROVE  /\ Known(q)' => Agrees(q)'
               /\ ~Known(q)' => hal'[q].owned = {}
               /\ q[2] \in DOMAIN pending' /\ ~Known(q)' => ~HalOwes(q)'
               /\ Accounted(q)'
    <3>1. q \in Requests /\ q # r /\ q = <<q[1], q[2]>>
      BY <1>1, RequestShape DEF Sent
    <3>2. hal'[q] = hal[q] /\ client'[q] = client[q]
      BY <1>3, <1>8, <3>1
    <3>3. HalOwes(q)' = HalOwes(q)
      BY <3>2 DEF HalOwes, HalDone, NoShutter, NoResult
    <3>4. CASE q[2] # n
      <4>1. /\ q[2] \in DOMAIN pending' <=> q[2] \in DOMAIN pending
            /\ q[2] \in DOMAIN pending => pending'[q[2]] = pending[q[2]]
        BY <1>10, <3>4
      <4>2. Known(q)' = Known(q) /\ Held(q)' = Held(q)
        BY <4>1 DEF Known, Held
      <4>3. Known(q) => (Agrees(q)' <=> Agrees(q))
        BY <3>2, <4>1 DEF Agrees, Known
      <4>4. Accounted(q)' <=> Accounted(q)
        BY <3>2, <4>2 DEF Accounted
      <4> QED
        BY <2>1, <3>2, <3>3, <4>1, <4>2, <4>3, <4>4 DEF Apart
    <3>5. CASE q[2] = n
      <4>1. ~Known(q) /\ Held(q) = {}
        BY <2>1, <3>5 DEF Known, Held
      <4>2. q[1] # kind
        BY <3>1, <3>5
      <4>3. ~Known(q)'
        BY <1>9, <1>10, <3>5, <4>2 DEF Known
      <4>4. Held(q)' = {}
        BY <1>9, <1>10, <3>5 DEF Held
      <4>5. Accounted(q)'
        BY <2>1, <3>2, <4>1, <4>4 DEF Accounted, Apart
      <4> QED
        BY <2>1, <3>2, <3>3, <3>5, <4>1, <4>3, <4>5 DEF Apart
    <3> QED
      BY <3>4, <3>5
  <2> QED
    BY <1>5, <2>2, <2>3, <2>4 DEF Apart
<1> QED
  BY <1>11, <1>12 DEF IInv

\* A step that leaves all but flush_on_going_ alone keeps the invariant.
LEMMA IdleStep ==
  ASSUME IInv, flushing' \in BOOLEAN,
         UNCHANGED <<frames, pending, errors, nextShutter, nextResult, causes,
                     hal, client, troubles>>
  PROVE  IInv'
<1>1. TypeOK' /\ Sent' = Sent
  BY DEF IInv, Basic, TypeOK, Sent
<1>2. Basic'
  BY <1>1 DEF IInv, Basic, Fresh
<1>3. ASSUME NEW r \in Requests
      PROVE  /\ Known(r)' <=> Known(r)
             /\ Agrees(r)' <=> Agrees(r)
             /\ Held(r)' = Held(r)
             /\ HalOwes(r)' <=> HalOwes(r)
  <2>1. Known(r)' <=> Known(r)
    BY DEF Known
  <2>2. Agrees(r)' <=> Agrees(r)
    BY DEF Agrees
  <2>3. Held(r)' = Held(r)
    BY DEF Held
  <2>4. (NoShutter(r)' <=> NoShutter(r)) /\ (NoResult(r)' <=> NoResult(r))
    BY DEF NoShutter, NoResult
  <2>5. HalDone(r)' <=> HalDone(r)
    BY <2>4 DEF HalDone
  <2>6. HalOwes(r)' <=> HalOwes(r)
    BY <2>5 DEF HalOwes
  <2> QED
    BY <2>1, <2>2, <2>3, <2>6
<1>4. ASSUME NEW r \in Requests, Accounted(r) PROVE Accounted(r)'
  BY <1>3, <1>4 DEF Accounted
<1>5. Sent \subseteq Requests
  BY DEF Sent
<1>6. Apart => Apart'
  <2> SUFFICES ASSUME Apart PROVE Apart'
    OBVIOUS
  <2>1. ASSUME NEW r \in Sent
        PROVE  /\ Known(r)' => Agrees(r)'
               /\ ~Known(r)' => hal'[r].owned = {}
               /\ r[2] \in DOMAIN pending' /\ ~Known(r)' => ~HalOwes(r)'
               /\ Accounted(r)'
    BY <1>3, <1>4, <1>5, <2>1 DEF Apart
  <2>2. \A r \in Requests \ Sent' : \A b \in Outputs \cup {0} : client'[r].returned[b] = 0
    BY <1>1 DEF Apart
  <2> QED
    BY <1>1, <2>1, <2>2 DEF Apart
<1> QED
  BY <1>2, <1>6 DEF IInv

\* With no request taken, there is nothing to account for.
LEMMA InitIInv == Init => IInv
<1> SUFFICES ASSUME Init PROVE IInv
  OBVIOUS
<1>1. Sent = {}
  <2> SUFFICES ASSUME NEW r \in Requests PROVE ~(r[2] < frames[r[1]])
    BY DEF Sent
  <2>1. r[1] \in Kinds /\ r[2] \in Nat
    BY RequestShape
  <2> QED
    BY SMT, <2>1 DEF Init
<1>2. DOMAIN pending = {}
  BY DEF Init
<1>3. hal \in [Requests -> HalRequest]
  BY DEF Init, HalRequest
<1>4. client \in [Requests -> ClientRequest]
  BY DEF Init, ClientRequest
<1>5. TypeOK
  BY <1>2, <1>3, <1>4 DEF Init, TypeOK
<1>6. \A kind \in Kinds : frames[kind] <= FrameLimit[kind]
  BY SMT, ResultsAssumption DEF Init
<1>7. \A r \in Requests : Fresh(r)
  BY DEF Init, Fresh
<1>8. Basic
  BY <1>1, <1>2, <1>5, <1>6, <1>7 DEF Basic, Fresh
<1>9. Apart
  BY <1>1 DEF Init, Apart
<1> QED
  BY <1>8, <1>9 DEF IInv

\* Every step keeps the invariant.
LEMMA IInvStep == IInv /\ [Next]_vars => IInv'
<1> SUFFICES ASSUME IInv, [Next]_vars PROVE IInv'
  OBVIOUS
<1>1. ASSUME NEW kind \in Kinds, SubmitRequest(kind) PROVE IInv'
  BY <1>1, SubmitStep
<1>2. CASE Flush
  BY <1>2, IdleStep DEF Flush
<1>3. ASSUME NEW r \in Requests, HalShutter(r) PROVE IInv'
  BY <1>3, ShutterStep
<1>4. ASSUME NEW r \in Requests, HalError(r) PROVE IInv'
  BY <1>4, ErrorStep
<1>5. ASSUME NEW r \in Requests, NEW part \in Parts \cup {0},
             NEW bufs \in SUBSET hal[r].owned, NEW bad \in SUBSET (bufs \ {0}),
             HalResult(r, part, bufs, bad)
      PROVE  IInv'
  BY <1>5, ResultStep
<1>6. CASE UNCHANGED vars
  BY <1>6, IdleStep DEF vars, IInv, Basic, TypeOK
<1> QED
  BY <1>1, <1>2, <1>3, <1>4, <1>5, <1>6 DEF Next

LEMMA IInvariant == Spec => []IInv
BY InitIInv, IInvStep, PTL DEF Spec

\* Type correctness of the request table and of what the HAL and the client
\* have of the requests, whatever the HAL does.
THEOREM TypeCorrect == Spec => []TypeOK
<1>1. IInv => TypeOK
  BY DEF IInv, Basic
<1> QED
  BY <1>1, IInvariant, PTL

\* NotifyShutter, HandleCaptureResult and RemovePendingRequestLocked between
\* them give every buffer the HAL was given back to the client exactly once:
\* for any number of requests, buffers and parts, any order of messages and
\* any errors, unless a frame number is in use by two requests.
THEOREM EveryBufferReturnedOnce == Spec => []BuffersReturnedOnce
<1>1. IInv => BuffersReturnedOnce
  BY DEF IInv, Apart, Accounted, BuffersReturnedOnce
<1> QED
  BY <1>1, IInvariant, PTL
=============================================================================
