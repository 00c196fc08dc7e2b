--------------------- MODULE Camera3ResultsServed_proofs ---------------------
(***************************************************************************)
(* Proofs that the handlers of Camera3Results serve every request, for any *)
(* number of requests, buffers and metadata parts: what the client hears   *)
(* of a request, that none of its buffers is left behind, and that a HAL   *)
(* that keeps its contract never puts the device in STATE_ERROR.           *)
(***************************************************************************)
EXTENDS Camera3Results_proofs

USE Zenon

Last == PartialResultCount

\* What an entry e says of a request, of which the client has c and the HAL h.
\* Until the shutter it keeps all that came; the last part empties it after.
EntryFits(e, c, h) ==
  /\ e.isMetaPresent <=> Last \in h.parts
  /\ e.sensorTS <=> TimestampPart \in h.parts
  /\ e.shutterTS => /\ c.shutters = 1 /\ e.pendingBuffers = {}
                    /\ Last \notin h.parts => e.composedResult = h.parts
  /\ ~e.shutterTS => /\ e.pendingMetadata = h.parts \cap {Last}
                     /\ e.composedResult = h.parts \ {Last}
  /\ h.fault = "none" => e.status = "OK"
  /\ h.notified => e.status # "OK"

\* What the client was told of a request: no result or buffer before the
\* shutter, and no partial result that is not in the result.
Told(c, h) ==
  /\ c.shutters = 0 \/ (c.shutters = 1 /\ h.shutter)
  /\ c.partial \subseteq h.parts \ {Last}
  /\ c.results > 0 => c.shutters = 1 /\ Last \in h.parts /\ c.partial \subseteq c.result
  /\ \A b \in Outputs : c.returned[b] > 0 /\ b \notin c.unstamped => c.shutters = 1

\* All that the client could have been told of it by now.
Served(c, h) ==
  /\ c.shutters = IF h.shutter THEN 1 ELSE 0
  /\ h.shutter /\ Last \in h.parts => c.results = 1 /\ c.result = h.parts
  /\ ~(h.shutter /\ Last \in h.parts) => c.results = 0
  /\ c.unstamped = {}

\* What the HAL's contract says of a request.
HalKeeps(h) ==
  /\ Last \in h.parts => TimestampPart \in h.parts
  /\ h.fault \notin {"REQUEST", "BUFFER"} => h.failed = {}
  /\ h.notified => h.fault \in {"REQUEST", "RESULT", "BUFFER"}

\* When no frame number was shared: the entry and the client's records are
\* right, and a request that was told of its error in time waits for buffers.
Fitting(r) ==
  /\ Told(client[r], hal[r])
  /\ Known(r) => EntryFits(pending[r[2]], client[r], hal[r])
  /\ Known(r) /\ hal[r].notified /\ ~hal[r].late => hal[r].owned # {}

\* When the HAL also answers in order: a request without fault is pending
\* until the HAL is done, and the client knows what the HAL has said.
Clean(r) ==
  /\ Known(r) <=> ~HalDone(r)
  /\ Known(r) => (pending[r[2]].shutterTS <=> hal[r].shutter)
  /\ Served(client[r], hal[r])

\* In order, too, are the numbers of the next shutter and the next result.
HalInTurn ==
  \A r \in Requests : \A q \in Earlier(r) :
    /\ hal[r].shutter => hal[q].shutter \/ NoShutter(q)
    /\ Last \in hal[r].parts => Last \in hal[q].parts \/ NoResult(q)
ShuttersInTurn(h, next) ==
  \A r \in Requests : ~h[r].shutter /\ h[r].fault \notin {"REQUEST", "unsent"}
                        => next[r[1]] <= r[2]
ResultsInTurn(h, next) ==
  \A r \in Requests : /\ ~(h[r].shutter /\ Last \in h[r].parts)
                       /\ h[r].fault \notin {"REQUEST", "RESULT", "unsent"}
                       => next[r[1]] <= r[2]
InTurn == HalInTurn /\ ShuttersInTurn(hal, nextShutter) /\ ResultsInTurn(hal, nextResult)

\* The inductive invariant, together with IInv.
JInv ==
  /\ \A r \in Requests : HalKeeps(hal[r]) /\ (r \notin Sent => ~hal[r].shutter)
  /\ "shared" \notin troubles =>
       /\ \A r \in Requests : Fitting(r)
       /\ \A r \in Requests \ Sent : client[r].unstamped = {}
  /\ troubles = {} => InTurn /\ \A r \in Sent : hal[r].fault = "none" => Clean(r)
  /\ troubles = {} /\ Faulty = {} => causes = {}

\* The client's record of a request is the same, field by field.
SameTold(c, d) ==
  /\ d.shutters = c.shutters /\ d.results = c.results /\ d.result = c.result
  /\ d.partial = c.partial
Same(c, d) ==
  /\ SameTold(c, d) /\ d.unstamped = c.unstamped
  /\ \A b \in Outputs \cup {0} : d.returned[b] = c.returned[b]
\* The buffers of request q among bufs.
Of(q, bufs) == {b \in Outputs : <<q, b>> \in bufs}
\* From c to d, the buffers in bufs are marked as returned without timestamp.
Marks(c, d, bufs) == d.unstamped = c.unstamped \cup bufs

\* From work record w to x, the result of q was not sent, for want of metadata,
\* of its turn or of a timestamp ...
HeldBack(w, x, q, metadata, collected) ==
  /\ x.client[q].results = w.client[q].results /\ x.client[q].result = w.client[q].result
  /\ x.next = w.next \/ (metadata # {} /\ x.next = [w.next EXCEPT ![q[1]] = q[2] + 1])
  /\ metadata = {} => x.causes = w.causes
  /\ metadata # {} => q[2] < w.next[q[1]] \/ TimestampPart \notin metadata \cup collected
\* ... or it was.
PassedOn(w, x, q, metadata, collected) ==
  /\ metadata # {} /\ x.client[q].results = w.client[q].results + 1
  /\ x.client[q].result = metadata \cup collected
  /\ x.next = [w.next EXCEPT ![q[1]] = q[2] + 1] /\ x.causes = w.causes

\* From w to x, the buffers bufs of q are returned.
Returned(w, x, q, bufs, failed, timestamp) ==
  /\ \A p \in Requests \ {q} : Same(w.client[p], x.client[p])
  /\ SameTold(w.client[q], x.client[q])
  /\ timestamp = 1 => x.client[q].unstamped = w.client[q].unstamped
  /\ timestamp = 0 => Marks(w.client[q], x.client[q], Of(q, bufs))
  /\ x.e = [w.e EXCEPT !.status = x.e.status]
  /\ x.e.status # w.e.status => x.e.status = "BUFFER" /\ bufs \cap failed # {}

-----------------------------------------------------------------------------
(* What the shared steps of the handlers tell the client.                  *)

\* SendCaptureResult: a result is sent if there is metadata, it is its turn
\* and it has a timestamp; nobody else hears of it.
LEMMA SendTells ==
  ASSUME NEW w \in Works, NEW n \in Nat, NEW q \in Requests, q = <<w.e.kind, n>>,
         NEW metadata \in SUBSET Parts, NEW collected \in SUBSET Parts,
         NEW x, x = SendCaptureResult(w, n, metadata, collected)
  PROVE  /\ \A p \in Requests \ {q} : x.client[p] = w.client[p]
         /\ x.client[q].shutters = w.client[q].shutters
         /\ x.client[q].partial = w.client[q].partial
         /\ x.client[q].unstamped = w.client[q].unstamped
         /\ x.client[q].returned = w.client[q].returned
         /\ HeldBack(w, x, q, metadata, collected) \/ PassedOn(w, x, q, metadata, collected)
<1>0. /\ w.client \in [Requests -> ClientRequest] /\ w.client[q] \in ClientRequest
  BY DEF Works
<1>0a. q[1] = w.e.kind /\ q[2] = n
  OBVIOUS
<1>1. CASE metadata = {}
  BY <1>1 DEF SendCaptureResult, HeldBack
<1>2. CASE metadata # {} /\ n < w.next[w.e.kind]
  BY <1>0, <1>0a, <1>2 DEF SendCaptureResult, Works, HeldBack
<1> DEFINE next == [w.next EXCEPT ![w.e.kind] = n + 1]
<1>4. CASE /\ metadata # {} /\ ~(n < w.next[w.e.kind])
           /\ TimestampPart \notin metadata \cup collected
  <2>1. x = [w EXCEPT !.next = next, !.causes = w.causes \cup {"no timestamp"}]
    BY <1>0, <1>4 DEF SendCaptureResult, Works
  <2>2. x.client = w.client /\ x.next = next
    BY <2>1 DEF Works
  <2> QED
    BY <1>0a, <1>4, <2>2 DEF HeldBack
<1>5. CASE /\ metadata # {} /\ ~(n < w.next[w.e.kind])
           /\ TimestampPart \in metadata \cup collected
  <2> DEFINE m == w.client[q].results + 1
             s == metadata \cup collected
             c == [w.client[q] EXCEPT !.results = m, !.result = s]
  <2>1. x = [w EXCEPT !.next = next, !.client = [w.client EXCEPT ![q] = c]]
    BY <1>0, <1>5 DEF SendCaptureResult, Works
  <2>2. /\ x.client = [w.client EXCEPT ![q] = c] /\ x.next = next /\ x.causes = w.causes
    BY <2>1 DEF Works
  <2> HIDE DEF m, s
  <2>3. /\ c.results = m /\ c.result = s /\ c.shutters = w.client[q].shutters
        /\ c.partial = w.client[q].partial /\ c.unstamped = w.client[q].unstamped
        /\ c.returned = w.client[q].returned
    BY <1>0 DEF ClientRequest
  <2> HIDE DEF c, next
  <2>4. x.client[q] = c /\ \A p \in Requests \ {q} : x.client[p] = w.client[p]
    BY <1>0, <2>2
  <2> QED
    BY <1>0a, <1>5, <2>2, <2>3, <2>4 DEF m, s, next, PassedOn
<1> QED
  BY <1>1, <1>2, <1>4, <1>5

\* ReturnOutputBuffers for buffers of one request q: they are marked when
\* there is no timestamp, and an error among them is the request's status.
LEMMA ReturnTells ==
  ASSUME NEW w \in Works, NEW q \in Requests, NEW bufs \in SUBSET ({q} \X Outputs),
         NEW failed, NEW timestamp \in {0, 1}, NEW x,
         x = ReturnOutputBuffers(w, bufs, failed, timestamp)
  PROVE  Returned(w, x, q, bufs, failed, timestamp)
<1>0. w.e \in PendingRequest /\ w.client \in [Requests -> ClientRequest]
  BY DEF Works
<1> DEFINE c(r) == ReturnBufferToClient(w.client[r], Of(r, bufs), timestamp)
           s == IF bufs \cap failed # {} /\ ~flushing THEN "BUFFER" ELSE w.e.status
<1>1. x = [w EXCEPT !.client = [r \in Requests |-> c(r)],
                    !.e = [w.e EXCEPT !.status = s]]
  BY <1>0 DEF ReturnOutputBuffers, Works, Of
<1> HIDE DEF c, s
<1>2. /\ x.client = [r \in Requests |-> c(r)] /\ x.e = [w.e EXCEPT !.status = s]
  BY <1>1 DEF Works
<1>3. x.e.status = s
  BY <1>0, <1>2 DEF PendingRequest
<1>4. s # w.e.status => s = "BUFFER" /\ bufs \cap failed # {}
  BY DEF s
<1>5. ASSUME NEW r \in Requests
      PROVE  /\ SameTold(w.client[r], c(r))
             /\ timestamp = 1 => c(r).unstamped = w.client[r].unstamped
             /\ timestamp = 0 => Marks(w.client[r], c(r), Of(r, bufs))
  <2>1. w.client[r] \in ClientRequest
    BY <1>0
  <2> QED
    BY SMT, <2>1 DEF c, ReturnBufferToClient, SameTold, ClientRequest, Marks
<1>6. ASSUME NEW p \in Requests \ {q}
      PROVE  Same(w.client[p], x.client[p])
  <2>1. Of(p, bufs) = {}
    BY DEF Of
  <2>2. \A b \in Outputs \cup {0} : x.client[p].returned[b] = w.client[p].returned[b]
    <3>1. bufs \in SUBSET (Requests \X Outputs)
      OBVIOUS
    <3>2. GivesBack(w.client, x.client, bufs)
      BY <3>1, ReturnGives, Zenon
    <3> QED
      BY <3>2 DEF GivesBack
  <2>3. x.client[p].unstamped = w.client[p].unstamped
    BY <1>2, <1>5, <2>1 DEF Marks
  <2> QED
    BY <1>2, <1>5, <2>2, <2>3 DEF Same
<1> QED
  BY <1>2, <1>3, <1>4, <1>5, <1>6 DEF Returned

\* RemovePendingRequestLocked: a complete entry goes, and the buffers it kept
\* are returned without a timestamp; any other stays.
LEMMA RemoveTells ==
  ASSUME TypeOK, NEW r \in Requests, r[2] \in DOMAIN pending, NEW w \in Works, NEW failed,
         w.e.pendingBuffers \in SUBSET ({r} \X Outputs),
         RemovePendingRequestLocked(w, r[2], failed)
  PROVE  /\ nextResult' = w.next
         /\ causes' = w.causes \/ (Complete(w.e) /\ w.e.status = "OK" /\ ~w.e.sensorTS)
         /\ \A q \in Requests \ {r} : Same(w.client[q], client'[q])
         /\ SameTold(w.client[r], client'[r])
         /\ Complete(w.e) =>
              /\ r[2] \notin DOMAIN pending'
              /\ Marks(w.client[r], client'[r], Of(r, w.e.pendingBuffers))
              /\ \A b \in Outputs : <<r, b>> \notin w.e.pendingBuffers
                                      => client'[r].returned[b] = w.client[r].returned[b]
         /\ ~Complete(w.e) => /\ r[2] \in DOMAIN pending' /\ pending'[r[2]] = w.e
                              /\ client' = w.client
<1> DEFINE z == ReturnOutputBuffers(w, w.e.pendingBuffers, failed, 0)
           x == IF Complete(w.e) THEN z ELSE w
<1>0. z = ReturnOutputBuffers(w, w.e.pendingBuffers, failed, 0)
  OBVIOUS
<1> HIDE DEF z
<1>1. /\ \A p \in Requests \ {r} : Same(w.client[p], z.client[p])
      /\ SameTold(w.client[r], z.client[r])
      /\ Marks(w.client[r], z.client[r], Of(r, w.e.pendingBuffers))
  <2> DEFINE B == w.e.pendingBuffers
  <2>1. z = ReturnOutputBuffers(w, B, failed, 0) /\ B \in SUBSET ({r} \X Outputs)
    BY <1>0
  <2> HIDE DEF B
  <2>2. /\ \A p \in Requests \ {r} : Same(w.client[p], z.client[p])
        /\ SameTold(w.client[r], z.client[r])
        /\ Marks(w.client[r], z.client[r], Of(r, B))
    <3>1. 0 \in {0, 1}
      OBVIOUS
    <3>2. Returned(w, z, r, B, failed, 0)
      BY <2>1, <3>1, ReturnTells
    <3> QED
      BY <3>2 DEF Returned
  <2> QED
    BY <2>2 DEF B
<1>2. /\ z.next = w.next /\ z.causes = w.causes
      /\ GivesBack(w.client, z.client, w.e.pendingBuffers)
  <2>1. w.e.pendingBuffers \in SUBSET (Requests \X Outputs)
    OBVIOUS
  <2> QED
    BY SMT, <1>0, <2>1, ReturnGives
<1>3. client' = x.client /\ nextResult' = x.next
  BY DEF RemovePendingRequestLocked, z
<1>4. causes' = x.causes \/ (Complete(w.e) /\ w.e.status = "OK" /\ ~w.e.sensorTS)
  BY DEF RemovePendingRequestLocked, z
<1>5. pending' = IF Complete(w.e) THEN [m \in DOMAIN pending \ {r[2]} |-> pending[m]]
                 ELSE [pending EXCEPT ![r[2]] = x.e]
  BY DEF RemovePendingRequestLocked, z
<1>6. CASE Complete(w.e)
  <2>1. client' = z.client /\ nextResult' = w.next
    BY <1>2, <1>3, <1>6
  <2>2. causes' = w.causes \/ (Complete(w.e) /\ w.e.status = "OK" /\ ~w.e.sensorTS)
    BY <1>2, <1>4, <1>6
  <2>3. r[2] \notin DOMAIN pending'
    BY <1>5, <1>6
  <2>4. \A b \in Outputs : <<r, b>> \notin w.e.pendingBuffers
                             => z.client[r].returned[b] = w.client[r].returned[b]
    BY <1>2 DEF GivesBack
  <2> QED
    BY <1>1, <1>6, <2>1, <2>2, <2>3, <2>4
<1>7. CASE ~Complete(w.e)
  <2>1. client' = w.client /\ nextResult' = w.next /\ causes' = w.causes
    BY <1>3, <1>4, <1>7
  <2>2. r[2] \in DOMAIN pending' /\ pending'[r[2]] = w.e
    BY <1>5, <1>7
  <2> QED
    BY <1>7, <2>1, <2>2 DEF Same, SameTold
<1> QED
  BY <1>6, <1>7
-----------------------------------------------------------------------------
(* What a message about one request leaves alone, and what it must do.     *)

\* Nothing of q has changed.
Untouched(q) ==
  /\ hal'[q] = hal[q] /\ Same(client[q], client'[q]) /\ (Known(q)' <=> Known(q))
  /\ Known(q) => pending'[q[2]] = pending[q[2]]

\* A request that is not touched is as well off as before.
LEMMA UntouchedKept ==
  ASSUME NEW q \in Requests, Untouched(q)
  PROVE  /\ Fitting(q) => Fitting(q)'
         /\ Clean(q) => Clean(q)'
<1>1. Told(client[q], hal[q]) => Told(client'[q], hal'[q])
  BY DEF Untouched, Same, SameTold, Told
<1>2. /\ Known(q)' <=> Known(q)
      /\ hal'[q] = hal[q]
      /\ Known(q) => pending'[q[2]] = pending[q[2]]
  BY DEF Untouched
<1>3. Known(q) /\ EntryFits(pending[q[2]], client[q], hal[q])
        => EntryFits(pending'[q[2]], client'[q], hal'[q])
  BY <1>2 DEF Untouched, Same, SameTold, EntryFits
<1>4. Served(client[q], hal[q]) => Served(client'[q], hal'[q])
  BY DEF Untouched, Same, SameTold, Served
<1>5. HalDone(q)' <=> HalDone(q)
  BY <1>2 DEF HalDone, NoShutter, NoResult
<1>6. ASSUME Fitting(q) PROVE Fitting(q)'
  BY <1>1, <1>2, <1>3, <1>6 DEF Fitting
<1>7. ASSUME Clean(q) PROVE Clean(q)'
  BY <1>2, <1>4, <1>5, <1>7 DEF Clean
<1> QED
  BY <1>6, <1>7

\* The HAL's record of r moves on, within its contract.
Moves(r) ==
  /\ HalMoves(r) /\ HalKeeps(hal'[r]) /\ "shared" \notin troubles'
  /\ IInv /\ IInv'

\* What a handler has when it gets to RemovePendingRequestLocked for r.
Ready(w, r) ==
  /\ w \in Works /\ w.e.kind = r[1] /\ w.e.pendingBuffers \in SUBSET ({r} \X Outputs)
  /\ \A q \in Requests \ {r} : Same(client[q], w.client[q])
  /\ Told(w.client[r], hal'[r]) /\ EntryFits(w.e, w.client[r], hal'[r])
  /\ troubles' = {} /\ hal[r].fault = "none" =>
       (w.e.shutterTS <=> hal'[r].shutter) /\ Served(w.client[r], hal'[r])
  /\ troubles' = {} => ResultsInTurn(hal', w.next)
  /\ troubles' = {} /\ Faulty = {} => w.causes = {}

\* What it leaves behind.
Settled(r) ==
  /\ \A q \in Requests \ {r} : Untouched(q)
  /\ Fitting(r)'
  /\ troubles' = {} /\ hal[r].fault = "none" => Clean(r)'
  /\ troubles' = {} => ResultsInTurn(hal', nextResult')
  /\ troubles' = {} /\ Faulty = {} => causes' = {}

\* An entry that agrees with the HAL's record and stays is not complete, one
\* that goes leaves nothing to come.
LEMMA RemoveReady ==
  ASSUME NEW r \in Requests, Moves(r), Known(r), NEW w, Ready(w, r), NEW failed,
         RemovePendingRequestLocked(w, r[2], failed)
  PROVE  Settled(r)
<1> DEFINE e == w.e
           c == w.client[r]
           h == hal'[r]
<1>0. /\ TypeOK /\ TypeOK' /\ Apart' /\ r \in Sent' /\ r[2] \in DOMAIN pending
      /\ pending[r[2]].kind = r[1] /\ h \in HalRequest /\ h.fault = hal[r].fault
      /\ \A q \in Requests \ {r} : hal'[q] = hal[q]
      /\ h.owned \in SUBSET (Outputs \cup {0})
  <2>1. TypeOK /\ TypeOK' /\ Apart'
    BY DEF Moves, IInv, Basic
  <2>2. r \in Sent'
    BY DEF Moves, HalMoves, Sent
  <2>3. h \in HalRequest
    BY DEF Moves, HalMoves
  <2>4. h.owned \in SUBSET (Outputs \cup {0})
    BY <2>3 DEF HalRequest
  <2> QED
    BY <2>1, <2>2, <2>3, <2>4 DEF Known, Moves, HalMoves
<1>1. /\ nextResult' = w.next
      /\ causes' = w.causes \/ (Complete(e) /\ e.status = "OK" /\ ~e.sensorTS)
      /\ \A q \in Requests \ {r} : Same(w.client[q], client'[q])
      /\ SameTold(c, client'[r])
      /\ Complete(e) =>
           /\ r[2] \notin DOMAIN pending'
           /\ Marks(c, client'[r], Of(r, e.pendingBuffers))
           /\ \A b \in Outputs : <<r, b>> \notin e.pendingBuffers
                                   => client'[r].returned[b] = c.returned[b]
      /\ ~Complete(e) => /\ r[2] \in DOMAIN pending' /\ pending'[r[2]] = e
                         /\ client' = w.client
  BY <1>0, RemoveTells DEF Ready
<1>2. \A q \in Requests \ {r} : Untouched(q)
  <2> TAKE q \in Requests \ {r}
  <2>1. Same(client[q], client'[q])
    BY SMT, <1>1 DEF Ready, Same, SameTold
  <2>2. /\ \A m \in DOMAIN pending' : pending'[m].kind = pending[m].kind
        /\ DOMAIN pending' \subseteq DOMAIN pending
        /\ \A m \in DOMAIN pending \ {r[2]} : m \in DOMAIN pending' /\ pending'[m] = pending[m]
    BY SMT, <1>0, RemoveGives DEF Ready
  <2>3. q[2] = r[2] => ~Known(q) /\ ~Known(q)'
    <3>1. q[2] = r[2] => q[1] # r[1]
      BY RequestShape
    <3> QED
      BY <1>0, <2>2, <3>1 DEF Known
  <2>4. q[2] # r[2] => (Known(q)' <=> Known(q)) /\ (Known(q) => pending'[q[2]] = pending[q[2]])
    BY <2>2 DEF Known
  <2> QED
    BY <1>0, <2>1, <2>3, <2>4 DEF Untouched
<1>3. EntryFits(e, c, h) /\ Told(c, h) /\ HalKeeps(h)
  BY DEF Ready, Moves
<1>4. Told(client'[r], h)
  <2>1. CASE Complete(e)
    <3>1. ASSUME NEW b \in Outputs, client'[r].returned[b] > 0, b \notin client'[r].unstamped
          PROVE  c.returned[b] > 0 /\ b \notin c.unstamped
      BY <1>1, <2>1, <3>1 DEF Marks, Of
    <3> QED
      BY <1>1, <1>3, <3>1 DEF Told, SameTold
  <2>2. CASE ~Complete(e)
    BY <1>1, <1>3, <2>2
  <2> QED
    BY <2>1, <2>2
<1>5. CASE Complete(e)
  <2>1. ~Known(r)' /\ h.owned = {}
    BY <1>0, <1>1, <1>5 DEF Known, Apart
  <2>2. Fitting(r)'
    BY <1>4, <2>1 DEF Fitting
  <2>3. ASSUME troubles' = {}, hal[r].fault = "none"
        PROVE  Clean(r)'
    <3>1. e.status = "OK" /\ e.isMetaPresent /\ e.shutterTS /\ e.pendingBuffers = {}
      BY <1>0, <1>3, <1>5, <2>3 DEF EntryFits, Complete
    <3>2. h.shutter /\ Last \in h.parts /\ Served(c, h)
      BY <1>3, <2>3, <3>1 DEF EntryFits, Ready
    <3>3. HalDone(r)'
      BY <2>1, <3>2 DEF HalDone, Last
    <3>4. client'[r].unstamped = c.unstamped
      BY <1>1, <1>5, <3>1 DEF Marks, Of
    <3>5. Served(client'[r], h)
      BY <1>1, <3>2, <3>4 DEF Served, SameTold
    <3> QED
      BY <2>1, <3>3, <3>5 DEF Clean
  <2>4. ASSUME troubles' = {}, Faulty = {}
        PROVE  causes' = {}
    <3>1. e.status = "OK" => e.sensorTS
      BY <1>3, <1>5 DEF EntryFits, HalKeeps, Complete
    <3> QED
      BY <1>1, <2>4, <3>1 DEF Ready
  <2> QED
    BY <1>1, <1>2, <2>2, <2>3, <2>4 DEF Settled, Ready
<1>6. CASE ~Complete(e)
  <2>1. Known(r)' /\ pending'[r[2]] = e /\ client'[r] = c
    BY <1>0, <1>1, <1>6 DEF Known, Ready
  <2>2. h.fault # "unsent" => e.buffersRemaining = Cardinality(h.owned)
    BY <1>0, <2>1 DEF Apart, Agrees
  <2>3. Cardinality(h.owned) = 0 <=> h.owned = {}
    BY <1>0, BufferCount
  <2>4. h.notified => h.owned # {}
    BY <1>3, <1>6, <2>2, <2>3 DEF HalKeeps, EntryFits, Complete
  <2>5. Fitting(r)'
    BY <1>3, <2>1, <2>4 DEF Fitting
  <2>6. ASSUME troubles' = {}, hal[r].fault = "none"
        PROVE  Clean(r)'
    <3>1. (e.shutterTS <=> h.shutter) /\ Served(c, h)
      BY <2>6 DEF Ready
    <3>2. e.status = "OK" /\ e.buffersRemaining = Cardinality(h.owned)
      BY <1>0, <1>3, <2>2, <2>6 DEF EntryFits
    <3>3. ~(h.owned = {} /\ h.shutter /\ Last \in h.parts)
      BY <1>3, <1>6, <2>3, <3>1, <3>2 DEF EntryFits, Complete
    <3>4. ~HalDone(r)'
      BY <1>0, <2>6, <3>3 DEF HalDone, NoShutter, NoResult, Last
    <3> QED
      BY <2>1, <3>1, <3>4 DEF Clean
  <2>7. troubles' = {} /\ Faulty = {} => causes' = {}
    BY <1>1, <1>6 DEF Ready
  <2> QED
    BY <1>1, <1>2, <2>5, <2>6, <2>7 DEF Settled, Ready
<1> QED
  BY <1>5, <1>6

\* A message that settles its request keeps the invariant.
LEMMA SettledKeeps ==
  ASSUME JInv, NEW r \in Requests, HalMoves(r), HalKeeps(hal'[r]),
         "shared" \notin troubles' => Settled(r),
         troubles' = {} => HalInTurn' /\ ShuttersInTurn(hal', nextShutter')
  PROVE  JInv'
<1>1. /\ Sent' = Sent /\ r \in Sent /\ troubles \subseteq troubles'
      /\ \A q \in Requests \ {r} : hal'[q] = hal[q]
      /\ hal'[r].fault = hal[r].fault
  BY DEF HalMoves, Sent
<1>2. \A q \in Requests : HalKeeps(hal'[q]) /\ (q \notin Sent' => ~hal'[q].shutter)
  BY <1>1 DEF JInv
<1>3. ASSUME "shared" \notin troubles'
      PROVE  /\ \A q \in Requests : Fitting(q)'
             /\ \A q \in Requests \ Sent' : client'[q].unstamped = {}
  <2>1. Settled(r) /\ (\A q \in Requests : Fitting(q))
        /\ (\A q \in Requests \ Sent : client[q].unstamped = {})
    BY <1>1, <1>3 DEF JInv
  <2>2. \A q \in Requests : Fitting(q)'
    BY <2>1, UntouchedKept DEF Settled
  <2>3. \A q \in Requests \ Sent' : client'[q].unstamped = {}
    BY <1>1, <2>1 DEF Settled, Untouched, Same
  <2> QED
    BY <2>2, <2>3
<1>4. ASSUME troubles' = {}
      PROVE  InTurn' /\ \A q \in Sent' : hal'[q].fault = "none" => Clean(q)'
  <2>1. troubles = {} /\ Settled(r)
    BY <1>1, <1>4
  <2>2. InTurn'
    BY <1>4, <2>1 DEF InTurn, Settled
  <2>3. ASSUME NEW q \in Sent', hal'[q].fault = "none" PROVE Clean(q)'
    <3>1. q \in Requests /\ q \in Sent
      BY <1>1 DEF Sent
    <3>2. CASE q = r
      BY <1>1, <1>4, <2>1, <2>3, <3>2 DEF Settled
    <3>3. CASE q # r
      <4>1. Clean(q)
        BY <1>1, <2>1, <2>3, <3>1, <3>3 DEF JInv
      <4> QED
        BY <2>1, <3>1, <3>3, <4>1, UntouchedKept DEF Settled
    <3> QED
      BY <3>2, <3>3
  <2> QED
    BY <2>2, <2>3
<1>5. Faulty' = Faulty
  BY <1>1 DEF Faulty
<1>6. troubles' = {} /\ Faulty' = {} => causes' = {}
  BY <1>5 DEF Settled
<1> QED
  BY <1>2, <1>3, <1>4, <1>6 DEF JInv

\* The numbers stay in turn when the HAL only goes on, and when the next one
\* is set for a request that has had its shutter and its last part.
LEMMA StayInTurn ==
  ASSUME TypeOK, NEW r \in Requests, HalMoves(r), HalInTurn',
         hal[r].shutter => hal'[r].shutter, hal[r].parts \subseteq hal'[r].parts,
         NEW next \in [Kinds -> Nat]
  PROVE  /\ ShuttersInTurn(hal, next) => ShuttersInTurn(hal', next)
         /\ ShuttersInTurn(hal, next) /\ hal'[r].shutter =>
              ShuttersInTurn(hal', [next EXCEPT ![r[1]] = r[2] + 1])
         /\ ResultsInTurn(hal, next) => ResultsInTurn(hal', next)
         /\ ResultsInTurn(hal, next) /\ hal'[r].shutter /\ Last \in hal'[r].parts =>
              ResultsInTurn(hal', [next EXCEPT ![r[1]] = r[2] + 1])
<1>1. ASSUME NEW p \in Requests
      PROVE  /\ hal'[p].fault = hal[p].fault /\ (hal[p].shutter => hal'[p].shutter)
             /\ hal[p].parts \subseteq hal'[p].parts
             /\ NoShutter(p)' <=> NoShutter(p)
             /\ NoResult(p)' <=> NoResult(p)
             /\ NoShutter(p) => NoResult(p)
             /\ p[1] \in Kinds /\ p[2] \in Nat /\ next[p[1]] \in Nat
  <2>1. p[1] \in Kinds /\ p[2] \in Nat
    BY RequestShape
  <2> QED
    BY <2>1 DEF HalMoves, NoShutter, NoResult
<1>2. ASSUME NEW p \in Requests, p[1] = r[1], p[2] < r[2]
      PROVE  /\ hal'[r].shutter => hal'[p].shutter \/ NoShutter(p)
             /\ Last \in hal'[r].parts => Last \in hal'[p].parts \/ NoResult(p)
  <2>1. p \in Earlier(r)
    BY <1>2 DEF Earlier
  <2> QED
    BY <1>1, <2>1 DEF HalInTurn, Earlier
<1>3. ASSUME NEW p \in Requests, p[1] = r[1], ~(p[2] < r[2]), p # r
      PROVE  r[2] + 1 <= p[2]
  <2>1. p[2] # r[2]
    BY <1>3, RequestShape
  <2> QED
    BY SMT, <1>1, <1>3, <2>1
<1> DEFINE new == [next EXCEPT ![r[1]] = r[2] + 1]
<1>4. \A p \in Requests : new[p[1]] = IF p[1] = r[1] THEN r[2] + 1 ELSE next[p[1]]
  BY <1>1
<1> HIDE DEF new
<1>5. ShuttersInTurn(hal, next) => ShuttersInTurn(hal', next)
  BY <1>1 DEF ShuttersInTurn, NoShutter
<1>6. ASSUME ShuttersInTurn(hal, next), hal'[r].shutter PROVE ShuttersInTurn(hal', new)
  <2> SUFFICES ASSUME NEW p \in Requests, ~hal'[p].shutter, ~NoShutter(p)'
               PROVE  new[p[1]] <= p[2]
    BY DEF ShuttersInTurn, NoShutter
  <2>1. next[p[1]] <= p[2]
    BY <1>1, <1>6 DEF ShuttersInTurn, NoShutter
  <2>2. p # r /\ ~(p[1] = r[1] /\ p[2] < r[2])
    BY <1>1, <1>2, <1>6
  <2> QED
    BY <1>3, <1>4, <2>1, <2>2
<1>7. ResultsInTurn(hal, next) => ResultsInTurn(hal', next)
  BY <1>1 DEF ResultsInTurn, NoResult
<1>8. ASSUME ResultsInTurn(hal, next), hal'[r].shutter, Last \in hal'[r].parts
      PROVE  ResultsInTurn(hal', new)
  <2> SUFFICES ASSUME NEW p \in Requests, ~(hal'[p].shutter /\ Last \in hal'[p].parts),
                      ~NoResult(p)'
               PROVE  new[p[1]] <= p[2]
    BY DEF ResultsInTurn, NoResult
  <2>1. next[p[1]] <= p[2]
    BY <1>1, <1>8 DEF ResultsInTurn, NoResult
  <2>2. p # r /\ ~(p[1] = r[1] /\ p[2] < r[2])
    BY <1>1, <1>2, <1>8
  <2> QED
    BY <1>3, <1>4, <2>1, <2>2
<1> QED
  BY <1>5, <1>6, <1>7, <1>8 DEF new
-----------------------------------------------------------------------------
(* The shutter.                                                            *)

\* What the HAL does when it sends a shutter, apart from the handler.
LEMMA ShutterMoves ==
  ASSUME IInv, JInv, NEW r \in Requests, HalShutter(r)
  PROVE  /\ HalMoves(r) /\ HalOwes(r) /\ HalKeeps(hal'[r]) /\ ~hal[r].shutter /\ ~NoShutter(r)
         /\ hal'[r].shutter /\ hal'[r].owned = hal[r].owned
         /\ hal'[r].parts = hal[r].parts /\ hal'[r].notified = hal[r].notified
         /\ hal'[r].late = hal[r].late /\ hal'[r].fault = hal[r].fault
         /\ troubles' = {} => HalInTurn'
<1>0. TypeOK /\ HalKeeps(hal[r])
  BY DEF IInv, Basic, JInv
<1>1. /\ r \in Sent /\ ~hal[r].shutter /\ ~NoShutter(r) /\ InOrder(ShutterInOrder(r))
      /\ hal' = [hal EXCEPT ![r].shutter = TRUE] /\ frames' = frames /\ flushing' = flushing
  BY DEF HalShutter
<1>2. hal[r] \in HalRequest /\ hal \in [Requests -> HalRequest]
  BY <1>0 DEF TypeOK
<1>3. /\ hal' \in [Requests -> HalRequest]
      /\ \A q \in Requests \ {r} : hal'[q] = hal[q]
      /\ hal'[r].shutter /\ hal'[r].owned = hal[r].owned
      /\ hal'[r].parts = hal[r].parts /\ hal'[r].notified = hal[r].notified
      /\ hal'[r].late = hal[r].late /\ hal'[r].fault = hal[r].fault
      /\ hal'[r].failed = hal[r].failed
  BY <1>1, <1>2 DEF HalRequest
<1>4. troubles' \subseteq {"shared", "unordered"} /\ troubles \subseteq troubles'
  BY <1>0, <1>1 DEF InOrder, TypeOK
<1>5. HalMoves(r)
  BY <1>1, <1>3, <1>4 DEF HalMoves
<1>6. HalKeeps(hal'[r])
  BY <1>0, <1>3 DEF HalKeeps
<1>7. HalOwes(r)
  BY <1>1 DEF HalOwes, HalDone
<1>8. ASSUME troubles' = {} PROVE HalInTurn'
  <2>1. HalInTurn /\ ShutterInOrder(r)
    BY <1>1, <1>4, <1>8 DEF JInv, InTurn, InOrder
  <2> SUFFICES ASSUME NEW p \in Requests, NEW q \in Earlier(p)
               PROVE  /\ hal'[p].shutter => hal'[q].shutter \/ NoShutter(q)'
                      /\ Last \in hal'[p].parts => Last \in hal'[q].parts \/ NoResult(q)'
    BY DEF HalInTurn, Earlier
  <2>2. q \in Requests
    BY DEF Earlier
  <2>3. /\ hal'[q].parts = hal[q].parts /\ (hal[q].shutter => hal'[q].shutter)
        /\ NoShutter(q)' <=> NoShutter(q)
        /\ NoResult(q)' <=> NoResult(q)
    BY <1>3, <2>2 DEF NoShutter, NoResult
  <2>4. hal'[p].parts = hal[p].parts
    BY <1>3
  <2>5. hal'[p].shutter => hal[q].shutter \/ NoShutter(q)
    BY <1>3, <2>1 DEF HalInTurn, ShutterInOrder
  <2>6. Last \in hal[p].parts => Last \in hal[q].parts \/ NoResult(q)
    BY <2>1 DEF HalInTurn
  <2> QED
    BY <2>3, <2>4, <2>5, <2>6
<1> QED
  BY <1>1, <1>3, <1>5, <1>6, <1>7, <1>8

\* In a message about r with no shared number, r's entry is the one found.
LEMMA OwnEntry ==
  ASSUME IInv, NEW r \in Sent, HalOwes(r), "shared" \notin troubles
  PROVE  /\ Apart /\ (r[2] \in DOMAIN pending => Known(r))
         /\ Known(r) => /\ pending[r[2]] \in PendingRequest /\ pending[r[2]].kind = r[1]
                        /\ pending[r[2]].pendingBuffers \in SUBSET ({r} \X Outputs)
<1>1. Apart /\ (r[2] \in DOMAIN pending => Known(r))
  BY DEF IInv, Apart
<1>2. ASSUME Known(r)
      PROVE  /\ pending[r[2]] \in PendingRequest /\ pending[r[2]].kind = r[1]
             /\ pending[r[2]].pendingBuffers \in SUBSET ({r} \X Outputs)
  BY <1>1, <1>2 DEF IInv, Basic, TypeOK, Known, Apart, Agrees
<1> QED
  BY <1>1, <1>2

\* Nothing but the HAL's record of r and the causes has changed, or the
\* client has also heard of r's shutter.
LEMMA OthersUntouched ==
  ASSUME NEW r \in Requests, HalMoves(r), pending' = pending,
         \A q \in Requests \ {r} : client'[q] = client[q]
  PROVE  (\A q \in Requests \ {r} : Untouched(q)) /\ (Known(r)' <=> Known(r))
BY DEF HalMoves, Untouched, Known, Same, SameTold

\* What a handler finds when the shutter comes: the client has had nothing.
LEMMA BeforeShutter ==
  ASSUME TypeOK, JInv, NEW r \in Requests, ~hal[r].shutter, "shared" \notin troubles
  PROVE  /\ client[r] \in ClientRequest
         /\ client[r].shutters = 0 /\ client[r].results = 0
         /\ client[r].partial \subseteq hal[r].parts \ {Last}
         /\ \A b \in Outputs : client[r].returned[b] > 0 => b \in client[r].unstamped
         /\ Known(r) => /\ EntryFits(pending[r[2]], client[r], hal[r])
                        /\ ~pending[r[2]].shutterTS
                        /\ pending[r[2]].pendingMetadata = hal[r].parts \cap {Last}
                        /\ pending[r[2]].composedResult = hal[r].parts \ {Last}
<1>1. Fitting(r)
  BY DEF JInv
<1>2. client[r] \in ClientRequest
  BY DEF TypeOK
<1>3. client[r].results \in Nat
  BY <1>2 DEF ClientRequest
<1>4. client[r].shutters = 0 /\ client[r].results = 0
  BY SMT, <1>1, <1>3 DEF Fitting, Told
<1>5. Known(r) => EntryFits(pending[r[2]], client[r], hal[r])
  BY <1>1 DEF Fitting
<1>6. /\ client[r].partial \subseteq hal[r].parts \ {Last}
      /\ \A b \in Outputs : client[r].returned[b] > 0 => b \in client[r].unstamped
  BY SMT, <1>1, <1>4 DEF Fitting, Told
<1> QED
  BY SMT, <1>2, <1>4, <1>5, <1>6 DEF EntryFits

\* NotifyShutter for a frame that is not pending, or out of order.
LEMMA ShutterRefused ==
  ASSUME IInv, IInv', JInv, NEW r \in Requests, HalShutter(r), "shared" \notin troubles',
         \/ r[2] \notin DOMAIN pending
         \/ r[2] < nextShutter[pending[r[2]].kind]
  PROVE  Settled(r) /\ nextShutter' = nextShutter
<1> DEFINE n == r[2]
           heard == [client EXCEPT ![<<pending[n].kind, n>>].shutters = @ + 1]
<1>0. TypeOK /\ r \in Sent /\ r = <<r[1], n>>
  BY RequestShape DEF IInv, Basic, HalShutter
<1>1. /\ HalMoves(r) /\ HalOwes(r) /\ ~hal[r].shutter /\ ~NoShutter(r)
      /\ hal'[r].shutter /\ hal'[r].owned = hal[r].owned
      /\ hal'[r].parts = hal[r].parts /\ hal'[r].notified = hal[r].notified
      /\ hal'[r].late = hal[r].late /\ hal'[r].fault = hal[r].fault
      /\ troubles' = {} => HalInTurn'
  BY ShutterMoves
<1>2. "shared" \notin troubles
  BY <1>1 DEF HalMoves
<1>3. NotifyShutter(n, FailedBuffers(hal))
  BY DEF HalShutter
<1>4. nextResult \in [Kinds -> Nat] /\ hal[r].parts \subseteq hal'[r].parts
  BY <1>0, <1>1 DEF TypeOK
<1>5. troubles' = {} => ResultsInTurn(hal', nextResult)
  <2>1. troubles' = {} => troubles = {}
    BY <1>1 DEF HalMoves
  <2>2. troubles = {} => ResultsInTurn(hal, nextResult)
    BY DEF JInv, InTurn
  <2> QED
    BY <1>0, <1>1, <1>4, <2>1, <2>2, StayInTurn
<1>6. /\ client[r] \in ClientRequest
      /\ client[r].shutters = 0 /\ client[r].results = 0
      /\ client[r].partial \subseteq hal[r].parts \ {Last}
      /\ \A b \in Outputs : client[r].returned[b] > 0 => b \in client[r].unstamped
      /\ Known(r) => EntryFits(pending[n], client[r], hal[r]) /\ ~pending[n].shutterTS
  BY <1>0, <1>1, <1>2, BeforeShutter
<1>7. CASE n \notin DOMAIN pending
  <2>1. UNCHANGED <<pending, errors, nextShutter, nextResult, client>>
    BY <1>3, <1>7 DEF NotifyShutter, SET_ERR
  <2>2. \A q \in Requests \ {r} : Untouched(q)
    BY <1>1, <2>1, OthersUntouched
  <2>3. ~Known(r)' /\ ~Known(r)
    BY <1>7, <2>1 DEF Known
  <2>4. Told(client'[r], hal'[r])
    BY SMT, <1>1, <1>6, <2>1 DEF Told
  <2>5. Fitting(r)'
    BY <2>3, <2>4 DEF Fitting
  <2>6. troubles' = {} => hal[r].fault # "none"
    BY <1>0, <1>1, <2>3 DEF HalMoves, JInv, Clean, HalDone
  <2>7. troubles' = {} => Faulty # {}
    BY <2>6 DEF Faulty
  <2> QED
    BY <1>5, <2>1, <2>2, <2>5, <2>6, <2>7 DEF Settled
<1>8. CASE n \in DOMAIN pending /\ n < nextShutter[pending[n].kind]
  <2>1. client' = heard /\ UNCHANGED <<pending, errors, nextShutter, nextResult>>
    BY <1>3, <1>8 DEF NotifyShutter
  <2>2. Known(r) /\ pending[n].kind = r[1]
    BY <1>0, <1>1, <1>2, <1>8, OwnEntry DEF Known
  <2> DEFINE c == [client[r] EXCEPT !.shutters = 1]
  <2>3. client' = [client EXCEPT ![r] = c]
    <3>1. <<pending[n].kind, n>> = r
      BY <1>0, <2>2
    <3>2. client' = [client EXCEPT ![r].shutters = @ + 1]
      BY <2>1, <3>1
    <3>3. client[r].shutters + 1 = 1
      BY SMT, <1>6
    <3> QED
      BY <3>2, <3>3
  <2>4. /\ c.shutters = 1 /\ c.results = 0 /\ c.partial = client[r].partial
        /\ c.returned = client[r].returned /\ c.unstamped = client[r].unstamped
    BY <1>6 DEF ClientRequest
  <2> HIDE DEF c
  <2>5. client'[r] = c /\ \A q \in Requests \ {r} : client'[q] = client[q]
    BY <1>0, <2>3 DEF TypeOK
  <2>6. (\A q \in Requests \ {r} : Untouched(q)) /\ Known(r)'
    BY <1>1, <2>1, <2>2, <2>5, OthersUntouched
  <2>7. Told(client'[r], hal'[r])
    BY SMT, <1>1, <1>6, <2>4, <2>5 DEF Told
  <2>8. EntryFits(pending'[n], client'[r], hal'[r])
    BY <1>1, <1>6, <2>1, <2>2 DEF EntryFits
  <2>9. hal[r].notified /\ ~hal[r].late => hal[r].owned # {}
    BY <1>2, <2>2 DEF JInv, Fitting
  <2>10. Fitting(r)'
    BY <1>1, <2>6, <2>7, <2>8, <2>9 DEF Fitting
  <2>11. troubles' # {}
    <3>1. nextShutter[r[1]] \in Nat /\ n \in Nat
      BY <1>0, RequestShape DEF TypeOK
    <3> QED
      BY SMT, <1>1, <1>8, <2>2, <3>1 DEF HalMoves, JInv, InTurn, ShuttersInTurn, NoShutter
  <2> QED
    BY <2>1, <2>6, <2>10, <2>11 DEF Settled
<1> QED
  BY <1>7, <1>8

\* NotifyShutter otherwise: what was kept goes to the client with it.
LEMMA ShutterTaken ==
  ASSUME IInv, IInv', JInv, NEW r \in Requests, HalShutter(r), "shared" \notin troubles',
         r[2] \in DOMAIN pending, ~(r[2] < nextShutter[pending[r[2]].kind])
  PROVE  Settled(r) /\ nextShutter' = [nextShutter EXCEPT ![r[1]] = r[2] + 1]
<1> DEFINE n == r[2]
           e == pending[n]
           h == hal'[r]
           e1 == [e EXCEPT !.shutterTS = TRUE]
           heard == [client EXCEPT ![<<e.kind, n>>].shutters = @ + 1]
           w == [Work(e1) EXCEPT !.client = heard]
           x == SendCaptureResult(w, n, e.pendingMetadata, e.composedResult)
           y == ReturnOutputBuffers(x, e.pendingBuffers, FailedBuffers(hal), 1)
           z == [y EXCEPT !.e = Cleared(@)]
<1>0. /\ TypeOK /\ r \in Sent /\ r = <<r[1], n>> /\ n \in Nat /\ r[1] \in Kinds
      /\ Last \in Parts
  BY SMT, RequestShape, ResultsAssumption DEF IInv, Basic, HalShutter, Last, Parts
<1>1. /\ HalMoves(r) /\ HalOwes(r) /\ HalKeeps(h) /\ ~hal[r].shutter /\ ~NoShutter(r)
      /\ h.shutter /\ h.owned = hal[r].owned
      /\ h.parts = hal[r].parts /\ h.notified = hal[r].notified
      /\ h.late = hal[r].late /\ h.fault = hal[r].fault
      /\ troubles' = {} => HalInTurn'
  BY ShutterMoves
<1>2. "shared" \notin troubles /\ (troubles' = {} => troubles = {})
  BY <1>1 DEF HalMoves
<1>3. /\ Known(r) /\ e \in PendingRequest /\ e.kind = r[1] /\ <<e.kind, n>> = r
      /\ e.pendingBuffers \in SUBSET ({r} \X Outputs)
  BY <1>0, <1>1, <1>2, OwnEntry
<1>4. /\ client[r] \in ClientRequest
      /\ client[r].shutters = 0 /\ client[r].results = 0
      /\ client[r].partial \subseteq hal[r].parts \ {Last}
      /\ \A b \in Outputs : client[r].returned[b] > 0 => b \in client[r].unstamped
      /\ EntryFits(e, client[r], hal[r]) /\ ~e.shutterTS
      /\ e.pendingMetadata = h.parts \cap {Last} /\ e.composedResult = h.parts \ {Last}
  BY <1>0, <1>1, <1>2, <1>3, BeforeShutter
<1>5. /\ nextShutter' = [nextShutter EXCEPT ![r[1]] = n + 1]
      /\ RemovePendingRequestLocked(z, n, FailedBuffers(hal))
  <2>1. NotifyShutter(n, FailedBuffers(hal))
    BY DEF HalShutter
  <2> QED
    BY <1>3, <2>1 DEF NotifyShutter
<1>6. /\ e1 \in PendingRequest /\ e1.kind = r[1] /\ e1.shutterTS
      /\ e1.isMetaPresent = e.isMetaPresent /\ e1.sensorTS = e.sensorTS
      /\ e1.composedResult = e.composedResult /\ e1.status = e.status
  BY <1>3 DEF PendingRequest
<1>7. /\ heard \in [Requests -> ClientRequest]
      /\ \A q \in Requests \ {r} : heard[q] = client[q]
      /\ heard[r].shutters = 1 /\ heard[r].results = 0
      /\ heard[r].partial = client[r].partial /\ heard[r].returned = client[r].returned
      /\ heard[r].unstamped = client[r].unstamped
  <2> DEFINE c == [client[r] EXCEPT !.shutters = 1]
  <2>1. heard = [client EXCEPT ![r] = c]
    <3>1. heard = [client EXCEPT ![r].shutters = @ + 1]
      BY <1>3
    <3>2. client[r].shutters + 1 = 1
      BY SMT, <1>4
    <3> QED
      BY <3>1, <3>2
  <2>2. /\ c \in ClientRequest /\ c.shutters = 1 /\ c.results = 0
        /\ c.partial = client[r].partial /\ c.returned = client[r].returned
        /\ c.unstamped = client[r].unstamped
    BY <1>4 DEF ClientRequest
  <2> HIDE DEF c, heard
  <2>3. client \in [Requests -> ClientRequest]
    BY <1>0 DEF TypeOK
  <2> QED
    BY <2>1, <2>2, <2>3
<1> HIDE DEF e1, heard, e
<1>8. /\ w \in Works /\ w.e = e1 /\ w.client = heard /\ w.next = nextResult
      /\ w.causes = causes
  BY <1>0, <1>6, <1>7 DEF Works, Work, TypeOK
<1> HIDE DEF w
<1> DEFINE M == e.pendingMetadata
           C == e.composedResult
<1>9. M \in SUBSET Parts /\ C \in SUBSET Parts
  BY <1>3 DEF PendingRequest
<1>10. /\ x \in Works /\ x.e = e1 /\ x.client[r].returned = client[r].returned
       /\ \A q \in Requests \ {r} : x.client[q] = client[q]
       /\ x.client[r].shutters = 1 /\ x.client[r].partial = client[r].partial
       /\ x.client[r].unstamped = client[r].unstamped
       /\ HeldBack(w, x, r, M, C) \/ PassedOn(w, x, r, M, C)
  <2>1. x = SendCaptureResult(w, n, M, C) /\ r = <<w.e.kind, n>>
    BY <1>0, <1>6, <1>8
  <2> HIDE DEF x, M, C
  <2>2. x \in Works /\ x.e = w.e
    BY SMT, <1>0, <1>8, <1>9, <2>1, SendKeeps
  <2>3. /\ \A p \in Requests \ {r} : x.client[p] = w.client[p]
        /\ x.client[r].shutters = w.client[r].shutters
        /\ x.client[r].partial = w.client[r].partial
        /\ x.client[r].unstamped = w.client[r].unstamped
        /\ x.client[r].returned = w.client[r].returned
        /\ HeldBack(w, x, r, M, C) \/ PassedOn(w, x, r, M, C)
    BY SMT, <1>0, <1>8, <1>9, <2>1, SendTells
  <2> QED
    BY <1>6, <1>7, <1>8, <2>2, <2>3
<1> HIDE DEF x
<1>11. /\ y \in Works /\ y.next = x.next /\ y.causes = x.causes
       /\ \A q \in Requests \ {r} : Same(x.client[q], y.client[q])
       /\ SameTold(x.client[r], y.client[r])
       /\ y.client[r].unstamped = x.client[r].unstamped
       /\ y.e = [x.e EXCEPT !.status = y.e.status]
       /\ y.e.status # x.e.status
            => y.e.status = "BUFFER" /\ e.pendingBuffers \cap FailedBuffers(hal) # {}
  <2> DEFINE B == e.pendingBuffers
             F == FailedBuffers(hal)
  <2>1. y = ReturnOutputBuffers(x, B, F, 1) /\ 1 \in {0, 1} /\ B \in SUBSET ({r} \X Outputs)
    BY <1>3
  <2>0. x \in Works
    BY <1>10
  <2> HIDE DEF B, F, y
  <2>2. B \in SUBSET (Requests \X Outputs)
    BY <2>1
  <2>3. y \in Works /\ y.next = x.next /\ y.causes = x.causes
    BY SMT, <2>0, <2>1, <2>2, ReturnGives
  <2>4. Returned(x, y, r, B, F, 1)
    BY <2>0, <2>1, ReturnTells
  <2> QED
    BY <2>3, <2>4 DEF B, F, Returned
<1>12. y.e.status # e.status => y.e.status = "BUFFER" /\ hal[r].failed # {}
  <2>1. e.pendingBuffers \cap FailedBuffers(hal) # {} => hal[r].failed # {}
    BY <1>3 DEF FailedBuffers
  <2> QED
    BY <1>6, <1>10, <1>11, <2>1
<1> HIDE DEF y
<1>13. /\ z \in Works /\ z.client = y.client /\ z.next = x.next /\ z.causes = x.causes
       /\ z.e.kind = r[1] /\ z.e.shutterTS /\ z.e.pendingBuffers = {}
       /\ z.e.isMetaPresent = e.isMetaPresent /\ z.e.sensorTS = e.sensorTS
       /\ z.e.composedResult = e.composedResult /\ z.e.status = y.e.status
  <2>1. y.e \in PendingRequest
    BY <1>11 DEF Works
  <2>2. z = [y EXCEPT !.e = [y.e EXCEPT !.pendingBuffers = {}]]
    BY <1>11 DEF Cleared, Works
  <2>3. [y.e EXCEPT !.pendingBuffers = {}] \in PendingRequest
    BY <2>1 DEF PendingRequest
  <2> DEFINE f == [y.e EXCEPT !.pendingBuffers = {}]
  <2>4. /\ f.kind = y.e.kind /\ f.shutterTS = y.e.shutterTS /\ f.pendingBuffers = {}
        /\ f.isMetaPresent = y.e.isMetaPresent /\ f.sensorTS = y.e.sensorTS
        /\ f.composedResult = y.e.composedResult /\ f.status = y.e.status
    BY <2>1 DEF PendingRequest
  <2>5. /\ y.e.kind = e1.kind /\ y.e.shutterTS = e1.shutterTS
        /\ y.e.isMetaPresent = e1.isMetaPresent /\ y.e.sensorTS = e1.sensorTS
        /\ y.e.composedResult = e1.composedResult
    BY <1>6, <1>10, <1>11 DEF PendingRequest
  <2> HIDE DEF f, z
  <2>6. z \in Works /\ z.e = f /\ z.client = y.client /\ z.next = y.next /\ z.causes = y.causes
    BY <1>11, <2>2, <2>3 DEF Works, f
  <2> QED
    BY <1>6, <1>11, <2>4, <2>5, <2>6
<1> HIDE DEF z
<1>14. /\ \A q \in Requests \ {r} : Same(client[q], z.client[q])
       /\ z.client[r].shutters = 1 /\ z.client[r].partial = client[r].partial
       /\ z.client[r].unstamped = client[r].unstamped
       /\ z.client[r].results = x.client[r].results
       /\ z.client[r].result = x.client[r].result
  BY SMT, <1>10, <1>11, <1>13 DEF Same, SameTold
<1>15. M # {} <=> Last \in h.parts
  BY <1>4
<1>16. M \cup C = h.parts
  BY <1>4
<1> HIDE DEF M, C
<1>17. /\ z.client[r].results > 0 => Last \in h.parts /\ z.client[r].result = h.parts
  <2>1. CASE HeldBack(w, x, r, M, C)
    BY SMT, <1>7, <1>8, <1>14, <2>1 DEF HeldBack
  <2>2. CASE PassedOn(w, x, r, M, C)
    BY <1>14, <1>15, <1>16, <2>2 DEF PassedOn
  <2> QED
    BY <1>10, <2>1, <2>2
<1>18. Told(z.client[r], h)
  BY <1>1, <1>4, <1>14, <1>17 DEF Told
<1>19. EntryFits(z.e, z.client[r], h)
  <2>1. h.fault = "none" => z.e.status = "OK"
    BY <1>1, <1>4, <1>12, <1>13 DEF EntryFits, JInv, HalKeeps
  <2>2. h.notified => z.e.status # "OK"
    BY <1>1, <1>4, <1>12, <1>13 DEF EntryFits
  <2>3. /\ z.e.isMetaPresent <=> Last \in h.parts
        /\ z.e.sensorTS <=> TimestampPart \in h.parts
    BY <1>1, <1>4, <1>13 DEF EntryFits
  <2>4. Last \notin h.parts => z.e.composedResult = h.parts
    BY <1>4, <1>13
  <2> QED
    BY <1>13, <1>14, <2>1, <2>2, <2>3, <2>4 DEF EntryFits
<1>20. ASSUME troubles' = {}, hal[r].fault = "none"
       PROVE  /\ Last \in h.parts => PassedOn(w, x, r, M, C)
              /\ Last \notin h.parts => HeldBack(w, x, r, M, C)
              /\ x.causes = causes
  <2>1. ~(n < nextResult[r[1]])
    <3>1. nextResult[r[1]] \in Nat
      BY <1>0 DEF TypeOK
    <3> QED
      BY SMT, <1>0, <1>1, <1>2, <1>20, <3>1 DEF JInv, InTurn, ResultsInTurn
  <2>2. Last \in h.parts => TimestampPart \in M \cup C
    BY <1>1, <1>16 DEF HalKeeps
  <2>3. Last \in h.parts => PassedOn(w, x, r, M, C)
    BY <1>8, <1>10, <1>15, <2>1, <2>2 DEF HeldBack
  <2>4. Last \notin h.parts => HeldBack(w, x, r, M, C)
    BY <1>10, <1>15 DEF PassedOn
  <2>5. x.causes = causes
    BY <1>8, <1>15, <2>3, <2>4 DEF PassedOn, HeldBack
  <2> QED
    BY <2>3, <2>4, <2>5
<1>21. ASSUME troubles' = {}, hal[r].fault = "none" PROVE Served(z.client[r], h)
  <2>1. client[r].unstamped = {}
    BY <1>0, <1>2, <1>21 DEF JInv, Clean, Served
  <2>2. Last \in h.parts => z.client[r].results = 1 /\ z.client[r].result = h.parts
    <3>1. ASSUME Last \in h.parts
          PROVE  x.client[r].results = heard[r].results + 1 /\ x.client[r].result = M \cup C
      BY <1>8, <1>20, <1>21, <3>1 DEF PassedOn
    <3>2. Last \in h.parts => z.client[r].result = h.parts
      BY <1>14, <1>16, <3>1
    <3>3. heard[r].results + 1 = 1
      BY SMT, <1>7
    <3>4. Last \in h.parts => z.client[r].results = 1
      BY <1>14, <3>1, <3>3
    <3> QED
      BY <3>2, <3>4
  <2>3. Last \notin h.parts => z.client[r].results = 0
    BY <1>7, <1>8, <1>14, <1>20, <1>21 DEF HeldBack
  <2> QED
    BY <1>1, <1>14, <2>1, <2>2, <2>3 DEF Served
<1>22. troubles' = {} => ResultsInTurn(hal', z.next)
  <2> SUFFICES ASSUME troubles' = {} PROVE ResultsInTurn(hal', x.next)
    BY <1>13
  <2>1. ResultsInTurn(hal, nextResult) /\ nextResult \in [Kinds -> Nat]
    BY <1>0, <1>2 DEF JInv, InTurn, TypeOK
  <2>2. hal[r].parts \subseteq hal'[r].parts
    BY <1>1
  <2>3. \/ x.next = nextResult
        \/ Last \in h.parts /\ x.next = [nextResult EXCEPT ![r[1]] = r[2] + 1]
    BY <1>8, <1>10, <1>15 DEF HeldBack, PassedOn
  <2> QED
    BY <1>0, <1>1, <2>1, <2>2, <2>3, StayInTurn
<1>23. ASSUME troubles' = {}, Faulty = {} PROVE z.causes = {}
  <2>1. hal[r].fault = "none"
    BY <1>23 DEF Faulty
  <2>2. causes = {}
    BY <1>2, <1>23 DEF JInv
  <2> QED
    BY <1>13, <1>20, <1>23, <2>1, <2>2
<1>24. Ready(z, r)
  BY <1>1, <1>13, <1>14, <1>18, <1>19, <1>21, <1>22, <1>23 DEF Ready
<1>25. Moves(r)
  BY <1>1 DEF Moves
<1> QED
  BY <1>3, <1>5, <1>24, <1>25, RemoveReady

\* NotifyShutter keeps the invariant.
LEMMA ShutterServes ==
  ASSUME IInv, IInv', JInv, NEW r \in Requests, HalShutter(r)
  PROVE  JInv'
<1>1. /\ HalMoves(r) /\ HalKeeps(hal'[r]) /\ hal'[r].shutter
      /\ hal'[r].parts = hal[r].parts /\ (troubles' = {} => HalInTurn')
  BY ShutterMoves
<1>2. ASSUME "shared" \notin troubles'
      PROVE  /\ Settled(r)
             /\ \/ nextShutter' = nextShutter
                \/ nextShutter' = [nextShutter EXCEPT ![r[1]] = r[2] + 1]
  BY <1>2, ShutterRefused, ShutterTaken
<1>3. ASSUME troubles' = {} PROVE ShuttersInTurn(hal', nextShutter')
  <2>1. ShuttersInTurn(hal, nextShutter)
    BY <1>1, <1>3 DEF HalMoves, JInv, InTurn
  <2>2. TypeOK /\ nextShutter \in [Kinds -> Nat]
    BY DEF IInv, Basic, TypeOK
  <2> QED
    BY <1>1, <1>2, <1>3, <2>1, <2>2, StayInTurn
<1> QED
  BY <1>1, <1>2, <1>3, SettledKeeps
-----------------------------------------------------------------------------
(* The error message.                                                      *)

\* NotifyError keeps the invariant: the entry waits for the buffers unless
\* the message was the last thing to come.
LEMMA ErrorServes ==
  ASSUME IInv, IInv', JInv, NEW r \in Requests, HalError(r)
  PROVE  JInv'
<1> DEFINE n == r[2]
           e == pending[n]
           h == hal'[r]
<1>0. TypeOK /\ r[1] \in Kinds /\ n \in Nat
  BY RequestShape DEF IInv, Basic
<1>1. /\ hal[r].fault \in {"REQUEST", "RESULT", "BUFFER"} /\ ~hal[r].notified
      /\ hal' = [hal EXCEPT ![r].notified = TRUE, ![r].late = hal[r].owned = {}]
      /\ pending' = IF n \in DOMAIN pending
                    THEN [pending EXCEPT ![n].status = hal[r].fault] ELSE pending
      /\ frames' = frames /\ flushing' = flushing /\ troubles' = troubles
      /\ nextShutter' = nextShutter /\ nextResult' = nextResult
      /\ causes' = causes /\ client' = client
  BY DEF HalError, NotifyError
<1>2. /\ hal' \in [Requests -> HalRequest]
      /\ \A p \in Requests \ {r} : hal'[p] = hal[p]
      /\ h.fault = hal[r].fault /\ h.owned = hal[r].owned /\ h.failed = hal[r].failed
      /\ h.parts = hal[r].parts /\ h.shutter = hal[r].shutter
      /\ h.notified /\ (h.late <=> hal[r].owned = {})
  <2>1. hal[r] \in HalRequest /\ hal \in [Requests -> HalRequest]
    BY <1>0 DEF TypeOK
  <2> DEFINE b == hal[r].owned = {}
  <2>2. b \in BOOLEAN
    OBVIOUS
  <2>3. hal' = [hal EXCEPT ![r] = [hal[r] EXCEPT !.notified = TRUE, !.late = b]]
    BY <1>1, <2>1
  <2> HIDE DEF b
  <2>4. /\ hal' \in [Requests -> HalRequest]
        /\ \A p \in Requests \ {r} : hal'[p] = hal[p]
        /\ h.fault = hal[r].fault /\ h.owned = hal[r].owned /\ h.failed = hal[r].failed
        /\ h.parts = hal[r].parts /\ h.shutter = hal[r].shutter
        /\ h.notified /\ h.late = b
    BY <2>1, <2>2, <2>3 DEF HalRequest
  <2> QED
    BY <2>4 DEF b
<1>3. r \in Sent
  BY <1>1 DEF IInv, Basic, Fresh
<1>4. HalMoves(r)
  BY <1>0, <1>1, <1>2, <1>3 DEF HalMoves, TypeOK
<1>5. HalKeeps(h)
  BY <1>1, <1>2 DEF JInv, HalKeeps
<1>6. troubles' = {} => HalInTurn' /\ ShuttersInTurn(hal', nextShutter)
                        /\ ResultsInTurn(hal', nextResult)
  <2> SUFFICES ASSUME troubles' = {}
               PROVE  HalInTurn' /\ ShuttersInTurn(hal', nextShutter)
                      /\ ResultsInTurn(hal', nextResult)
    OBVIOUS
  <2>1. \A p \in Requests : /\ hal'[p].shutter = hal[p].shutter
                            /\ hal'[p].parts = hal[p].parts
                            /\ hal'[p].fault = hal[p].fault
    BY <1>2
  <2>2. InTurn
    BY <1>1 DEF JInv
  <2>3. HalInTurn'
    BY <2>1, <2>2 DEF InTurn, HalInTurn, NoShutter, NoResult, Earlier
  <2>4. ShuttersInTurn(hal', nextShutter)
    BY <2>1, <2>2 DEF InTurn, ShuttersInTurn
  <2>5. ResultsInTurn(hal', nextResult)
    BY <2>1, <2>2 DEF InTurn, ResultsInTurn
  <2> QED
    BY <2>3, <2>4, <2>5
<1>7. ASSUME "shared" \notin troubles' PROVE Settled(r)
  <2>1. "shared" \notin troubles /\ HalOwes(r) /\ Fitting(r)
    BY <1>1, <1>7 DEF HalOwes, JInv
  <2>2. n \in DOMAIN pending => Known(r)
    BY <1>3, <2>1, OwnEntry
  <2>3. Told(client'[r], h)
    BY <1>1, <1>2, <2>1 DEF Fitting, Told
  <2>4. troubles' = {} /\ Faulty = {} => causes' = {}
    BY <1>1 DEF JInv
  <2>5. CASE n \notin DOMAIN pending
    <3>1. pending' = pending /\ ~Known(r)'
      BY <1>1, <2>5 DEF Known
    <3>2. \A q \in Requests \ {r} : Untouched(q)
      BY <1>1, <1>4, <3>1, OthersUntouched
    <3>3. Fitting(r)'
      BY <2>3, <3>1 DEF Fitting
    <3> QED
      BY <1>1, <1>6, <2>4, <3>2, <3>3 DEF Settled
  <2>6. CASE n \in DOMAIN pending
    <3> DEFINE f == [e EXCEPT !.status = hal[r].fault]
    <3>1. pending' = [pending EXCEPT ![n] = f]
      BY <1>1, <2>6
    <3>2. Known(r) /\ e \in PendingRequest /\ e.kind = r[1] /\ EntryFits(e, client[r], hal[r])
      BY <1>3, <2>1, <2>2, <2>6, OwnEntry DEF Fitting
    <3>3. /\ f.kind = e.kind /\ f.shutterTS = e.shutterTS /\ f.sensorTS = e.sensorTS
          /\ f.isMetaPresent = e.isMetaPresent /\ f.pendingBuffers = e.pendingBuffers
          /\ f.pendingMetadata = e.pendingMetadata /\ f.composedResult = e.composedResult
          /\ f.status = hal[r].fault
      BY <3>2 DEF PendingRequest
    <3> HIDE DEF f
    <3>4. pending'[n] = f /\ DOMAIN pending' = DOMAIN pending
          /\ \A m \in DOMAIN pending \ {n} : pending'[m] = pending[m]
      BY <2>6, <3>1
    <3>5. EntryFits(pending'[n], client'[r], h)
      BY SMT, <1>1, <1>2, <3>2, <3>3, <3>4 DEF EntryFits
    <3>6. Fitting(r)'
      BY <1>2, <2>3, <3>5 DEF Fitting
    <3>7. \A q \in Requests \ {r} : Untouched(q)
      <4> TAKE q \in Requests \ {r}
      <4>1. Same(client[q], client'[q])
        BY <1>1 DEF Same, SameTold
      <4>2. q[2] = n => q[1] # r[1]
        BY RequestShape
      <4>3. (Known(q)' <=> Known(q)) /\ (Known(q) => pending'[q[2]] = pending[q[2]])
        BY <3>2, <3>3, <3>4, <4>2 DEF Known
      <4> QED
        BY <1>2, <4>1, <4>3 DEF Untouched
    <3> QED
      BY <1>1, <1>6, <2>4, <3>6, <3>7 DEF Settled
  <2> QED
    BY <2>5, <2>6
<1> QED
  BY <1>1, <1>4, <1>5, <1>6, <1>7, SettledKeeps
-----------------------------------------------------------------------------
(* The results.                                                            *)

\* What the HAL does when it sends a result, apart from the handler.
ResultSent(r, part, bufs) ==
  /\ HalMoves(r) /\ HalOwes(r) /\ HalKeeps(hal'[r]) /\ (part # 0 \/ bufs # {})
  /\ hal'[r].owned = hal[r].owned \ bufs /\ hal'[r].shutter = hal[r].shutter
  /\ hal'[r].notified = hal[r].notified /\ hal'[r].late = hal[r].late
  /\ part = 0 => hal'[r].parts = hal[r].parts
  /\ part # 0 => /\ hal'[r].parts = hal[r].parts \cup {part} /\ Last \notin hal[r].parts
                 /\ part = Last => ~NoResult(r)
  /\ bufs \in SUBSET (Outputs \cup {0})
  /\ troubles' = {} => HalInTurn'

\* It is what HalResult does, within the contract.
LEMMA ResultHal ==
  ASSUME IInv, JInv, NEW r \in Requests, NEW part \in Parts \cup {0},
         NEW bufs \in SUBSET hal[r].owned, NEW bad \in SUBSET (bufs \ {0}),
         HalResult(r, part, bufs, bad)
  PROVE  ResultSent(r, part, bufs)
<1>0. TypeOK /\ HalKeeps(hal[r])
  BY DEF IInv, Basic, JInv
<1>0a. Last \in Nat \ {0} /\ TimestampPart \in 1 .. Last /\ Parts = 1 .. Last
  BY ResultsAssumption DEF Last, Parts
<1>1. /\ r \in Sent /\ (part # 0 \/ bufs # {})
      /\ part # 0 => MaySend(r, part)
      /\ MayFail(r, bufs, bad)
      /\ InOrder(part = PartialResultCount => ResultInOrder(r))
      /\ hal' = [hal EXCEPT ![r].parts = IF part = 0 THEN @ ELSE @ \cup {part},
                            ![r].owned = @ \ bufs, ![r].failed = @ \cup bad]
  BY DEF HalResult
<1>2. /\ hal[r] \in HalRequest /\ hal \in [Requests -> HalRequest]
      /\ hal[r].parts \in SUBSET Parts
  BY <1>0 DEF TypeOK, HalRequest
<1> DEFINE P == IF part = 0 THEN hal[r].parts ELSE hal[r].parts \cup {part}
           O == hal[r].owned \ bufs
           F == hal[r].failed \cup bad
           h == [hal[r] EXCEPT !.parts = P, !.owned = O, !.failed = F]
<1>3. hal' = [hal EXCEPT ![r] = h]
  BY <1>1, <1>2
<1> HIDE DEF P, O, F
<1>4. /\ h.fault = hal[r].fault /\ h.owned = O /\ h.parts = P /\ h.failed = F
      /\ h.shutter = hal[r].shutter /\ h.notified = hal[r].notified /\ h.late = hal[r].late
  BY <1>2 DEF HalRequest
<1> HIDE DEF h
<1>5. hal'[r] = h /\ \A p \in Requests \ {r} : hal'[p] = hal[p]
  BY <1>2, <1>3
<1>6. HalMoves(r) /\ HalOwes(r) /\ bufs \in SUBSET (Outputs \cup {0})
  BY ResultMoves
<1>7. part # 0 => Last \notin hal[r].parts
  BY SMT, <1>0a, <1>1, <1>2 DEF MaySend
<1>8. part = Last => ~NoResult(r)
  BY SMT, <1>0a, <1>1 DEF MaySend, NoResult, Last
<1>9. Last \in P => TimestampPart \in P
  <2>1. part = Last /\ Last # TimestampPart => TimestampPart \in hal[r].parts
    BY SMT, <1>0a, <1>1 DEF MaySend
  <2> QED
    BY <1>0, <1>0a, <2>1 DEF P, HalKeeps
<1>10. hal[r].fault \notin {"REQUEST", "BUFFER"} => F = {}
  BY <1>0, <1>1 DEF F, HalKeeps, MayFail
<1>11. HalKeeps(h)
  BY <1>0, <1>4, <1>9, <1>10 DEF HalKeeps
<1>12. ASSUME troubles' = {} PROVE HalInTurn'
  <2>1. HalInTurn /\ (part = Last => ResultInOrder(r))
    BY <1>1, <1>6, <1>12 DEF JInv, InTurn, InOrder, HalMoves, Last
  <2> SUFFICES ASSUME NEW p \in Requests, NEW q \in Earlier(p)
               PROVE  /\ hal'[p].shutter => hal'[q].shutter \/ NoShutter(q)'
                      /\ Last \in hal'[p].parts => Last \in hal'[q].parts \/ NoResult(q)'
    BY DEF HalInTurn, Earlier
  <2>2. q \in Requests
    BY DEF Earlier
  <2>3. /\ hal'[q].shutter = hal[q].shutter /\ (Last \in hal[q].parts => Last \in hal'[q].parts)
        /\ NoShutter(q)' <=> NoShutter(q)
        /\ NoResult(q)' <=> NoResult(q)
    BY <1>4, <1>5, <2>2 DEF NoShutter, NoResult, P
  <2>4. hal'[p].shutter = hal[p].shutter
    BY <1>4, <1>5
  <2>5. hal[p].shutter => hal[q].shutter \/ NoShutter(q)
    BY <2>1 DEF HalInTurn
  <2>6. Last \in hal'[p].parts => Last \in hal[q].parts \/ NoResult(q)
    <3>1. Last \in hal'[p].parts => Last \in hal[p].parts \/ (p = r /\ part = Last)
      BY SMT, <1>4, <1>5 DEF P
    <3> QED
      BY <2>1, <3>1 DEF HalInTurn, ResultInOrder, Last
  <2> QED
    BY <2>3, <2>4, <2>5, <2>6
<1> QED
  BY <1>1, <1>4, <1>5, <1>6, <1>7, <1>8, <1>11, <1>12 DEF P, O, ResultSent

\* HandleCaptureResult for a frame that is not pending.
LEMMA ResultUnknown ==
  ASSUME IInv, IInv', JInv, NEW r \in Requests, NEW part \in Parts \cup {0},
         NEW bufs \in SUBSET hal[r].owned, NEW bad \in SUBSET (bufs \ {0}),
         HalResult(r, part, bufs, bad), "shared" \notin troubles', r[2] \notin DOMAIN pending
  PROVE  Settled(r)
<1>0. TypeOK /\ r \in Sent
  BY DEF IInv, Basic, HalResult
<1>1. /\ HalMoves(r) /\ HalKeeps(hal'[r]) /\ (part # 0 \/ bufs # {})
      /\ hal'[r].shutter = hal[r].shutter
      /\ hal[r].parts \subseteq hal'[r].parts
      /\ part # 0 => Last \notin hal[r].parts
      /\ troubles' = {} => HalInTurn'
  <2>1. ResultSent(r, part, bufs)
    BY ResultHal
  <2> QED
    BY <2>1 DEF ResultSent
<1>2. "shared" \notin troubles /\ (troubles' = {} => troubles = {})
  BY <1>1 DEF HalMoves
<1>3. UNCHANGED <<pending, nextShutter, nextResult, client>>
  BY DEF HalResult, HandleCaptureResult, UnknownResult, SET_ERR
<1>4. \A q \in Requests \ {r} : Untouched(q)
  BY <1>1, <1>3, OthersUntouched
<1>5. ~Known(r) /\ ~Known(r)'
  BY <1>3 DEF Known
<1>6. Told(client[r], hal[r])
  BY <1>2 DEF JInv, Fitting
<1>7. Told(client'[r], hal'[r])
  BY <1>1, <1>3, <1>6 DEF Told
<1>8. Fitting(r)'
  BY <1>5, <1>7 DEF Fitting
<1>9. troubles' = {} => hal[r].fault # "none"
  <2> SUFFICES ASSUME troubles' = {}, hal[r].fault = "none" PROVE FALSE
    OBVIOUS
  <2>1. HalDone(r)
    BY <1>0, <1>2, <1>5 DEF JInv, Clean
  <2>2. bufs = {} /\ Last \in hal[r].parts
    BY <2>1 DEF HalDone, NoResult, Last
  <2> QED
    BY <1>1, <2>2
<1>10. troubles' = {} => ResultsInTurn(hal', nextResult')
  <2>1. nextResult \in [Kinds -> Nat]
    BY <1>0 DEF TypeOK
  <2>2. troubles' = {} => ResultsInTurn(hal, nextResult)
    BY <1>2 DEF JInv, InTurn
  <2>3. troubles' = {} => ResultsInTurn(hal', nextResult)
    BY <1>0, <1>1, <2>1, <2>2, StayInTurn
  <2> QED
    BY <1>3, <2>3
<1>11. troubles' = {} => Faulty # {}
  BY <1>9 DEF Faulty
<1> QED
  BY <1>4, <1>8, <1>9, <1>10, <1>11 DEF Settled

\* The work record of HandleCaptureResult when the message is noted.
Heard(e, r, part, bufs) ==
  LET noted == Noted(e, part, Cardinality(bufs))
      told == IF part \in Parts /\ part # PartialResultCount
              THEN [client EXCEPT ![<<e.kind, r[2]>>].partial = noted.composedResult]
              ELSE client
      back == IF 0 \in bufs THEN [told EXCEPT ![r].returned[0] = @ + 1] ELSE told
  IN  [Work(noted) EXCEPT !.client = back]

\* The entry has its note of the part, and only the client of r has heard of it.
Notes(w, e, r, part) ==
  /\ w \in Works /\ w.next = nextResult /\ w.causes = causes
  /\ w.e.kind = e.kind /\ w.e.shutterTS = e.shutterTS /\ w.e.status = e.status
  /\ w.e.isMetaPresent <=> e.isMetaPresent \/ part = Last
  /\ w.e.sensorTS <=> e.sensorTS \/ part = TimestampPart
  /\ w.e.pendingBuffers = e.pendingBuffers
  /\ w.e.pendingMetadata = e.pendingMetadata
  /\ part \in Parts \ {Last} => w.e.composedResult = e.composedResult \cup {part}
  /\ part \notin Parts => w.e.composedResult = e.composedResult
  /\ \A q \in Requests \ {r} : w.client[q] = client[q]
  /\ w.client[r].shutters = client[r].shutters
  /\ w.client[r].results = client[r].results
  /\ w.client[r].result = client[r].result
  /\ w.client[r].unstamped = client[r].unstamped
  /\ \A b \in Outputs : w.client[r].returned[b] = client[r].returned[b]
  /\ w.client[r].partial = IF part \in Parts \ {Last} THEN w.e.composedResult
                           ELSE client[r].partial

\* That is what the first half of HandleCaptureResult does.
LEMMA ResultNoted ==
  ASSUME IInv, JInv, NEW r \in Requests, NEW part \in Parts \cup {0},
         NEW bufs \in SUBSET (Outputs \cup {0}), Known(r), r = <<r[1], r[2]>>,
         NEW e, e = pending[r[2]], NEW w, w = Heard(e, r, part, bufs)
  PROVE  Notes(w, e, r, part)
<1> DEFINE f == Noted(e, part, Cardinality(bufs))
           told == IF part \in Parts /\ part # PartialResultCount
                   THEN [client EXCEPT ![<<e.kind, r[2]>>].partial = f.composedResult]
                   ELSE client
           back == IF 0 \in bufs THEN [told EXCEPT ![r].returned[0] = @ + 1] ELSE told
<1>0. /\ TypeOK /\ e \in PendingRequest /\ e.kind = r[1] /\ Cardinality(bufs) \in Nat
      /\ Last \in Parts /\ 0 \notin Outputs /\ client \in [Requests -> ClientRequest]
  <2>1. Cardinality(bufs) \in Nat
    BY BufferCount
  <2>2. Last \in Parts /\ 0 \notin Outputs
    BY SMT, ResultsAssumption DEF Last, Parts, Outputs
  <2> QED
    BY <2>1, <2>2 DEF IInv, Basic, TypeOK, Known
<1>1. w = [Work(f) EXCEPT !.client = back]
  BY DEF Heard
<1>2. /\ f \in PendingRequest /\ f.kind = e.kind /\ f.pendingBuffers = e.pendingBuffers
  <2> DEFINE count == Cardinality(bufs)
  <2>1. count \in Nat
    BY <1>0
  <2> HIDE DEF count
  <2>2. Noted(e, part, count) \in PendingRequest
    BY <1>0, <2>1, NotedGives
  <2>3. f.kind = e.kind /\ f.pendingBuffers = e.pendingBuffers
    BY <1>0 DEF Noted, PendingRequest
  <2> QED
    BY <2>2, <2>3 DEF count
<1>3. /\ f.shutterTS = e.shutterTS /\ f.status = e.status
      /\ f.pendingMetadata = e.pendingMetadata
      /\ f.isMetaPresent <=> e.isMetaPresent \/ part = Last
      /\ f.sensorTS <=> e.sensorTS \/ part = TimestampPart
  BY <1>0 DEF Noted, PendingRequest, Last
<1>4. /\ part \in Parts \ {Last} => f.composedResult = e.composedResult \cup {part}
      /\ part \notin Parts => f.composedResult = e.composedResult
  BY <1>0 DEF Noted, PendingRequest, Last
<1>5. f.composedResult \in SUBSET Parts
  BY <1>2 DEF PendingRequest
<1> HIDE DEF f
<1> DEFINE g == [client EXCEPT ![r].partial = f.composedResult]
           c == [client[r] EXCEPT !.partial = f.composedResult]
<1>6. g \in [Requests -> ClientRequest]
  BY <1>0, <1>5, BackGives
<1>7. /\ c.partial = f.composedResult /\ c.shutters = client[r].shutters
      /\ c.results = client[r].results /\ c.result = client[r].result
      /\ c.unstamped = client[r].unstamped /\ c.returned = client[r].returned
  BY <1>0 DEF ClientRequest
<1>8. g[r] = c /\ \A q \in Requests \ {r} : g[q] = client[q]
  BY <1>0
<1> HIDE DEF c, g
<1>9. /\ told \in [Requests -> ClientRequest]
      /\ \A q \in Requests \ {r} : told[q] = client[q]
      /\ told[r].shutters = client[r].shutters
      /\ told[r].results = client[r].results /\ told[r].result = client[r].result
      /\ told[r].unstamped = client[r].unstamped /\ told[r].returned = client[r].returned
      /\ told[r].partial = IF part \in Parts \ {Last} THEN f.composedResult
                           ELSE client[r].partial
  <2>1. told = IF part \in Parts \ {Last} THEN g ELSE client
    <3>1. <<e.kind, r[2]>> = r
      BY <1>0
    <3> QED
      BY <3>1 DEF g, Last
  <2> HIDE DEF told
  <2> QED
    BY <1>0, <1>6, <1>7, <1>8, <2>1
<1> HIDE DEF told
<1>10. /\ back \in [Requests -> ClientRequest]
       /\ \A q \in Requests \ {r} : back[q] = told[q]
       /\ SameTold(told[r], back[r]) /\ back[r].unstamped = told[r].unstamped
       /\ \A b \in Outputs : back[r].returned[b] = told[r].returned[b]
  <2> DEFINE d == [told EXCEPT ![r].returned[0] = @ + 1]
  <2>1. d \in [Requests -> ClientRequest] /\ GivesBack(told, d, {<<r, 0>>})
    <3>1. told \in [Requests -> ClientRequest]
      BY <1>9
    <3>2. {} \in SUBSET Parts
      OBVIOUS
    <3> QED
      BY <3>1, <3>2, BackGives, Zenon
  <2>2. \A b \in Outputs : d[r].returned[b] = told[r].returned[b]
    BY SMT, <1>0, <2>1 DEF GivesBack
  <2>3. \A q \in Requests \ {r} : d[q] = told[q]
    BY <1>9
  <2>4. SameTold(told[r], d[r]) /\ d[r].unstamped = told[r].unstamped
    <3> DEFINE R == [told[r].returned EXCEPT ![0] = @ + 1]
    <3>1. d[r] = [told[r] EXCEPT !.returned = R] /\ told[r] \in ClientRequest
      BY <1>9
    <3> HIDE DEF R, d
    <3> QED
      BY <3>1 DEF SameTold, ClientRequest
  <2>5. back = IF 0 \in bufs THEN d ELSE told
    OBVIOUS
  <2> HIDE DEF d, back
  <2> QED
    BY <1>9, <2>1, <2>2, <2>3, <2>4, <2>5 DEF SameTold
<1> HIDE DEF back
<1>11. w \in Works /\ w.e = f /\ w.client = back /\ w.next = nextResult /\ w.causes = causes
  BY <1>0, <1>1, <1>2, <1>10 DEF Works, Work, TypeOK
<1>12. /\ \A q \in Requests \ {r} : w.client[q] = client[q]
       /\ w.client[r].shutters = client[r].shutters
       /\ w.client[r].results = client[r].results
       /\ w.client[r].result = client[r].result
       /\ w.client[r].unstamped = client[r].unstamped
       /\ \A b \in Outputs : w.client[r].returned[b] = client[r].returned[b]
       /\ w.client[r].partial = IF part \in Parts \ {Last} THEN f.composedResult
                                ELSE client[r].partial
  BY <1>9, <1>10, <1>11 DEF SameTold
<1> QED
  BY <1>2, <1>3, <1>4, <1>11, <1>12 DEF Notes

\* What HandleCaptureResult hands to RemovePendingRequestLocked.
AfterShutter(w, e, r, part, bufs) ==
  ReturnOutputBuffers(
    IF part = Last THEN SendCaptureResult(w, r[2], {part}, e.composedResult) ELSE w,
    OutputsReturned(r, bufs), FailedBuffers(hal'), 1)
UntilShutter(w, e, r, part, bufs) ==
  [w EXCEPT !.e = Kept(w.e, part, OutputsReturned(r, bufs), e.composedResult)]

\* When no number is shared it gets there for every pending frame: the last
\* part comes once, and no more buffers than remain.
LEMMA ResultGetsThere ==
  ASSUME IInv, JInv, NEW r \in Requests, NEW part \in Parts \cup {0},
         NEW bufs \in SUBSET hal[r].owned, NEW bad \in SUBSET (bufs \ {0}),
         HalResult(r, part, bufs, bad), "shared" \notin troubles',
         NEW e, e = pending[r[2]], NEW w, w = Heard(e, r, part, bufs), r[2] \in DOMAIN pending
  PROVE  /\ Known(r) /\ e \in PendingRequest /\ e.kind = r[1]
         /\ e.pendingBuffers \in SUBSET ({r} \X Outputs)
         /\ Notes(w, e, r, part)
         /\ RemovePendingRequestLocked(
              IF Shuttered(e) THEN AfterShutter(w, e, r, part, bufs)
              ELSE UntilShutter(w, e, r, part, bufs), r[2], FailedBuffers(hal'))
<1> DEFINE n == r[2]
           noted == Noted(e, part, Cardinality(bufs))
           v == IF Shuttered(e) THEN AfterShutter(w, e, r, part, bufs)
                ELSE UntilShutter(w, e, r, part, bufs)
<1>0. TypeOK /\ r \in Sent /\ r = <<r[1], r[2]>>
  BY RequestShape DEF IInv, Basic, HalResult
<1>1. ResultSent(r, part, bufs)
  BY ResultHal
<1>2. /\ HalOwes(r) /\ "shared" \notin troubles /\ bufs \in SUBSET (Outputs \cup {0})
      /\ part = Last => Last \notin hal[r].parts
  <2>1. part = Last => part # 0
    BY ResultsAssumption DEF Last
  <2> QED
    BY <1>1, <2>1 DEF ResultSent, HalMoves
<1>3. /\ Apart /\ Known(r) /\ e \in PendingRequest /\ e.kind = r[1]
      /\ e.pendingBuffers \in SUBSET ({r} \X Outputs)
  BY <1>0, <1>2, OwnEntry
<1>4. Notes(w, e, r, part)
  BY <1>0, <1>2, <1>3, ResultNoted
<1>5. ~(part = Last /\ e.isMetaPresent)
  BY <1>0, <1>2, <1>3 DEF Apart, Agrees, Last
<1>6. ~(noted.buffersRemaining < 0)
  <2>1. hal[r].fault # "unsent"
    BY ResultMoves
  <2>2. e.buffersRemaining = Cardinality(hal[r].owned)
    BY <1>0, <1>3, <2>1 DEF Apart, Agrees
  <2>3. hal[r].owned \in SUBSET (Outputs \cup {0})
    BY <1>0 DEF TypeOK, HalRequest
  <2>4. /\ Cardinality(hal[r].owned \ bufs) = Cardinality(hal[r].owned) - Cardinality(bufs)
        /\ Cardinality(hal[r].owned \ bufs) \in Nat
    BY <2>3, BufferCount
  <2>5. noted.buffersRemaining = e.buffersRemaining - Cardinality(bufs)
    BY <1>3 DEF Noted, PendingRequest
  <2> QED
    BY SMT, <2>2, <2>4, <2>5
<1>7. w.e = noted
  BY DEF Heard, Work
<1>8. HandleCaptureResult(r, part, bufs, FailedBuffers(hal'))
  BY DEF HalResult
<1>9. RemovePendingRequestLocked(v, n, FailedBuffers(hal'))
  BY <1>5, <1>6, <1>7, <1>8
     DEF HandleCaptureResult, AfterShutter, UntilShutter, Heard, Last
<1> QED
  BY <1>3, <1>4, <1>9

\* What is known of r's entry and record when a result comes.
LEMMA BeforeResult ==
  ASSUME TypeOK, JInv, NEW r \in Requests, Known(r), "shared" \notin troubles
  PROVE  /\ Told(client[r], hal[r]) /\ EntryFits(pending[r[2]], client[r], hal[r])
         /\ client[r].results \in Nat
         /\ Last \notin hal[r].parts => client[r].results = 0
         /\ pending[r[2]].shutterTS => hal[r].shutter /\ client[r].shutters = 1
<1>1. Told(client[r], hal[r]) /\ EntryFits(pending[r[2]], client[r], hal[r])
  BY DEF JInv, Fitting
<1>2. client[r].results \in Nat
  BY DEF TypeOK, ClientRequest
<1>3. Last \notin hal[r].parts => client[r].results = 0
  BY SMT, <1>1, <1>2 DEF Told
<1>4. pending[r[2]].shutterTS => hal[r].shutter /\ client[r].shutters = 1
  BY SMT, <1>1 DEF Told, EntryFits
<1> QED
  BY <1>1, <1>2, <1>3, <1>4

\* A result before the shutter is kept.
LEMMA ResultKept ==
  ASSUME IInv, IInv', JInv, NEW r \in Requests, NEW part \in Parts \cup {0},
         NEW bufs \in SUBSET (Outputs \cup {0}), "shared" \notin troubles',
         NEW e, e = pending[r[2]], Known(r), e \in PendingRequest, e.kind = r[1],
         e.pendingBuffers \in SUBSET ({r} \X Outputs), ~e.shutterTS,
         ResultSent(r, part, bufs), NEW w, Notes(w, e, r, part),
         NEW z, z = UntilShutter(w, e, r, part, bufs)
  PROVE  Ready(z, r)
<1> DEFINE h == hal'[r]
<1>0. TypeOK /\ r \in Sent /\ Last \in Parts /\ Last # 0 /\ 0 \notin Parts
  BY SMT, ResultsAssumption DEF IInv, Basic, ResultSent, HalMoves, Last, Parts
<1>1. /\ HalMoves(r) /\ HalKeeps(h) /\ h.shutter = hal[r].shutter
      /\ h.notified = hal[r].notified /\ h.fault = hal[r].fault
      /\ part = 0 => h.parts = hal[r].parts
      /\ part # 0 => h.parts = hal[r].parts \cup {part} /\ Last \notin hal[r].parts
      /\ "shared" \notin troubles /\ (troubles' = {} => troubles = {} /\ HalInTurn')
  BY DEF ResultSent, HalMoves
<1>2. /\ Told(client[r], hal[r]) /\ EntryFits(e, client[r], hal[r])
      /\ Last \notin hal[r].parts => client[r].results = 0
  BY <1>0, <1>1, BeforeResult
<1>3. e.pendingMetadata = hal[r].parts \cap {Last} /\ e.composedResult = hal[r].parts \ {Last}
  BY <1>2 DEF EntryFits
<1> DEFINE outs == OutputsReturned(r, bufs)
           f == Kept(w.e, part, outs, e.composedResult)
<1>4. outs \in SUBSET ({r} \X Outputs) /\ outs \in SUBSET (Requests \X Outputs)
      /\ w \in Works /\ w.e \in PendingRequest /\ e.composedResult \in SUBSET Parts
  BY DEF OutputsReturned, Notes, Works, PendingRequest
<1>5. /\ f.kind = w.e.kind /\ f.shutterTS = w.e.shutterTS /\ f.status = w.e.status
      /\ f.isMetaPresent = w.e.isMetaPresent /\ f.sensorTS = w.e.sensorTS
      /\ f.pendingBuffers = w.e.pendingBuffers \cup outs
      /\ f.pendingMetadata = IF part = Last THEN {part} ELSE w.e.pendingMetadata
      /\ f.composedResult = IF part = Last THEN e.composedResult ELSE w.e.composedResult
  BY <1>4 DEF Kept, PendingRequest, Last
<1>6. f \in PendingRequest
  <2> DEFINE C == e.composedResult
  <2> HIDE DEF C, outs
  <2>1. Kept(w.e, part, outs, C) \in PendingRequest
    BY <1>4, KeptGives DEF C
  <2> QED
    BY <2>1 DEF C
<1> HIDE DEF f
<1>7. z \in Works /\ z.e = f /\ z.client = w.client /\ z.next = w.next /\ z.causes = w.causes
  BY <1>4, <1>6 DEF UntilShutter, Works, f
<1>8. z.e.pendingBuffers \in SUBSET ({r} \X Outputs) /\ z.e.kind = r[1]
  BY <1>4, <1>5, <1>7 DEF Notes
<1>9. /\ z.e.pendingMetadata = h.parts \cap {Last}
  BY SMT, <1>0, <1>1, <1>3, <1>5, <1>7 DEF Notes
<1>10. z.e.composedResult = h.parts \ {Last}
  <2>1. CASE part = Last
    BY <1>0, <1>1, <1>3, <1>5, <1>7, <2>1
  <2>2. CASE part = 0
    BY SMT, <1>0, <1>1, <1>3, <1>5, <1>7, <2>2 DEF Notes
  <2>3. CASE part \in Parts \ {Last}
    <3>1. z.e.composedResult = e.composedResult \cup {part}
      BY <1>5, <1>7, <2>3 DEF Notes
    <3> QED
      BY <1>0, <1>1, <1>3, <2>3, <3>1
  <2> QED
    BY <2>1, <2>2, <2>3
<1>11. /\ z.e.isMetaPresent <=> Last \in h.parts
       /\ z.e.sensorTS <=> TimestampPart \in h.parts
  <2>0. TimestampPart \in Parts
    BY ResultsAssumption DEF Parts
  <2>1. /\ e.isMetaPresent <=> Last \in hal[r].parts
        /\ e.sensorTS <=> TimestampPart \in hal[r].parts
    BY <1>2 DEF EntryFits
  <2>2. /\ z.e.isMetaPresent <=> e.isMetaPresent \/ part = Last
        /\ z.e.sensorTS <=> e.sensorTS \/ part = TimestampPart
    BY <1>5, <1>7 DEF Notes
  <2> QED
    BY <1>0, <1>1, <2>0, <2>1, <2>2
<1>12. EntryFits(z.e, z.client[r], h)
  <2>1. ~z.e.shutterTS /\ z.e.status = e.status
    BY <1>5, <1>7 DEF Notes
  <2> QED
    BY <1>1, <1>2, <1>9, <1>10, <1>11, <2>1 DEF EntryFits
<1>13. z.client[r].partial \subseteq h.parts \ {Last}
  <2>1. CASE part \in Parts \ {Last}
    <3>1. z.client[r].partial = w.e.composedResult
      BY <1>7, <2>1 DEF Notes
    <3> QED
      BY <1>5, <1>7, <1>10, <2>1, <3>1
  <2>2. CASE part \notin Parts \ {Last}
    <3>1. z.client[r].partial = client[r].partial
      BY <1>7, <2>2 DEF Notes
    <3> QED
      BY <1>1, <1>2, <3>1 DEF Told
  <2> QED
    BY <2>1, <2>2
<1>14. /\ z.client[r].shutters = client[r].shutters /\ z.client[r].results = client[r].results
       /\ z.client[r].result = client[r].result
       /\ z.client[r].unstamped = client[r].unstamped
       /\ \A b \in Outputs : z.client[r].returned[b] = client[r].returned[b]
       /\ part \notin Parts \ {Last} => z.client[r].partial = client[r].partial
  BY <1>7 DEF Notes
<1>15. Told(z.client[r], h)
  <2>1. z.client[r].results > 0
          => /\ z.client[r].shutters = 1 /\ Last \in h.parts
             /\ z.client[r].partial \subseteq z.client[r].result
    <3>1. CASE part = 0
      BY <1>0, <1>1, <1>2, <1>14, <3>1 DEF Told
    <3>2. CASE part # 0
      <4>1. z.client[r].results = 0
        BY <1>1, <1>2, <1>14, <3>2
      <4> QED
        BY SMT, <4>1
    <3> QED
      BY <3>1, <3>2
  <2> QED
    BY <1>1, <1>2, <1>13, <1>14, <2>1 DEF Told
<1>16. ASSUME troubles' = {}, hal[r].fault = "none"
       PROVE  (z.e.shutterTS <=> h.shutter) /\ Served(z.client[r], h)
  <2>1. Clean(r)
    BY <1>0, <1>1, <1>16 DEF JInv
  <2>2. ~h.shutter /\ ~z.e.shutterTS
    BY <1>1, <1>5, <1>7, <2>1 DEF Clean, Notes
  <2> QED
    BY <1>1, <1>14, <2>1, <2>2 DEF Clean, Served
<1>17. ASSUME troubles' = {} PROVE ResultsInTurn(hal', z.next)
  <2>1. z.next = nextResult /\ nextResult \in [Kinds -> Nat] /\ ResultsInTurn(hal, nextResult)
    BY <1>0, <1>1, <1>7, <1>17 DEF Notes, TypeOK, JInv, InTurn
  <2>2. hal[r].parts \subseteq h.parts
    BY <1>1
  <2> QED
    BY <1>0, <1>1, <1>17, <2>1, <2>2, StayInTurn
<1>18. troubles' = {} /\ Faulty = {} => z.causes = {}
  <2>1. z.causes = causes
    BY <1>7 DEF Notes
  <2> QED
    BY <1>1, <2>1 DEF JInv
<1>19. \A q \in Requests \ {r} : Same(client[q], z.client[q])
  BY SMT, <1>7 DEF Notes, Same, SameTold
<1> QED
  BY <1>7, <1>8, <1>12, <1>15, <1>16, <1>17, <1>18, <1>19 DEF Ready

\* A result after the shutter goes to the client.
LEMMA ResultPassed ==
  ASSUME IInv, IInv', JInv, NEW r \in Requests, NEW part \in Parts \cup {0},
         NEW bufs \in SUBSET (Outputs \cup {0}), "shared" \notin troubles',
         NEW e, e = pending[r[2]], Known(r), e \in PendingRequest, e.kind = r[1],
         e.pendingBuffers \in SUBSET ({r} \X Outputs), e.shutterTS,
         ResultSent(r, part, bufs), NEW w, Notes(w, e, r, part),
         NEW y, y = AfterShutter(w, e, r, part, bufs)
  PROVE  Ready(y, r)
<1> DEFINE h == hal'[r]
           n == r[2]
<1>0. /\ TypeOK /\ r \in Sent /\ Last \in Parts /\ Last # 0 /\ 0 \notin Parts
      /\ n \in Nat /\ r = <<r[1], n>> /\ r[1] \in Kinds
  BY SMT, ResultsAssumption, RequestShape DEF IInv, Basic, ResultSent, HalMoves, Last, Parts
<1>1. /\ HalMoves(r) /\ HalKeeps(h) /\ h.shutter = hal[r].shutter
      /\ h.notified = hal[r].notified /\ h.fault = hal[r].fault
      /\ part = 0 => h.parts = hal[r].parts
      /\ part # 0 => /\ h.parts = hal[r].parts \cup {part} /\ Last \notin hal[r].parts
                     /\ part = Last => ~NoResult(r)
      /\ "shared" \notin troubles /\ (troubles' = {} => troubles = {} /\ HalInTurn')
  BY DEF ResultSent, HalMoves
<1>2. /\ Told(client[r], hal[r]) /\ EntryFits(e, client[r], hal[r])
      /\ Last \notin hal[r].parts => client[r].results = 0
      /\ h.shutter /\ client[r].shutters = 1 /\ e.pendingBuffers = {}
      /\ Last \notin hal[r].parts => e.composedResult = hal[r].parts
  <2>1. /\ Told(client[r], hal[r]) /\ EntryFits(e, client[r], hal[r])
        /\ Last \notin hal[r].parts => client[r].results = 0
        /\ h.shutter /\ client[r].shutters = 1
    BY <1>0, <1>1, BeforeResult
  <2> QED
    BY <2>1 DEF EntryFits
<1> DEFINE outs == OutputsReturned(r, bufs)
           C == e.composedResult
           x == IF part = Last THEN SendCaptureResult(w, n, {Last}, C) ELSE w
           F == FailedBuffers(hal')
<1>3. /\ outs \in SUBSET ({r} \X Outputs) /\ w \in Works /\ C \in SUBSET Parts
      /\ w.e.kind = r[1] /\ {Last} \in SUBSET Parts
  BY <1>0 DEF OutputsReturned, Notes, PendingRequest
<1>4. y = ReturnOutputBuffers(x, outs, F, 1)
  BY DEF AfterShutter
<1>5. C # hal[r].parts => part = 0
  BY <1>1, <1>2
<1> HIDE DEF outs, C, F
<1>6. /\ x \in Works /\ x.e = w.e
      /\ \A q \in Requests \ {r} : x.client[q] = w.client[q]
      /\ x.client[r].shutters = w.client[r].shutters
      /\ x.client[r].partial = w.client[r].partial
      /\ x.client[r].unstamped = w.client[r].unstamped
      /\ part = Last => HeldBack(w, x, r, {Last}, C) \/ PassedOn(w, x, r, {Last}, C)
      /\ part # Last => x = w
  <2>1. CASE part # Last
    BY <1>3, <2>1
  <2>2. CASE part = Last
    <3>1. x = SendCaptureResult(w, n, {Last}, C) /\ r = <<w.e.kind, n>>
      BY <1>0, <1>3, <2>2
    <3> DEFINE M == {Last}
    <3>2. M \in SUBSET Parts /\ x = SendCaptureResult(w, n, M, C)
      BY <1>3, <3>1
    <3> HIDE DEF M, x
    <3>3. x \in Works /\ x.e = w.e
      BY SMT, <1>0, <1>3, <3>1, <3>2, SendKeeps
    <3>4. /\ \A q \in Requests \ {r} : x.client[q] = w.client[q]
          /\ x.client[r].shutters = w.client[r].shutters
          /\ x.client[r].partial = w.client[r].partial
          /\ x.client[r].unstamped = w.client[r].unstamped
          /\ HeldBack(w, x, r, M, C) \/ PassedOn(w, x, r, M, C)
      BY SMT, <1>0, <1>3, <3>1, <3>2, SendTells
    <3> QED
      BY <2>2, <3>3, <3>4 DEF M
  <2> QED
    BY <2>1, <2>2
<1> HIDE DEF x
<1>7. y \in Works /\ y.next = x.next /\ y.causes = x.causes /\ Returned(x, y, r, outs, F, 1)
  <2>1. 1 \in {0, 1} /\ outs \in SUBSET (Requests \X Outputs) /\ x \in Works
    BY <1>3, <1>6
  <2>2. y \in Works /\ y.next = x.next /\ y.causes = x.causes
    BY SMT, <1>4, <2>1, ReturnGives
  <2>3. Returned(x, y, r, outs, F, 1)
    BY <1>3, <1>4, <2>1, ReturnTells
  <2> QED
    BY <2>2, <2>3
<1>8. /\ y.e.kind = e.kind /\ y.e.shutterTS = e.shutterTS
      /\ y.e.isMetaPresent = w.e.isMetaPresent /\ y.e.sensorTS = w.e.sensorTS
      /\ y.e.composedResult = w.e.composedResult /\ y.e.pendingBuffers = {}
  <2>1. w.e \in PendingRequest /\ y.e = [w.e EXCEPT !.status = y.e.status]
    BY <1>3, <1>6, <1>7 DEF Returned, Works
  <2>2. w.e.kind = e.kind /\ w.e.shutterTS = e.shutterTS /\ w.e.pendingBuffers = {}
    BY <1>2 DEF Notes
  <2> QED
    BY <2>1, <2>2 DEF PendingRequest
<1>9. y.e.status # e.status => y.e.status = "BUFFER" /\ h.failed # {}
  <2>1. y.e.status # e.status => y.e.status = "BUFFER" /\ outs \cap F # {}
    <3>1. w.e.status = e.status /\ x.e = w.e
      BY <1>6 DEF Notes
    <3>2. y.e.status # x.e.status => y.e.status = "BUFFER" /\ outs \cap F # {}
      BY <1>7 DEF Returned
    <3> QED
      BY <3>1, <3>2
  <2>2. outs \cap F # {} => h.failed # {}
    BY <1>3 DEF F, FailedBuffers
  <2> QED
    BY <2>1, <2>2
<1>10. /\ y.e.isMetaPresent <=> Last \in h.parts
       /\ y.e.sensorTS <=> TimestampPart \in h.parts
  <2>0. TimestampPart \in Parts
    BY ResultsAssumption DEF Parts
  <2>1. /\ e.isMetaPresent <=> Last \in hal[r].parts
        /\ e.sensorTS <=> TimestampPart \in hal[r].parts
    BY <1>2 DEF EntryFits
  <2>2. /\ y.e.isMetaPresent <=> e.isMetaPresent \/ part = Last
        /\ y.e.sensorTS <=> e.sensorTS \/ part = TimestampPart
    BY <1>8 DEF Notes
  <2> QED
    BY <1>0, <1>1, <2>0, <2>1, <2>2
<1>11. Last \notin h.parts => w.e.composedResult = h.parts
  <2>1. CASE part = 0
    BY <1>0, <1>1, <1>2, <2>1 DEF Notes
  <2>2. CASE part \in Parts \ {Last}
    <3>1. w.e.composedResult = e.composedResult \cup {part}
      BY <2>2 DEF Notes
    <3> QED
      BY <1>0, <1>1, <1>2, <2>2, <3>1
  <2>3. CASE part = Last
    BY <1>0, <1>1, <2>3
  <2> QED
    BY <2>1, <2>2, <2>3
<1>12. /\ y.client[r].shutters = 1 /\ y.client[r].unstamped = client[r].unstamped
       /\ y.client[r].results = x.client[r].results /\ y.client[r].result = x.client[r].result
       /\ y.client[r].partial = w.client[r].partial
       /\ \A q \in Requests \ {r} : Same(client[q], y.client[q])
  <2>1. /\ SameTold(x.client[r], y.client[r]) /\ y.client[r].unstamped = x.client[r].unstamped
        /\ \A q \in Requests \ {r} : Same(x.client[q], y.client[q])
    BY <1>7 DEF Returned
  <2>2. /\ w.client[r].shutters = 1 /\ w.client[r].unstamped = client[r].unstamped
        /\ \A q \in Requests \ {r} : w.client[q] = client[q]
    BY <1>2 DEF Notes
  <2>3. \A q \in Requests \ {r} : Same(client[q], y.client[q])
    BY <1>6, <2>1, <2>2
  <2> QED
    BY <1>6, <2>1, <2>2, <2>3 DEF SameTold
<1>13. EntryFits(y.e, y.client[r], h)
  <2>1. h.fault = "none" => y.e.status = "OK"
    BY <1>1, <1>2, <1>9 DEF EntryFits, HalKeeps
  <2>2. h.notified => y.e.status # "OK"
    BY <1>1, <1>2, <1>9 DEF EntryFits
  <2>3. Last \notin h.parts => y.e.composedResult = h.parts
    BY <1>8, <1>11
  <2> QED
    BY <1>8, <1>10, <1>12, <2>1, <2>2, <2>3 DEF EntryFits
<1>14. w.client[r].partial \subseteq h.parts \ {Last}
  <2>1. CASE part \in Parts \ {Last}
    <3>1. w.client[r].partial = w.e.composedResult
      BY <2>1 DEF Notes
    <3>2. Last \notin h.parts
      BY SMT, <1>0, <1>1, <2>1
    <3> QED
      BY <1>11, <3>1, <3>2
  <2>2. CASE part \notin Parts \ {Last}
    <3>1. w.client[r].partial = client[r].partial
      BY <2>2 DEF Notes
    <3> QED
      BY <1>1, <1>2, <3>1 DEF Told
  <2> QED
    BY <2>1, <2>2
<1>15. w.client[r].results = client[r].results /\ w.client[r].result = client[r].result
       /\ w.next = nextResult /\ w.causes = causes
  BY DEF Notes
<1>16. part = Last => {Last} \cup C = h.parts
  <2>1. part = Last => C = hal[r].parts
    BY <1>0, <1>5
  <2> QED
    BY <1>0, <1>1, <2>1
<1>17. y.client[r].results > 0
         => Last \in h.parts /\ y.client[r].partial \subseteq y.client[r].result
  <2>1. CASE part = 0
    <3>1. x = w /\ h.parts = hal[r].parts /\ w.client[r].partial = client[r].partial
      BY <1>0, <1>1, <1>6, <2>1 DEF Notes
    <3> QED
      BY <1>2, <1>12, <1>15, <3>1 DEF Told
  <2>2. CASE part \in Parts \ {Last}
    <3>1. x = w /\ client[r].results = 0
      BY <1>0, <1>1, <1>2, <1>6, <2>2
    <3>2. y.client[r].results = 0
      BY <1>12, <1>15, <3>1
    <3> QED
      BY SMT, <3>2
  <2>3. CASE part = Last
    <3>1. client[r].results = 0 /\ Last \in h.parts
      BY <1>0, <1>1, <1>2, <2>3
    <3>2. CASE HeldBack(w, x, r, {Last}, C)
      <4>1. y.client[r].results = 0
        BY <1>12, <1>15, <3>1, <3>2 DEF HeldBack
      <4> QED
        BY SMT, <4>1
    <3>3. CASE PassedOn(w, x, r, {Last}, C)
      <4>1. y.client[r].result = h.parts
        BY <1>12, <1>16, <2>3, <3>3 DEF PassedOn
      <4> QED
        BY <1>12, <1>14, <3>1, <4>1
    <3> QED
      BY <1>6, <2>3, <3>2, <3>3
  <2> QED
    BY <2>1, <2>2, <2>3
<1>18. Told(y.client[r], h)
  BY <1>2, <1>12, <1>14, <1>17 DEF Told
<1>19. ASSUME troubles' = {}, hal[r].fault = "none", part = Last
       PROVE  PassedOn(w, x, r, {Last}, C)
  <2>1. ~(n < nextResult[r[1]])
    <3>1. nextResult[r[1]] \in Nat
      BY <1>0 DEF TypeOK
    <3>2. Last \notin hal[r].parts /\ ResultsInTurn(hal, nextResult)
      BY <1>0, <1>1, <1>19 DEF JInv, InTurn
    <3> QED
      BY SMT, <1>0, <1>19, <3>1, <3>2 DEF ResultsInTurn
  <2>2. TimestampPart \in {Last} \cup C
    BY <1>0, <1>1, <1>16, <1>19 DEF HalKeeps
  <2> QED
    BY <1>6, <1>15, <1>19, <2>1, <2>2 DEF HeldBack
<1>20. ASSUME troubles' = {}, hal[r].fault = "none" PROVE Served(y.client[r], h)
  <2>1. Served(client[r], hal[r])
    BY <1>0, <1>1, <1>20 DEF JInv, Clean
  <2>2. CASE part = Last
    <3>1. Last \in h.parts /\ client[r].results = 0
      BY <1>0, <1>1, <1>2, <2>2
    <3>2. y.client[r].results = client[r].results + 1 /\ y.client[r].result = {Last} \cup C
      BY <1>12, <1>15, <1>19, <1>20, <2>2 DEF PassedOn
    <3>3. client[r].results + 1 = 1
      BY SMT, <3>1
    <3>4. y.client[r].results = 1 /\ y.client[r].result = h.parts
      BY <1>16, <2>2, <3>2, <3>3
    <3> QED
      BY <1>2, <1>12, <2>1, <3>1, <3>4 DEF Served
  <2>3. CASE part # Last
    <3>1. /\ Last \in h.parts <=> Last \in hal[r].parts
          /\ Last \in h.parts => h.parts = hal[r].parts
      BY <1>0, <1>1, <2>3
    <3>2. y.client[r].results = client[r].results /\ y.client[r].result = client[r].result
      <4>1. x = w
        BY <1>6, <2>3
      <4> QED
        BY <1>12, <1>15, <4>1
    <3> QED
      BY <1>1, <1>2, <1>12, <2>1, <3>1, <3>2 DEF Served
  <2> QED
    BY <2>2, <2>3
<1>21. ASSUME troubles' = {} PROVE ResultsInTurn(hal', y.next)
  <2>1. nextResult \in [Kinds -> Nat] /\ ResultsInTurn(hal, nextResult)
    BY <1>0, <1>1, <1>21 DEF TypeOK, JInv, InTurn
  <2>2. hal[r].parts \subseteq h.parts
    BY <1>1
  <2>3. \/ y.next = nextResult
        \/ Last \in h.parts /\ y.next = [nextResult EXCEPT ![r[1]] = r[2] + 1]
    <3>1. CASE part = Last
      <4>1. Last \in h.parts
        BY <1>0, <1>1, <3>1
      <4> QED
        BY <1>6, <1>7, <1>15, <3>1, <4>1 DEF HeldBack, PassedOn
    <3>2. CASE part # Last
      BY <1>6, <1>7, <1>15, <3>2
    <3> QED
      BY <3>1, <3>2
  <2>4. /\ ResultsInTurn(hal', nextResult)
        /\ Last \in h.parts => ResultsInTurn(hal', [nextResult EXCEPT ![r[1]] = r[2] + 1])
    <3>1. HalMoves(r) /\ HalInTurn' /\ (hal[r].shutter => h.shutter) /\ h.shutter
      BY <1>1, <1>2, <1>21
    <3> QED
      BY <1>0, <2>1, <2>2, <3>1, StayInTurn
  <2> QED
    BY <2>3, <2>4
<1>22. ASSUME troubles' = {}, Faulty = {} PROVE y.causes = {}
  <2>1. hal[r].fault = "none" /\ causes = {}
    BY <1>1, <1>22 DEF Faulty, JInv
  <2>2. x.causes = w.causes
    BY <1>6, <1>19, <1>22, <2>1 DEF PassedOn
  <2> QED
    BY <1>7, <1>15, <2>1, <2>2
<1> QED
  BY <1>2, <1>7, <1>8, <1>13, <1>12, <1>18, <1>20, <1>21, <1>22 DEF Ready

\* HandleCaptureResult keeps the invariant.
LEMMA ResultServes ==
  ASSUME IInv, IInv', JInv, NEW r \in Requests, NEW part \in Parts \cup {0},
         NEW bufs \in SUBSET hal[r].owned, NEW bad \in SUBSET (bufs \ {0}),
         HalResult(r, part, bufs, bad)
  PROVE  JInv'
<1>1. ResultSent(r, part, bufs)
  BY ResultHal
<1>2. HalMoves(r) /\ HalKeeps(hal'[r]) /\ bufs \in SUBSET (Outputs \cup {0})
  BY <1>1 DEF ResultSent
<1>3. ASSUME "shared" \notin troubles' PROVE Settled(r)
  <2>1. CASE r[2] \notin DOMAIN pending
    BY <1>3, <2>1, ResultUnknown
  <2>2. CASE r[2] \in DOMAIN pending
    <3> DEFINE e == pending[r[2]]
               w == Heard(e, r, part, bufs)
               v == IF Shuttered(e) THEN AfterShutter(w, e, r, part, bufs)
                    ELSE UntilShutter(w, e, r, part, bufs)
    <3>1. /\ Known(r) /\ e \in PendingRequest /\ e.kind = r[1]
          /\ e.pendingBuffers \in SUBSET ({r} \X Outputs) /\ Notes(w, e, r, part)
          /\ RemovePendingRequestLocked(v, r[2], FailedBuffers(hal'))
      BY <1>3, <2>2, ResultGetsThere
    <3>2. e = pending[r[2]]
      OBVIOUS
    <3> HIDE DEF e, w
    <3>3. CASE e.shutterTS
      <4>1. v = AfterShutter(w, e, r, part, bufs)
        BY <3>3 DEF Shuttered
      <4> HIDE DEF v
      <4> QED
        BY <1>1, <1>2, <1>3, <3>1, <3>2, <3>3, <4>1, ResultPassed, RemoveReady DEF Moves
    <3>4. CASE ~e.shutterTS
      <4>1. v = UntilShutter(w, e, r, part, bufs)
        BY <3>4 DEF Shuttered
      <4> HIDE DEF v
      <4> QED
        BY <1>1, <1>2, <1>3, <3>1, <3>2, <3>4, <4>1, ResultKept, RemoveReady DEF Moves
    <3> QED
      BY <3>3, <3>4
  <2> QED
    BY <2>1, <2>2
<1>4. nextShutter' = nextShutter
  BY DEF HalResult, HandleCaptureResult, UnknownResult, SET_ERR
<1>5. ASSUME troubles' = {} PROVE HalInTurn' /\ ShuttersInTurn(hal', nextShutter')
  <2>1. /\ HalInTurn' /\ hal'[r].shutter = hal[r].shutter
        /\ hal[r].parts \subseteq hal'[r].parts
    BY <1>1, <1>5 DEF ResultSent
  <2>2. ShuttersInTurn(hal, nextShutter)
    BY <1>2, <1>5 DEF HalMoves, JInv, InTurn
  <2>3. TypeOK /\ nextShutter \in [Kinds -> Nat]
    BY DEF IInv, Basic, TypeOK
  <2>4. ShuttersInTurn(hal', nextShutter)
    BY <1>2, <2>1, <2>2, <2>3, StayInTurn
  <2> QED
    BY <1>4, <2>1, <2>4
<1> QED
  BY <1>2, <1>3, <1>5, SettledKeeps
-----------------------------------------------------------------------------
(* Submission, and the steps that tell the client nothing.                 *)

\* A request starts as the invariant says, and the others are not touched.
LEMMA SubmitServes ==
  ASSUME IInv, IInv', JInv, NEW kind \in Kinds, SubmitRequest(kind)
  PROVE  JInv'
<1>0a. PICK n \in Nat : n = frames[kind] /\ n < FrameLimit[kind]
  BY DEF IInv, Basic, TypeOK, SubmitRequest
<1> DEFINE r == <<kind, n>>
           h == hal'[r]
<1>0. TypeOK /\ TypeOK' /\ Basic
  BY DEF IInv, Basic
<1>1. r \in Requests /\ r \notin Sent /\ r[1] = kind /\ r[2] = n
  BY SMT, <1>0a, RequestShape DEF Sent
<1>2. PICK fault \in Faults \cup {"none"} :
        hal' = [hal EXCEPT ![r].fault = fault,
                           ![r].owned = IF fault = "unsent" THEN {} ELSE Buffers(kind)]
  BY <1>0a DEF SubmitRequest
<1>3. /\ frames' = [frames EXCEPT ![kind] = n + 1]
      /\ pending' = [m \in DOMAIN pending \cup {n} |->
                       IF m = n THEN NewRequest(kind) ELSE pending[m]]
      /\ client' = client /\ causes' = causes
      /\ nextShutter' = nextShutter /\ nextResult' = nextResult
      /\ troubles \subseteq troubles'
      /\ "shared" \notin troubles' => n \notin DOMAIN pending
  BY <1>0a DEF SubmitRequest, MarkPendingRequest
<1> HIDE DEF r
<1>4. /\ \A q \in Requests \ {r} : hal'[q] = hal[q]
      /\ h.parts = hal[r].parts /\ h.shutter = hal[r].shutter /\ h.failed = hal[r].failed
      /\ h.notified = hal[r].notified /\ h.fault = fault
  <2>1. hal[r] \in HalRequest /\ hal \in [Requests -> HalRequest]
    BY <1>0, <1>1 DEF TypeOK
  <2> DEFINE O == IF fault = "unsent" THEN {} ELSE Buffers(kind)
             g == [hal[r] EXCEPT !.fault = fault, !.owned = O]
  <2>2. hal' = [hal EXCEPT ![r] = g]
    BY <1>2, <2>1
  <2> HIDE DEF O
  <2>3. /\ g.parts = hal[r].parts /\ g.shutter = hal[r].shutter /\ g.failed = hal[r].failed
        /\ g.notified = hal[r].notified /\ g.fault = fault
    BY <2>1 DEF HalRequest
  <2> HIDE DEF g
  <2> QED
    BY <1>1, <2>1, <2>2, <2>3
<1>5. /\ hal[r].parts = {} /\ hal[r].fault = "none" /\ ~hal[r].notified /\ ~hal[r].shutter
      /\ hal[r].failed = {}
  BY <1>0, <1>1 DEF Basic, Fresh, JInv, HalKeeps
<1>6. Sent' = Sent \cup {r}
  <2>1. \A k \in Kinds : frames'[k] = IF k = kind THEN n + 1 ELSE frames[k]
    BY <1>0, <1>3 DEF TypeOK
  <2>2. \A q \in Requests : q[1] \in Kinds /\ q[2] \in Nat /\ q = <<q[1], q[2]>>
    BY RequestShape
  <2>3. ASSUME NEW q \in Requests PROVE q \in Sent' <=> q \in Sent \/ q = r
    <3>1. q \in Sent' <=> q[2] < frames'[q[1]]
      BY DEF Sent
    <3>2. q \in Sent <=> q[2] < frames[q[1]]
      BY DEF Sent
    <3>3. q = r <=> q[1] = kind /\ q[2] = n
      BY <1>1, <2>2, <2>3
    <3> QED
      BY SMT, <1>0a, <2>1, <2>2, <3>1, <3>2, <3>3
  <2> QED
    BY <1>1, <2>3 DEF Sent
<1>7. \A q \in Requests : HalKeeps(hal'[q]) /\ (q \notin Sent' => ~hal'[q].shutter)
  <2>1. HalKeeps(h)
    BY <1>4, <1>5 DEF HalKeeps
  <2> QED
    BY <1>1, <1>4, <1>6, <2>1 DEF JInv
<1> DEFINE new == NewRequest(kind)
<1>8. ASSUME "shared" \notin troubles'
      PROVE  /\ \A q \in Requests \ {r} : Untouched(q)
             /\ Known(r)' /\ pending'[n] = new
  <2>1. /\ n \notin DOMAIN pending /\ pending'[n] = new /\ new.kind = kind
        /\ DOMAIN pending' = DOMAIN pending \cup {n}
        /\ \A m \in DOMAIN pending : pending'[m] = pending[m]
    BY <1>3, <1>8 DEF NewRequest
  <2>2. Known(r)'
    BY <1>1, <2>1 DEF Known
  <2>3. ASSUME NEW q \in Requests \ {r} PROVE Untouched(q)
    <3>1. q[2] = n => q[1] # kind
      BY <1>1, RequestShape
    <3>2. (Known(q)' <=> Known(q)) /\ (Known(q) => pending'[q[2]] = pending[q[2]])
      BY <2>1, <3>1 DEF Known
    <3>3. Same(client[q], client'[q])
      BY <1>3 DEF Same, SameTold
    <3> QED
      BY <1>4, <3>2, <3>3 DEF Untouched
  <2> QED
    BY <2>1, <2>2, <2>3
<1>9. /\ new.shutterTS = FALSE /\ new.sensorTS = FALSE /\ new.isMetaPresent = FALSE
      /\ new.status = "OK" /\ new.pendingMetadata = {} /\ new.composedResult = {}
  BY DEF NewRequest
<1> HIDE DEF new
<1>10. ASSUME "shared" \notin troubles'
       PROVE  /\ \A q \in Requests : Fitting(q) /\ Fitting(q)'
              /\ \A q \in Requests \ Sent' : client'[q].unstamped = {}
              /\ client[r].unstamped = {}
  <2>1. /\ \A q \in Requests : Fitting(q)
        /\ \A q \in Requests \ Sent : client[q].unstamped = {}
    BY <1>3, <1>10 DEF JInv
  <2>2. Told(client'[r], h)
    BY <1>1, <1>3, <1>4, <2>1 DEF Fitting, Told
  <2>3. EntryFits(new, client'[r], h)
    BY <1>4, <1>5, <1>9 DEF EntryFits
  <2>4. Fitting(r)'
    BY <1>1, <1>4, <1>5, <1>8, <1>10, <2>2, <2>3 DEF Fitting
  <2>5. \A q \in Requests \ {r} : Fitting(q)'
    BY <1>8, <1>10, <2>1, UntouchedKept
  <2> QED
    BY <1>1, <1>3, <1>6, <2>1, <2>4, <2>5
<1>11. ASSUME troubles' = {}, hal'[r].fault = "none" PROVE Clean(r)'
  <2>1. Known(r)' /\ pending'[n] = new /\ Fitting(r) /\ client[r].unstamped = {}
    BY <1>1, <1>8, <1>10, <1>11
  <2>2. ~HalDone(r)'
    BY <1>4, <1>5, <1>11 DEF HalDone, NoShutter
  <2>3. client[r].results \in Nat
    BY <1>0, <1>1 DEF TypeOK, ClientRequest
  <2>4. client[r].shutters = 0 /\ client[r].results = 0
    BY SMT, <1>5, <2>1, <2>3 DEF Fitting, Told
  <2>5. Served(client'[r], h)
    BY <1>3, <1>4, <1>5, <2>1, <2>4 DEF Served
  <2> QED
    BY <1>1, <1>4, <1>5, <1>9, <2>1, <2>2, <2>5 DEF Clean
<1>12. ASSUME troubles' = {} PROVE InTurn'
  <2>1. InTurn
    BY <1>3, <1>12 DEF JInv
  <2>2. HalInTurn'
    <3> SUFFICES ASSUME NEW p \in Requests, NEW q \in Earlier(p)
                 PROVE  /\ hal'[p].shutter => hal'[q].shutter \/ NoShutter(q)'
                        /\ Last \in hal'[p].parts => Last \in hal'[q].parts \/ NoResult(q)'
      BY DEF HalInTurn, Earlier
    <3>0. q \in Requests /\ q[1] = p[1] /\ q[2] < p[2] /\ q[2] \in Nat /\ p[2] \in Nat
      BY RequestShape DEF Earlier
    <3>1. CASE p = r
      BY <1>4, <1>5, <3>1
    <3>2. CASE p # r /\ q = r
      <4>1. p \notin Sent
        BY SMT, <1>0a, <1>1, <3>0, <3>2 DEF Sent
      <4>2. ~hal[p].shutter /\ hal[p].parts = {}
        BY <1>0, <4>1 DEF JInv, Basic, Fresh
      <4> QED
        BY <1>4, <3>2, <4>2
    <3>3. CASE p # r /\ q # r
      <4>1. hal'[p] = hal[p] /\ hal'[q] = hal[q]
        BY <1>4, <3>0, <3>3
      <4> QED
        BY <2>1, <4>1 DEF InTurn, HalInTurn, NoShutter, NoResult
    <3> QED
      BY <3>1, <3>2, <3>3
  <2>3. ShuttersInTurn(hal', nextShutter')
    BY <1>1, <1>3, <1>4, <1>5, <2>1 DEF InTurn, ShuttersInTurn
  <2>4. ResultsInTurn(hal', nextResult')
    BY <1>1, <1>3, <1>4, <1>5, <2>1 DEF InTurn, ResultsInTurn
  <2> QED
    BY <2>2, <2>3, <2>4 DEF InTurn
<1>13. ASSUME troubles' = {}, NEW q \in Sent', hal'[q].fault = "none" PROVE Clean(q)'
  <2>1. CASE q = r
    BY <1>11, <1>13, <2>1
  <2>2. CASE q # r
    <3>1. q \in Sent /\ q \in Requests
      BY <1>6, <2>2 DEF Sent
    <3>2. Clean(q) /\ Untouched(q)
      BY <1>3, <1>4, <1>8, <1>13, <2>2, <3>1 DEF JInv
    <3> QED
      BY <3>1, <3>2, UntouchedKept
  <2> QED
    BY <2>1, <2>2
<1>14. troubles' = {} /\ Faulty' = {} => causes' = {}
  <2>1. Faulty' = {} => Faulty = {}
    BY <1>1, <1>4, <1>5 DEF Faulty
  <2> QED
    BY <1>3, <2>1 DEF JInv
<1> QED
  BY <1>7, <1>10, <1>12, <1>13, <1>14 DEF JInv

\* A step that leaves all but flush_on_going_ alone keeps the invariant.
LEMMA IdleServes ==
  ASSUME JInv, UNCHANGED <<frames, pending, errors, nextShutter, nextResult, causes,
                           hal, client, troubles>>
  PROVE  JInv'
<1>1. Sent' = Sent /\ Faulty' = Faulty
  BY DEF Sent, Faulty
<1>2. \A q \in Requests : Untouched(q)
  BY DEF Untouched, Known, Same, SameTold
<1>3. InTurn' <=> InTurn
  <2>1. HalInTurn' <=> HalInTurn
    BY DEF HalInTurn, Earlier, NoShutter, NoResult
  <2> QED
    BY <2>1 DEF InTurn
<1>4. ASSUME NEW q \in Requests PROVE (Fitting(q) => Fitting(q)') /\ (Clean(q) => Clean(q)')
  BY <1>2, UntouchedKept
<1>5. "shared" \notin troubles' =>
        /\ \A q \in Requests : Fitting(q)'
        /\ \A q \in Requests \ Sent' : client'[q].unstamped = {}
  BY <1>1, <1>4 DEF JInv
<1>6. ASSUME troubles' = {}, NEW q \in Sent', hal'[q].fault = "none" PROVE Clean(q)'
  <2>1. q \in Sent /\ q \in Requests
    BY <1>1 DEF Sent
  <2> QED
    BY <1>4, <1>6, <2>1 DEF JInv
<1>7. \A q \in Requests : HalKeeps(hal'[q]) /\ (q \notin Sent' => ~hal'[q].shutter)
  BY <1>1 DEF JInv
<1>8. (troubles' = {} => InTurn') /\ (troubles' = {} /\ Faulty' = {} => causes' = {})
  BY <1>1, <1>3 DEF JInv
<1> QED
  BY <1>5, <1>6, <1>7, <1>8 DEF JInv

\* At first the client has heard nothing, and nothing is due.
LEMMA InitJInv == Init => JInv
<1> SUFFICES ASSUME Init PROVE JInv
  OBVIOUS
<1>1. Sent = {}
  <2> SUFFICES ASSUME NEW r \in Requests PROVE ~(r[2] < frames[r[1]])
    BY DEF Sent
  <2>1. r[1] \in Kinds /\ r[2] \in Nat
    BY RequestShape
  <2> QED
    BY SMT, <2>1 DEF Init
<1>2. \A r \in Requests : /\ hal[r].owned = {} /\ hal[r].failed = {} /\ ~hal[r].shutter
                          /\ hal[r].parts = {} /\ hal[r].fault = "none"
                          /\ ~hal[r].notified
  BY DEF Init
<1>3. \A r \in Requests : /\ client[r].shutters = 0 /\ client[r].results = 0
                          /\ client[r].partial = {} /\ client[r].unstamped = {}
                          /\ \A b \in Outputs : client[r].returned[b] = 0
  BY DEF Init
<1>4. \A r \in Requests : HalKeeps(hal[r])
  BY <1>2 DEF HalKeeps
<1>5. \A r \in Requests : Told(client[r], hal[r])
  BY SMT, <1>2, <1>3 DEF Told
<1>6. \A r \in Requests : Fitting(r)
  BY <1>5 DEF Fitting, Known, Init
<1>7. HalInTurn
  BY <1>2 DEF HalInTurn
<1>8. ShuttersInTurn(hal, nextShutter) /\ ResultsInTurn(hal, nextResult)
  BY SMT, RequestShape DEF Init, ShuttersInTurn, ResultsInTurn
<1>9. causes = {}
  BY DEF Init
<1> QED
  BY <1>1, <1>2, <1>3, <1>4, <1>6, <1>7, <1>8, <1>9 DEF JInv, InTurn

\* Every step keeps the invariant.
LEMMA JInvStep == IInv /\ IInv' /\ JInv /\ [Next]_vars => JInv'
<1> SUFFICES ASSUME IInv, IInv', JInv, [Next]_vars PROVE JInv'
  OBVIOUS
<1>1. ASSUME NEW kind \in Kinds, SubmitRequest(kind) PROVE JInv'
  BY <1>1, SubmitServes
<1>2. CASE Flush
  BY <1>2, IdleServes DEF Flush
<1>3. ASSUME NEW r \in Requests, HalShutter(r) PROVE JInv'
  BY <1>3, ShutterServes
<1>4. ASSUME NEW r \in Requests, HalError(r) PROVE JInv'
  BY <1>4, ErrorServes
<1>5. ASSUME NEW r \in Requests, NEW part \in Parts \cup {0},
             NEW bufs \in SUBSET hal[r].owned, NEW bad \in SUBSET (bufs \ {0}),
             HalResult(r, part, bufs, bad)
      PROVE  JInv'
  BY <1>5, ResultServes
<1>6. CASE UNCHANGED vars
  BY <1>6, IdleServes DEF vars
<1> QED
  BY <1>1, <1>2, <1>3, <1>4, <1>5, <1>6 DEF Next

LEMMA JInvariant == Spec => [](IInv /\ JInv)
BY InitJInv, JInvStep, IInvariant, PTL DEF Spec
-----------------------------------------------------------------------------
\* A request without an entry has no buffer kept for it, in any entry.
LEMMA NoneHeld ==
  ASSUME IInv, NEW r \in Sent, "shared" \notin troubles, ~Known(r)
  PROVE  Held(r) = {}
<1>1. CASE r[2] \notin DOMAIN pending
  BY <1>1 DEF Held
<1>2. CASE r[2] \in DOMAIN pending
  <2> DEFINE q == <<pending[r[2]].kind, r[2]>>
  <2>1. q \in Sent /\ q[1] = pending[r[2]].kind /\ q[2] = r[2] /\ q # r
    BY SMT, <1>2 DEF IInv, Basic, Known
  <2> HIDE DEF q
  <2>2. Known(q) /\ Agrees(q)
    BY <1>2, <2>1 DEF IInv, Apart, Known
  <2>3. pending[r[2]].pendingBuffers \subseteq {q} \X (Outputs \ hal[q].owned)
    BY <2>1, <2>2 DEF Agrees
  <2> QED
    BY <1>2, <2>1, <2>3 DEF Held
<1> QED
  BY <1>1, <1>2

\* The sets of kinds and of troubles are finite.
LEMMA PairFinite == ASSUME NEW a, NEW b PROVE IsFiniteSet({a, b})
<1>1. IsFiniteSet({a}) /\ IsFiniteSet({b})
  BY FS_Singleton
<1>2. IsFiniteSet({a} \cup {b})
  BY <1>1, FS_Union
<1>3. {a} \cup {b} = {a, b}
  OBVIOUS
<1> QED
  BY <1>2, <1>3

\* NotifyShutter and HandleCaptureResult between them serve every request: when the
\* HAL has done its part for a request without a fault, the client has had its shutter
\* and its whole result once and its buffers with a timestamp, and the entry is gone;
\* and the client hears of a frame's shutter before its result and its buffers.
THEOREM EveryRequestServed == Spec => []ServedInFull
<1>1. ASSUME IInv, JInv PROVE ServedInFull
  <2>1. ASSUME troubles = {}, NEW r \in Sent, hal[r].fault = "none", HalDone(r)
        PROVE  /\ client[r].shutters = 1 /\ client[r].results = 1
               /\ client[r].result = hal[r].parts /\ client[r].unstamped = {}
               /\ \A b \in Buffers(r[1]) : client[r].returned[b] = 1
               /\ r[2] \in DOMAIN pending => pending[r[2]].kind # r[1]
    <3>1. Clean(r)
      BY <1>1, <2>1 DEF JInv
    <3>2. ~Known(r) /\ Served(client[r], hal[r])
      BY <2>1, <3>1 DEF Clean
    <3>3. hal[r].owned = {} /\ hal[r].shutter /\ Last \in hal[r].parts
      BY <2>1 DEF HalDone, NoShutter, NoResult, Last
    <3>4. Held(r) = {}
      BY <1>1, <2>1, <3>2, NoneHeld
    <3>5. Accounted(r)
      BY <1>1, <2>1 DEF IInv, Apart
    <3>6. \A b \in Buffers(r[1]) : client[r].returned[b] = 1
      BY <2>1, <3>3, <3>4, <3>5 DEF Accounted
    <3> QED
      BY <3>2, <3>3, <3>6 DEF Served, Known
  <2>2. ASSUME "shared" \notin troubles, NEW r \in Requests PROVE Told(client[r], hal[r])
    BY <1>1, <2>2 DEF JInv, Fitting
  <2> QED
    BY <2>1, <2>2 DEF ServedInFull, Told
<1> QED
  BY <1>1, JInvariant, PTL

\* RemovePendingRequestLocked leaves no buffer behind in an entry: when the HAL has
\* finished with a failed request and its error message was not the last thing to
\* come, all that was kept for it has gone back to its streams.
THEOREM NoBufferStranded == Spec => []NoneStranded
<1>1. ASSUME IInv, JInv PROVE NoneStranded
  <2> SUFFICES ASSUME troubles = {}, NEW r \in Sent, HalDone(r), hal[r].notified, ~hal[r].late
               PROVE  Held(r) = {}
    BY DEF NoneStranded
  <2>1. r \in Requests /\ hal[r].owned = {}
    BY DEF Sent, HalDone
  <2>2. ~Known(r)
    BY <1>1, <2>1 DEF JInv, Fitting
  <2> QED
    BY <1>1, <2>2, NoneHeld
<1> QED
  BY <1>1, JInvariant, PTL

\* SET_ERR is never reached while the HAL keeps its contract and no frame number is
\* in use by two requests, in whatever order the pieces of different requests arrive:
\* the device does not go to STATE_ERROR of itself.
THEOREM ContractKeepsDevice == Spec => []NoDeviceError
<1>1. ASSUME IInv, JInv PROVE NoDeviceError
  <2>1. IsFiniteSet(Faulty) /\ IsFiniteSet(troubles)
    <3>1. IsFiniteSet(Kinds)
      BY PairFinite DEF Kinds
    <3> DEFINE m == FrameLimit["normal"] + FrameLimit["input"]
    <3>2. m \in Nat /\ IsFiniteSet(0 .. m)
      <4>1. m \in Nat
        BY SMT, ResultsAssumption DEF Kinds
      <4> QED
        BY SMT, <4>1, FS_Interval
    <3>3. Requests \subseteq Kinds \X (0 .. m)
      BY SMT, ResultsAssumption, RequestShape DEF Kinds
    <3> HIDE DEF m
    <3>4. IsFiniteSet(Kinds \X (0 .. m))
      BY <3>1, <3>2, FS_Product
    <3>5. IsFiniteSet(Faulty)
      BY <3>3, <3>4, FS_Subset DEF Faulty
    <3>6. IsFiniteSet({"shared", "unordered"})
      BY PairFinite
    <3>7. IsFiniteSet(troubles)
      BY <1>1, <3>6, FS_Subset DEF IInv, Basic, TypeOK
    <3> QED
      BY <3>5, <3>7
  <2>2. Cardinality(Faulty) \in Nat /\ Cardinality(troubles) \in Nat
    BY <2>1, FS_CardinalityType
  <2>3. Troubled = 0 => Faulty = {} /\ troubles = {}
    BY SMT, <2>1, <2>2, FS_EmptySet DEF Troubled
  <2> QED
    BY <1>1, <2>3 DEF JInv, NoDeviceError
<1> QED
  BY <1>1, JInvariant, PTL
=============================================================================
