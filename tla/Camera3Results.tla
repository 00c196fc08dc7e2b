---------------------------- MODULE Camera3Results ----------------------------
(***************************************************************************)
(* The requests a Camera3DeviceClient has in flight                        *)
(* (common/cameraadaptor/qmmf_camera3_device_client.cc).  The request      *)
(* threads register a request with MarkPendingRequest and give it to the   *)
(* HAL, which answers from its own threads, in pieces: a shutter message,  *)
(* metadata in up to PartialResultCount parts, buffers, error messages.    *)
(* Pieces that come before the shutter are kept in the PendingRequest.     *)
(* Each handler runs under pending_requests_lock_, so it is one action.    *)
(*                                                                         *)
(* Metadata is the set of the parts it was put together from; a timestamp  *)
(* is TRUE once it is known (the HAL gives one per frame, the sensor's in  *)
(* TimestampPart).  A request has at most one buffer of each stream, which *)
(* stands for it; buffer 0 is the input buffer of a reprocess request, and *)
(* stream 1 the one its input is taken from.                               *)
(* Messages to the client are kept in "client"; error callbacks are not,   *)
(* and a buffer in error, which goes straight to its stream, counts as     *)
(* given back.  Frame numbers that were used up by requests that never got *)
(* a buffer, or were flushed from the queue, are left out.                 *)
(***************************************************************************)
EXTENDS Integers, FiniteSets

CONSTANTS
  FrameLimit,          \* bound: requests of each kind
  NumStreams,          \* output streams
  Streams,             \* those that the requests of a kind have a buffer of
  PartialResultCount,  \* partial_result_count_
  TimestampPart,       \* the part with ANDROID_SENSOR_TIMESTAMP
  MaxTroubles          \* bound: failed requests and other troubles

Kinds == {"normal", "input"}
Outputs == 1 .. NumStreams

ASSUME ResultsAssumption ==
  /\ FrameLimit \in [Kinds -> Nat]
  /\ NumStreams \in Nat \ {0} /\ MaxTroubles \in Nat
  /\ Streams \in [Kinds -> SUBSET Outputs]
  /\ PartialResultCount \in Nat \ {0}
  /\ TimestampPart \in 1 .. PartialResultCount

VARIABLES
  frames,      \* current_frame_number_ and current_input_frame_number_
  pending,     \* pending_requests_vector_: frame number -> PendingRequest
  errors,      \* the keys of pending_error_requests_vector_
  nextShutter, \* next_shutter_frame_number_, next_shutter_input_frame_number_
  nextResult,  \* next_result_frame_number_, next_result_input_frame_number_
  causes,      \* what SET_ERR was called for; state_ is STATE_ERROR iff any
  flushing,    \* flush_on_going_
  hal,         \* what the HAL has done of each request and still holds
  client,      \* what the client was given of each request
  troubles     \* "shared" and "unordered", once they happened

vars == <<frames, pending, errors, nextShutter, nextResult, causes, flushing,
          hal, client, troubles>>

FrameNumbers(kind) == 0 .. FrameLimit[kind] - 1
Requests == UNION {{kind} \X FrameNumbers(kind) : kind \in Kinds}
Parts == 1 .. PartialResultCount
Buffers(kind) == IF kind = "input" THEN Streams[kind] \cup {0} ELSE Streams[kind]
\* "unsent": process_capture_request fails.  The others are the HAL's errors.
Faults == {"REQUEST", "RESULT", "BUFFER", "unsent"}
\* What SET_ERR is called for.
Causes ==
  {"no timestamp", "timestamps differ", "metadata given twice",
   "too many buffers", "out-of-order shutter", "out-of-order result",
   "shutter of an invalid frame", "result of an invalid frame"}
Sent == {r \in Requests : r[2] < frames[r[1]]}
Faulty == {r \in Requests : hal[r].fault # "none"}
NoShutter(r) == hal[r].fault \in {"REQUEST", "unsent"}
NoResult(r) == hal[r].fault \in {"REQUEST", "RESULT", "unsent"}
HalDone(r) ==
  /\ hal[r].owned = {} /\ (hal[r].shutter \/ NoShutter(r))
  /\ PartialResultCount \in hal[r].parts \/ NoResult(r)
HalOwes(r) ==
  ~HalDone(r) \/ (~hal[r].notified /\ hal[r].fault \notin {"none", "unsent"})
Troubled == Cardinality(Faulty) + Cardinality(troubles)

PendingRequest ==
  [kind : Kinds, shutterTS : BOOLEAN, sensorTS : BOOLEAN,
   status : Faults \cup {"OK"}, isMetaPresent : BOOLEAN,
   buffersRemaining : Int, pendingMetadata : SUBSET Parts,
   composedResult : SUBSET Parts, pendingBuffers : SUBSET (Requests \X Outputs)]
HalRequest ==
  [owned : SUBSET (Outputs \cup {0}), failed : SUBSET Outputs,
   shutter : BOOLEAN, parts : SUBSET Parts,
   fault : Faults \cup {"none"}, notified : BOOLEAN, late : BOOLEAN]
ClientRequest ==
  [shutters : Nat, results : Nat, result : SUBSET Parts,
   partial : SUBSET Parts, returned : [Outputs \cup {0} -> Nat],
   unstamped : SUBSET Outputs]

Init ==
  /\ frames = [kind \in Kinds |-> 0]
  /\ pending = [n \in {} |-> {}]
  /\ errors = {}
  /\ nextShutter = [kind \in Kinds |-> 0]
  /\ nextResult = [kind \in Kinds |-> 0]
  /\ causes = {}
  /\ flushing = FALSE
  /\ hal = [r \in Requests |->
              [owned |-> {}, failed |-> {}, shutter |-> FALSE, parts |-> {},
               fault |-> "none", notified |-> FALSE, late |-> FALSE]]
  /\ client = [r \in Requests |->
                 [shutters |-> 0, results |-> 0, result |-> {}, partial |-> {},
                  returned |-> [b \in Outputs \cup {0} |-> 0],
                  unstamped |-> {}]]
  /\ troubles = {}
-----------------------------------------------------------------------------
(* Submission.  The frame number is taken when the request is, and the two *)
(* kinds of requests count their frames separately.                        *)

NewRequest(kind) ==
  [kind |-> kind, shutterTS |-> FALSE, sensorTS |-> FALSE, status |-> "OK",
   isMetaPresent |-> FALSE, buffersRemaining |-> Cardinality(Buffers(kind)),
   pendingMetadata |-> {}, composedResult |-> {}, pendingBuffers |-> {}]

\* A reprocess request needs a frame whose result and buffer have arrived
\* and that was not used before, and waits for the previous one.
MayReprocess ==
  /\ \A r \in Sent : r[1] = "input" => client[r].returned[0] = 1
  /\ frames["input"] <
       Cardinality({r \in Sent : /\ r[1] = "normal" /\ client[r].results > 0
                                 /\ client[r].returned[1] > 0})

\* KeyedVector::add replaces the value of a key it has.  The trouble: the
\* frame number is still in use by a request of the other kind.
MarkPendingRequest(kind) ==
  LET n == frames[kind]
  IN  /\ pending' = [m \in DOMAIN pending \cup {n} |->
                       IF m = n THEN NewRequest(kind) ELSE pending[m]]
      /\ troubles' = IF \/ n \in DOMAIN pending
                        \/ \E q \in Sent : q[2] = n /\ HalOwes(q)
                     THEN troubles \cup {"shared"} ELSE troubles

\* A request that the HAL refuses stays in pending_requests_vector_;
\* HandleErrorRequest gives its output buffers back to their streams.
SubmitRequest(kind) ==
  /\ frames[kind] < FrameLimit[kind]
  /\ kind = "input" => MayReprocess
  /\ MarkPendingRequest(kind)
  /\ \E fault \in Faults \cup {"none"} :
       /\ fault # "none" => Troubled < MaxTroubles
       /\ hal' = [hal EXCEPT ![<<kind, frames[kind]>>].fault = fault,
                             ![<<kind, frames[kind]>>].owned =
                               IF fault = "unsent" THEN {} ELSE Buffers(kind)]
  /\ frames' = [frames EXCEPT ![kind] = @ + 1]
  /\ UNCHANGED <<errors, nextShutter, nextResult, causes, flushing, client>>

Flush ==
  /\ flushing' = ~flushing
  /\ UNCHANGED <<frames, pending, errors, nextShutter, nextResult, causes, hal,
                 client, troubles>>
-----------------------------------------------------------------------------
(* The steps the handlers share, on a work record w: the PendingRequest e, *)
(* the client's records, next_result_*_frame_number_ and SET_ERR's causes. *)

\* SendCaptureResult: nothing to send yet, out of order, no timestamp, sent.
SendCaptureResult(w, n, metadata, collected) ==
  IF metadata = {} THEN w
  ELSE IF n < w.next[w.e.kind]
  THEN [w EXCEPT !.causes = @ \cup {"out-of-order result"}]
  ELSE IF TimestampPart \notin metadata \cup collected
  THEN [w EXCEPT !.next[w.e.kind] = n + 1, !.causes = @ \cup {"no timestamp"}]
  ELSE [w EXCEPT !.next[w.e.kind] = n + 1,
                 !.client[<<w.e.kind, n>>].results = @ + 1,
                 !.client[<<w.e.kind, n>>].result = metadata \cup collected]

\* ReturnOutputBuffers, with the shutter's timestamp (1) or with none (0): a
\* buffer with an error status gives its request that status, except in a flush.
ReturnBufferToClient(c, bufs, timestamp) ==
  [c EXCEPT !.returned = [b \in Outputs \cup {0} |->
                            IF b \in bufs THEN c.returned[b] + 1
                            ELSE c.returned[b]],
            !.unstamped = IF timestamp = 0 THEN @ \cup bufs ELSE @]
ReturnOutputBuffers(w, bufs, failed, timestamp) ==
  [w EXCEPT
     !.client = [r \in Requests |->
                   ReturnBufferToClient(
                     w.client[r], {b \in Outputs : <<r, b>> \in bufs}, timestamp)],
     !.e.status = IF bufs \cap failed # {} /\ ~flushing THEN "BUFFER" ELSE @]

\* Slips: nothing is done for failed requests; the shutter is not waited for.
CompleteWithResult(e) ==
  e.buffersRemaining = 0 /\ e.isMetaPresent /\ e.shutterTS
CompleteAtMeta(e) ==
  e.buffersRemaining = 0 /\ (e.status # "OK" \/ e.isMetaPresent)

Complete(e) ==
  /\ e.buffersRemaining = 0
  /\ e.status # "OK" \/ (e.isMetaPresent /\ e.shutterTS)

\* RemovePendingRequestLocked, and the end of every handler.
RemovePendingRequestLocked(w, n, failed) ==
  LET done == Complete(w.e)
      x == IF done
           THEN ReturnOutputBuffers(w, w.e.pendingBuffers, failed, 0) ELSE w
      rest == DOMAIN pending \ {n}
  IN  /\ client' = x.client /\ nextResult' = x.next
      /\ causes' = IF done /\ w.e.status = "OK" /\ ~w.e.sensorTS
                   THEN x.causes \cup {"timestamps differ"} ELSE x.causes
      /\ pending' = IF done THEN [m \in rest |-> pending[m]]
                    ELSE [pending EXCEPT ![n] = x.e]
      /\ errors' = IF /\ done /\ w.e.status # "OK"
                      /\ ~w.e.isMetaPresent \/ ~w.e.shutterTS
                   THEN errors \cup {n} ELSE errors

Work(e) == [e |-> e, client |-> client, next |-> nextResult, causes |-> causes]
SET_ERR(cause) ==
  /\ causes' = causes \cup {cause}
  /\ UNCHANGED <<pending, errors, nextShutter, nextResult, client>>
-----------------------------------------------------------------------------
(* The handlers.  failed is what the HAL has returned with an error status. *)

\* Slip: buffers that were returned stay in the entry.
NotCleared(e) == e

Cleared(e) == [e EXCEPT !.pendingBuffers = {}]

NotifyShutter(n, failed) ==
  IF n \notin DOMAIN pending THEN SET_ERR("shutter of an invalid frame")
  ELSE LET e == pending[n]
           heard == [client EXCEPT ![<<e.kind, n>>].shutters = @ + 1]
           w == [Work([e EXCEPT !.shutterTS = TRUE]) EXCEPT !.client = heard]
           x == SendCaptureResult(w, n, e.pendingMetadata, e.composedResult)
           y == ReturnOutputBuffers(x, e.pendingBuffers, failed, 1)
       IN  IF n < nextShutter[e.kind]
           THEN /\ client' = heard
                /\ causes' = causes \cup {"out-of-order shutter"}
                /\ UNCHANGED <<pending, errors, nextShutter, nextResult>>
           ELSE /\ nextShutter' = [nextShutter EXCEPT ![e.kind] = n + 1]
                /\ RemovePendingRequestLocked(
                     [y EXCEPT !.e = Cleared(@)], n, failed)

\* No RemovePendingRequestLocked here: the entry waits for another message.
NotifyError(n, code) ==
  /\ pending' = IF n \in DOMAIN pending
                THEN [pending EXCEPT ![n].status = code] ELSE pending
  /\ UNCHANGED <<errors, nextShutter, nextResult, causes, client>>

\* A result with no pending request: the late answer to a failed one, or not.
UnknownResult(n) ==
  IF n \in errors
  THEN /\ errors' = errors \ {n}
       /\ UNCHANGED <<pending, nextShutter, nextResult, causes, client>>
  ELSE SET_ERR("result of an invalid frame")

\* The first half of HandleCaptureResult: the entry takes note of the part
\* (0: no metadata) and of the number of buffers in the message.
Noted(e, part, count) ==
  [e EXCEPT !.composedResult =
              IF part \in Parts \ {PartialResultCount} THEN @ \cup {part}
              ELSE IF part = PartialResultCount THEN {} ELSE @,
            !.isMetaPresent = @ \/ part = PartialResultCount,
            !.buffersRemaining = @ - count,
            !.sensorTS = @ \/ part = TimestampPart]

\* Slip: the parts collected before the last one are not put back.
KeptWithoutPartials(e, part, outs, collected) ==
  [e EXCEPT !.pendingBuffers = @ \cup outs,
            !.pendingMetadata = IF part = PartialResultCount THEN {part} ELSE @]

\* The second half: before the shutter everything is kept ...
Kept(e, part, outs, collected) ==
  [e EXCEPT !.pendingBuffers = @ \cup outs,
            !.pendingMetadata = IF part = PartialResultCount THEN {part} ELSE @,
            !.composedResult = IF part = PartialResultCount THEN collected ELSE @]

\* ... and after it everything is passed on.
Shuttered(e) == e.shutterTS

OutputsReturned(r, bufs) == {r} \X (bufs \ {0})

HandleCaptureResult(r, part, bufs, failed) ==
  LET n == r[2]
      e == pending[n]
      outs == OutputsReturned(r, bufs)
      final == part = PartialResultCount
      noted == Noted(e, part, Cardinality(bufs))
      told == IF part \in Parts /\ ~final
              THEN [client EXCEPT ![<<e.kind, n>>].partial =
                      noted.composedResult]
              ELSE client
      back == IF 0 \in bufs
              THEN [told EXCEPT ![r].returned[0] = @ + 1] ELSE told
      w == [Work(noted) EXCEPT !.client = back]
      x == IF final
           THEN SendCaptureResult(w, n, {part}, e.composedResult) ELSE w
  IN  IF n \notin DOMAIN pending THEN UnknownResult(n)
      ELSE /\ UNCHANGED nextShutter
           /\ IF final /\ e.isMetaPresent
              THEN /\ causes' = causes \cup {"metadata given twice"}
                   /\ UNCHANGED <<pending, errors, nextResult, client>>
              ELSE IF noted.buffersRemaining < 0
              THEN /\ causes' = causes \cup {"too many buffers"}
                   /\ pending' = [pending EXCEPT ![n] =
                                    [noted EXCEPT !.sensorTS = e.sensorTS]]
                   /\ client' = told
                   /\ UNCHANGED <<errors, nextResult>>
              ELSE RemovePendingRequestLocked(
                     IF Shuttered(e)
                     THEN ReturnOutputBuffers(x, outs, failed, 1)
                     ELSE [w EXCEPT !.e =
                             Kept(noted, part, outs, e.composedResult)],
                     n, failed)
-----------------------------------------------------------------------------
(* The HAL (external), from the contract the handlers rely on: one shutter *)
(* message per request, parts in increasing order with the timestamp among *)
(* them, every buffer once, shutters and last parts in frame order; for a  *)
(* failed request one error message, at any time, and                      *)
(*   "REQUEST": no shutter and no metadata, only buffers in error;         *)
(*   "RESULT": the last part does not come, nor any after the message;     *)
(*   "BUFFER": some of the buffers are in error.                           *)

FailedBuffers(h) == {p \in Requests \X Outputs : p[2] \in h[p[1]].failed}
Earlier(r) == {q \in Requests : q[1] = r[1] /\ q[2] < r[2]}
ShutterInOrder(r) == \A q \in Earlier(r) : hal[q].shutter \/ NoShutter(q)
ResultInOrder(r) ==
  \A q \in Earlier(r) : PartialResultCount \in hal[q].parts \/ NoResult(q)

\* Out of order: a trouble.  Otherwise the troubles stay as they are.
InOrder(ordered) ==
  IF ordered THEN UNCHANGED troubles
  ELSE Troubled < MaxTroubles /\ troubles' = troubles \cup {"unordered"}

HalShutter(r) ==
  /\ r \in Sent /\ ~hal[r].shutter /\ ~NoShutter(r)
  /\ InOrder(ShutterInOrder(r))
  /\ hal' = [hal EXCEPT ![r].shutter = TRUE]
  /\ NotifyShutter(r[2], FailedBuffers(hal))
  /\ UNCHANGED <<frames, flushing>>

HalError(r) ==
  /\ hal[r].fault \in {"REQUEST", "RESULT", "BUFFER"} /\ ~hal[r].notified
  /\ hal' = [hal EXCEPT ![r].notified = TRUE, ![r].late = hal[r].owned = {}]
  /\ NotifyError(r[2], hal[r].fault)
  /\ UNCHANGED <<frames, flushing, troubles>>

MaySend(r, part) ==
  /\ \A p \in hal[r].parts : p < part
  /\ part > TimestampPart => TimestampPart \in hal[r].parts
  /\ \/ hal[r].fault \in {"none", "BUFFER"}
     \/ /\ hal[r].fault = "RESULT" /\ ~hal[r].notified
        /\ part < PartialResultCount
MayFail(r, bufs, bad) ==
  CASE hal[r].fault = "REQUEST" -> bad = bufs \ {0}
    [] hal[r].fault = "BUFFER"  -> TRUE
    [] OTHER                    -> bad = {}

HalResult(r, part, bufs, bad) ==
  /\ r \in Sent /\ (part # 0 \/ bufs # {})
  /\ part # 0 => MaySend(r, part)
  /\ MayFail(r, bufs, bad)
  /\ InOrder(part = PartialResultCount => ResultInOrder(r))
  /\ hal' = [hal EXCEPT ![r].parts = IF part = 0 THEN @ ELSE @ \cup {part},
                        ![r].owned = @ \ bufs, ![r].failed = @ \cup bad]
  /\ HandleCaptureResult(r, part, bufs, FailedBuffers(hal'))
  /\ UNCHANGED <<frames, flushing>>

Next ==
  \/ \E kind \in Kinds : SubmitRequest(kind)
  \/ Flush
  \/ \E r \in Requests :
       \/ HalShutter(r)
       \/ HalError(r)
       \/ \E part \in Parts \cup {0}, bufs \in SUBSET hal[r].owned :
            \E bad \in SUBSET (bufs \ {0}) : HalResult(r, part, bufs, bad)

Spec == Init /\ [][Next]_vars
-----------------------------------------------------------------------------
TypeOK ==
  /\ frames \in [Kinds -> Nat]
  /\ DOMAIN pending \subseteq Nat
  /\ \A n \in DOMAIN pending : pending[n] \in PendingRequest
  /\ errors \subseteq Nat
  /\ nextShutter \in [Kinds -> Nat] /\ nextResult \in [Kinds -> Nat]
  /\ causes \subseteq Causes /\ flushing \in BOOLEAN
  /\ hal \in [Requests -> HalRequest]
  /\ client \in [Requests -> ClientRequest]
  /\ troubles \subseteq {"shared", "unordered"}

Held(r) ==
  IF r[2] \in DOMAIN pending
  THEN {b \in Outputs : <<r, b>> \in pending[r[2]].pendingBuffers} ELSE {}

\* Every buffer of a request given to the HAL is at one place, and given back
\* to the client once: with the HAL, kept until the shutter, or returned.
BuffersReturnedOnce ==
  "shared" \notin troubles =>
    \A r \in Sent : hal[r].fault # "unsent" =>
      \A b \in Buffers(r[1]) :
        client[r].returned[b] =
          IF b \in hal[r].owned \cup Held(r) THEN 0 ELSE 1

\* A HAL that answers in order and without errors never puts the device in
\* STATE_ERROR, in whatever order the pieces of different requests arrive.
NoDeviceError == Troubled = 0 => causes = {}

\* Once the HAL has done its part for a request without a fault, the client has had
\* its shutter once and its result once, with all the parts, and all its buffers with
\* a timestamp; and the request is no longer pending.  Until then the client hears of
\* a frame's shutter before it gets the frame's result or a buffer, and what it had as
\* partial results is in the result.
ServedInFull ==
  /\ troubles = {} =>
       \A r \in Sent : hal[r].fault = "none" /\ HalDone(r) =>
         /\ client[r].shutters = 1 /\ client[r].results = 1
         /\ client[r].result = hal[r].parts
         /\ client[r].unstamped = {}
         /\ \A b \in Buffers(r[1]) : client[r].returned[b] = 1
         /\ r[2] \in DOMAIN pending => pending[r[2]].kind # r[1]
  /\ "shared" \notin troubles =>
       \A r \in Requests :
         /\ client[r].results > 0 =>
              client[r].shutters = 1 /\ client[r].partial \subseteq client[r].result
         /\ \A b \in Outputs :
              client[r].returned[b] > 0 /\ b \notin client[r].unstamped =>
                client[r].shutters = 1

\* No buffer stays behind in a PendingRequest: when the HAL has finished with
\* a failed request and its error message was not the last thing to come, all
\* buffers are back.
NoneStranded ==
  troubles = {} =>
    \A r \in Sent :
      HalDone(r) /\ hal[r].notified /\ ~hal[r].late => Held(r) = {}

\* A result that comes late for a request with an error status is ignored.
LateResultIgnored ==
  troubles = {} => "result of an invalid frame" \notin causes
=============================================================================
