-------------------- MODULE Camera3RequestHandler_proofs --------------------
(***************************************************************************)
(* Proofs about Camera3RequestHandler, for any number of requests, frames  *)
(* and batch sizes: nothing is in the HAL's way while the device client    *)
(* reconfigures the camera, the frame numbers told are the ones that       *)
(* happen, and a request always finds its settings in the HAL.             *)
(***************************************************************************)
EXTENDS Camera3RequestHandler, TLAPS

Ids == Id \cup {NoId}

Types ==
  /\ requests_ \in Seq(Request) /\ streaming_requests_ \in Seq(Request)
  /\ Len(streaming_requests_) <= MaxBurst
  /\ current_frame_number_ \in 0 .. MaxFrames
  /\ streaming_last_frame_number_ \in Int
  /\ next_request_id_ \in 0 .. MaxIds
  /\ repeating \in Ids /\ promised \in [Id -> Int]
  /\ InHand => request.id \in Id /\ request.list \in Ids /\ request.frame \in Int

\* The handler's monitor is IDLE exactly when the handler takes itself for paused,
\* which it does not with a request in hand.  Without a reconfiguration that ended
\* in no resume, the flags agree with the device client's place, and a paused
\* handler with something to do is not on its way to GetRequest.
Pausing ==
  /\ monitor = IF paused_state_ THEN "IDLE" ELSE "ACTIVE"
  /\ InHand => ~paused_state_
  /\ exit_pending => owner \in {"free", "error"}
  /\ "pause" \notin mishaps =>
       /\ owner \in {"free", "resuming"} => ~toggle_pause_state_
       /\ owner \in {"paused", "reconfigured"} => paused_state_
       /\ owner \notin {"resuming", "error"} /\ ~exit_pending /\ paused_state_ /\ Pending =>
            PauseObeyed /\ pc \notin {"get", "waiting"}

\* Request r, that has frame number n or will get it if nothing is cleared,
\* stands by what was promised of it, and by what may still be promised of
\* the streaming list.
Numbered(r, n) ==
  /\ r.id < next_request_id_ /\ r.list < next_request_id_
  /\ r.list = NoId => /\ r.id # repeating
                      /\ promised[r.id] # NotTold => promised[r.id] = n
  /\ r.list # NoId => /\ n <= promised[r.list]
                      /\ r.list = repeating => n <= streaming_last_frame_number_

Numbering ==
  /\ \A id \in Id : id >= next_request_id_ => promised[id] = NotTold
  /\ repeating # NoId => repeating < next_request_id_ /\ promised[repeating] = NotTold
  /\ \A i \in 1 .. Len(streaming_requests_) :
       /\ streaming_requests_[i].list = repeating /\ repeating # NoId
       /\ streaming_requests_[i].id < next_request_id_
  /\ \A i \in 1 .. Len(requests_) : Numbered(requests_[i], current_frame_number_ + i - 1)
  /\ InHand => Numbered(request, request.frame)

\* old_request_ says whose settings the HAL has, but for a reconfiguration not
\* yet noticed and for the request that is about to reach the HAL.
Settled ==
  mishaps = {} /\ owner # "error" =>
    /\ InHand => ~configuration_update_
    /\ pc # "buffers" /\ ~configuration_update_ => old_request_ \in {NoId, hal_settings}
    /\ pc = "buffers" => /\ old_request_ = request.id
                         /\ settings \/ hal_settings = request.id
    /\ pc = "done" => hal_settings = request.id

\* The inductive invariant.
IInv == Types /\ Pausing /\ Numbering /\ Settled
-----------------------------------------------------------------------------
\* The requests of a new list.
LEMMA NewList ==
  ASSUME Types, NEW n \in 1 .. MaxBurst, next_request_id_ + n <= MaxIds, NEW l \in Ids
  PROVE  /\ List(n, l) \in Seq(Request) /\ Len(List(n, l)) = n
         /\ \A i \in 1 .. n : /\ List(n, l)[i].id = next_request_id_ + i - 1
                              /\ List(n, l)[i].list = l
<1>1. n \in Nat /\ next_request_id_ \in Nat
  BY RequestAssumption DEF Types
<1>2. \A i \in 1 .. n : [id |-> next_request_id_ + i - 1, list |-> l] \in Request
  BY <1>1, RequestAssumption DEF Request, Id, Ids
<1>3. List(n, l) \in [1 .. n -> Request]
  BY <1>2 DEF List
<1>4. List(n, l) \in Seq(Request) /\ Len(List(n, l)) = n
  BY <1>1, <1>3
<1> QED
  BY <1>4 DEF List

\* What is left of a queue, and what is put at its end.
LEMMA Tails ==
  ASSUME NEW s \in Seq(Request), s # <<>>
  PROVE  /\ Head(s) = s[1] /\ s[1] \in Request /\ Len(s) >= 1
         /\ Tail(s) \in Seq(Request) /\ Len(Tail(s)) = Len(s) - 1
         /\ \A i \in 1 .. Len(s) - 1 : Tail(s)[i] = s[i + 1]
OBVIOUS

LEMMA Appended ==
  ASSUME NEW s \in Seq(Request), NEW t \in Seq(Request)
  PROVE  /\ s \o t \in Seq(Request) /\ Len(s \o t) = Len(s) + Len(t)
         /\ \A i \in 1 .. Len(s) : (s \o t)[i] = s[i]
         /\ \A i \in Len(s) + 1 .. Len(s) + Len(t) : (s \o t)[i] = t[i - Len(s)]
OBVIOUS

\* The steps that neither take requests nor give out numbers.
Idles ==
  /\ UNCHANGED <<queues, request, next_request_id_, repeating, promised>>
  /\ InHand' => InHand

\* GetRequest, at once or after a wait.
Gets == pc \in {"get", "waiting"} /\ GetRequest

\* The steps, by what they do with requests and numbers.
LEMMA StepKinds ==
  ASSUME [Next]_vars
  PROVE  \/ \E n \in 1 .. MaxBurst : QueueRequestList(n) \/ SetRepeatingRequests(n)
         \/ ClearRepeatingRequests \/ Clear \/ Gets \/ Idles
<1>1. ASSUME ClearTimesOut PROVE Idles
  BY <1>1 DEF ClearTimesOut, Idles, queues, thread, history, InHand
<1>2. ASSUME NEW from, NEW to, NEW on, Toggle(from, to, on) PROVE Idles
  BY <1>2 DEF Toggle, Idles, queues, thread, InHand
<1>3. ASSUME PauseAndWait \/ PauseSeen \/ InternalResume \/ ResumeSeen PROVE Idles
  BY <1>2, <1>3 DEF PauseAndWait, PauseSeen, InternalResume, ResumeSeen, TogglePause
<1>4. ASSUME LeavePaused \/ SetErrorState PROVE Idles
  BY <1>2, <1>4 DEF LeavePaused, SetErrorState, TogglePause
<1>5. ASSUME NEW batch, Configured(batch) PROVE Idles
  BY <1>5 DEF Configured, Idles, queues, thread, InHand
<1>6. ASSUME Reconfigure \/ \E batch \in BatchSizes : ConfigureStreams(batch) PROVE Idles
  BY <1>5, <1>6 DEF Reconfigure, ConfigureStreams
<1>7. ASSUME RequestExit PROVE Idles
  BY <1>7 DEF RequestExit, Idles, queues, thread, history, InHand
<1>8. ASSUME WaitOnPause \/ PauseWaitEnds \/ NotPaused PROVE Idles
  BY <1>8 DEF WaitOnPause, PauseWaitEnds, NotPaused, Goto, Idles, queues, client,
      history,
              InHand
<1>9. ASSUME GetRequestWaits \/ GetRequestTimesOut \/ Got PROVE Idles
  BY <1>9 DEF GetRequestWaits, GetRequestTimesOut, Got, Goto, Idles, queues, client,
      history,
              InHand
<1>10. ASSUME NEW zoom, SubmitRequest(zoom) PROVE Idles
  BY <1>10 DEF SubmitRequest, Idles, queues, client, history, InHand
<1>11. ASSUME GetBufferFails \/ ProcessCaptureRequestFails \/ Submitted PROVE Idles
  BY <1>11 DEF GetBufferFails, ProcessCaptureRequestFails, Submitted,
               ClearCaptureRequest, Idles, queues, InHand
<1>12. ASSUME ProcessCaptureRequest PROVE Idles
  BY <1>12 DEF ProcessCaptureRequest, Idles, queues, client, InHand
<1>13. ASSUME UNCHANGED vars PROVE Idles
  BY <1>13 DEF vars, Idles, queues, thread, client, history, InHand
<1>14. ASSUME GetRequestAtOnce \/ GetRequestWakes PROVE Gets
  BY <1>14 DEF GetRequestAtOnce, GetRequestWakes, Gets
<1>15. ASSUME ThreadLoop PROVE Gets \/ Idles
  BY <1>8, <1>9, <1>10, <1>11, <1>12, <1>14, <1>15 DEF ThreadLoop
<1> QED
  BY <1>1, <1>3, <1>4, <1>6, <1>7, <1>13, <1>15 DEF Next

\* What GetRequest takes: the head of the queue, or of the streaming list when
\* the queue is empty.
LEMMA Taken ==
  ASSUME Types, Gets
  PROVE  \E s \in {requests_, streaming_requests_} :
           /\ s # <<>> /\ s \in Seq(Request) /\ Take(Head(s), Tail(s))
           /\ \/ s = requests_ /\ UNCHANGED streaming_last_frame_number_
              \/ /\ s = streaming_requests_ /\ requests_ = <<>>
                 /\ streaming_last_frame_number_' = LastOfBurst
           /\ UNCHANGED <<streaming_requests_, next_request_id_, repeating, promised>>
BY DEF Gets, GetRequest, Types, client, history

\* Every step keeps the types.
LEMMA TypesStep ==
  ASSUME Types, [Next]_vars
  PROVE  Types'
<1>1. ASSUME NEW n \in 1 .. MaxBurst, QueueRequestList(n) PROVE Types'
  <2>1. List(n, NoId) \in Seq(Request)
    BY <1>1, NewList DEF QueueRequestList, Ids
  <2>2. requests_' \in Seq(Request) /\ Len(requests_') \in Nat
    BY <1>1, <2>1, Appended DEF QueueRequestList, Types
  <2>3. current_frame_number_ + Len(requests_') - 1 \in Int
    BY <2>2, RequestAssumption DEF Types
  <2>4. promised' \in [Id -> Int]
    BY <1>1, <2>3 DEF QueueRequestList, Types
  <2>5. next_request_id_' \in 0 .. MaxIds
    BY <1>1, RequestAssumption DEF QueueRequestList, Types
  <2> QED
    BY <1>1, <2>2, <2>4, <2>5 DEF QueueRequestList, Types, thread, InHand
<1>2. ASSUME TellLast PROVE promised' \in [Id -> Int] /\ streaming_last_frame_number_' \in Int
  <2>1. [promised EXCEPT ![repeating] = streaming_last_frame_number_] \in [Id -> Int]
    BY DEF Types
  <2>2. promised' \in [Id -> Int]
    BY <1>2, <2>1 DEF TellLast, Types
  <2>3. streaming_last_frame_number_' \in Int
    BY <1>2 DEF TellLast, NO_IN_FLIGHT_REPEATING_FRAMES
  <2> QED
    BY <2>2, <2>3
<1>3. ASSUME NEW n \in 1 .. MaxBurst, SetRepeatingRequests(n) PROVE Types'
  <2>1. next_request_id_ \in Id /\ next_request_id_' \in 0 .. MaxIds
    BY <1>3, RequestAssumption DEF SetRepeatingRequests, Types, Id
  <2>2. /\ streaming_requests_' \in Seq(Request)
        /\ Len(streaming_requests_') <= MaxBurst
    BY <1>3, <2>1, NewList, RequestAssumption DEF SetRepeatingRequests, Ids
  <2> QED
    BY <1>2, <1>3, <2>1, <2>2 DEF SetRepeatingRequests, Types, thread, InHand, Ids
<1>4. ASSUME ClearRepeatingRequests PROVE Types'
  BY <1>2, <1>4, RequestAssumption
    DEF ClearRepeatingRequests, Types, thread, client, InHand, Ids
<1>5. ASSUME Clear PROVE Types'
  <2>1. current_frame_number_' \in 0 .. MaxFrames
    BY <1>5, RequestAssumption DEF Clear, Types
  <2> QED
    BY <1>2, <1>5, <2>1, RequestAssumption DEF Clear, Types, thread, InHand, Ids
<1>6. ASSUME Gets PROVE Types'
  <2>1. PICK s \in {requests_, streaming_requests_} :
               /\ s # <<>> /\ s \in Seq(Request) /\ Take(Head(s), Tail(s))
               /\ \/ s = requests_ /\ UNCHANGED streaming_last_frame_number_
                  \/ /\ s = streaming_requests_ /\ requests_ = <<>>
                     /\ streaming_last_frame_number_' = LastOfBurst
               /\ UNCHANGED <<streaming_requests_, next_request_id_, repeating, promised>>
    BY <1>6, Taken
  <2>2. Head(s) \in Request /\ Tail(s) \in Seq(Request)
    BY <2>1, Tails
  <2>3. requests_' \in Seq(Request) /\ current_frame_number_' \in 0 .. MaxFrames
    BY <2>1, <2>2, RequestAssumption DEF Take, Types
  <2>4. request'.id \in Id /\ request'.list \in Ids /\ request'.frame \in Int
    BY <2>1, <2>2 DEF Take, Types, Request, Ids
  <2>5. streaming_last_frame_number_' \in Int
    BY <2>1 DEF LastOfBurst, Types
  <2> QED
    BY <2>1, <2>3, <2>4, <2>5 DEF Types
<1>7. ASSUME Idles PROVE Types'
  BY <1>7 DEF Idles, queues, Types, InHand
<1> QED
  BY <1>1, <1>3, <1>4, <1>5, <1>6, <1>7, StepKinds

\* A number that is told to the caller of TellLast binds no request wrongly.
LEMMA ToldKept ==
  ASSUME Types, Numbering, TellLast, next_request_id_' >= next_request_id_,
         next_request_id_' \in Int, repeating' \in {NoId, next_request_id_},
         NEW r, r.id \in Id, r.list \in Ids, NEW n \in Int, Numbered(r, n)
  PROVE  Numbered(r, n)'
<1>1. next_request_id_ \in Nat /\ NoId \notin Nat
  BY DEF Types, NoId
<1>2. r.id < next_request_id_ /\ r.list < next_request_id_
  BY DEF Numbered
<1>3. r.id < next_request_id_' /\ r.list < next_request_id_'
  BY <1>1, <1>2 DEF Id, Ids, NoId
<1>4. CASE r.list = NoId
  <2>1. r.id # repeating'
    BY <1>1, <1>2, RequestAssumption DEF Id
  <2>2. promised'[r.id] = promised[r.id]
    BY <1>4 DEF TellLast, Numbered, Types
  <2> QED
    BY <1>3, <1>4, <2>1, <2>2 DEF Numbered, NotTold, NoId
<1>5. CASE r.list # NoId
  <2>1. r.list \in Id /\ r.list # repeating'
    BY <1>1, <1>2, <1>5, RequestAssumption DEF Id, Ids
  <2>2. CASE r.list = repeating
    BY <1>3, <1>5, <2>1, <2>2 DEF TellLast, Numbered, Types
  <2>3. CASE r.list # repeating
    BY <1>3, <1>5, <2>1, <2>3 DEF TellLast, Numbered, Types
  <2> QED
    BY <2>2, <2>3
<1> QED
  BY <1>4, <1>5

\* Every step keeps the numbering.
LEMMA NumberingStep ==
  ASSUME Types, Types', Numbering, [Next]_vars
  PROVE  Numbering'
<1>1. /\ next_request_id_ \in Nat /\ MaxIds \in Nat /\ NoId \notin Nat
      /\ current_frame_number_ \in Nat /\ Len(requests_) \in Nat
  BY RequestAssumption DEF Types, NoId
<1>2. /\ requests_ \in Seq(Request) /\ streaming_requests_ \in Seq(Request)
      /\ \A i \in 1 .. Len(requests_) : requests_[i] \in Request
      /\ \A i \in 1 .. Len(streaming_requests_) : streaming_requests_[i] \in Request
  BY DEF Types
<1>0. /\ \A r \in Request : r.id \in Id /\ r.list \in Ids
      /\ repeating = NoId \/ (repeating \in Nat /\ repeating < next_request_id_)
  BY DEF Types, Request, Ids, Id, Numbering
<1>3. ASSUME NEW n \in 1 .. MaxBurst, QueueRequestList(n) PROVE Numbering'
  <2> DEFINE last == next_request_id_ + n - 1
             new == List(n, NoId)
  <2>1. /\ n \in Nat /\ n > 0 /\ next_request_id_ + n <= MaxIds
        /\ next_request_id_' = next_request_id_ + n /\ requests_' = requests_ \o new
        /\ UNCHANGED <<streaming_requests_, current_frame_number_, repeating,
                       streaming_last_frame_number_, request, pc>>
    BY <1>3, RequestAssumption DEF QueueRequestList, thread
  <2>2. /\ new \in Seq(Request) /\ Len(new) = n
        /\ \A i \in 1 .. n : new[i].id = next_request_id_ + i - 1 /\ new[i].list = NoId
    BY <2>1, NewList DEF Ids
  <2> HIDE DEF new
  <2>3. /\ Len(requests_') = Len(requests_) + n
        /\ \A i \in 1 .. Len(requests_) : requests_'[i] = requests_[i]
        /\ \A i \in Len(requests_) + 1 .. Len(requests_) + n :
             requests_'[i] = new[i - Len(requests_)]
    BY <1>2, <2>1, <2>2, Appended
  <2>4. last \in Id /\ last >= next_request_id_ /\ last < next_request_id_'
    BY <1>1, <2>1 DEF Id
  <2>5. \A id \in Id : promised'[id] = IF id = last
                                       THEN current_frame_number_ + Len(requests_) + n - 1
                                       ELSE promised[id]
    BY <1>1, <1>3, <2>3, <2>4 DEF QueueRequestList, Types
  <2> HIDE DEF last
  <2>6. ASSUME NEW r, r.id \in Id, r.list \in Ids, NEW k, Numbered(r, k) PROVE Numbered(r, k)'
    <3>1. r.id < next_request_id_ /\ r.list < next_request_id_
      BY <2>6 DEF Numbered
    <3>2. r.id # last /\ r.list # last /\ r.id < next_request_id_' /\ r.list < next_request_id_'
      BY <1>1, <2>1, <2>4, <2>6, <3>1 DEF Id, Ids, NoId
    <3>3. /\ promised'[r.id] = promised[r.id]
          /\ r.list # NoId => promised'[r.list] = promised[r.list]
      BY <2>5, <2>6, <3>2 DEF Ids
    <3> QED
      BY <2>1, <2>6, <3>2, <3>3 DEF Numbered, NotTold, NoId
  <2>7. ASSUME NEW i \in 1 .. Len(requests_')
        PROVE  Numbered(requests_[i], current_frame_number_ + i - 1)'
    <3> PICK r, k : r = requests_'[i] /\ k = current_frame_number_ + i - 1
      OBVIOUS
    <3> SUFFICES Numbered(r, k)'
      BY <2>1 DEF Numbered
    <3>1. CASE i \in 1 .. Len(requests_)
      <4>1. r = requests_[i]
        BY <2>3, <3>1
      <4>2. r.id \in Id /\ r.list \in Ids
        BY <1>0, <1>2, <3>1, <4>1
      <4>3. Numbered(r, k)
        BY <3>1, <4>1 DEF Numbering
      <4> QED
        BY <2>6, <4>2, <4>3
    <3>2. CASE i \in Len(requests_) + 1 .. Len(requests_) + n
      <4> DEFINE j == i - Len(requests_)
      <4>1. j \in 1 .. n /\ r = new[j]
        BY <1>1, <2>1, <2>3, <3>2
      <4>2. r.id = next_request_id_ + j - 1 /\ r.list = NoId
        BY <2>2, <4>1
      <4>3. r.id \in Id \cap Nat /\ r.id >= next_request_id_ /\ r.id < next_request_id_'
        <5>1. j \in Nat /\ j > 0 /\ j <= n
          BY <2>1, <4>1
        <5> HIDE DEF j
        <5> QED
          BY <1>1, <2>1, <4>2, <5>1 DEF Id
      <4>4. r.id # repeating'
        <5>1. repeating' = repeating
          BY <2>1
        <5> QED
          BY <1>0, <1>1, <4>3, <5>1
      <4>5. r.list < next_request_id_'
        BY <1>1, <2>1, <4>2 DEF NoId
      <4>6. promised[r.id] = NotTold
        BY <4>3 DEF Numbering
      <4>7. r.id = last => i = Len(requests_) + n
        <5>1. i \in Nat /\ n \in Nat
          BY <1>1, <2>1, <3>2
        <5> QED
          BY <1>1, <4>2, <5>1 DEF last
      <4>8. promised'[r.id] # NotTold => promised'[r.id] = k
        <5>1. CASE r.id = last
          <6>1. promised'[r.id] = current_frame_number_ + Len(requests_) + n - 1
            BY <2>5, <4>3, <5>1
          <6> QED
            BY <1>1, <2>1, <4>7, <5>1, <6>1
        <5>2. CASE r.id # last
          BY <2>5, <4>3, <4>6, <5>2
        <5> QED
          BY <5>1, <5>2
      <4> QED
        BY <2>1, <4>2, <4>3, <4>4, <4>5, <4>8 DEF Numbered, NotTold, NoId
    <3> QED
      BY <1>1, <2>1, <2>3, <3>1, <3>2
  <2>8. InHand' => Numbered(request, request.frame)'
    BY <2>1, <2>6 DEF Numbering, Types, InHand
  <2>9. \A id \in Id : id >= next_request_id_' => promised'[id] = NotTold'
    BY <1>1, <2>1, <2>4, <2>5 DEF Numbering, NotTold, Id
  <2>10. repeating' # NoId' => repeating' < next_request_id_' /\ promised'[repeating'] = NotTold'
    BY <1>1, <2>1, <2>4, <2>5 DEF Numbering, NotTold, NoId, Types, Id, Ids
  <2>11. \A i \in 1 .. Len(streaming_requests_') :
           /\ streaming_requests_'[i].list = repeating' /\ repeating' # NoId'
           /\ streaming_requests_'[i].id < next_request_id_'
    <3> SUFFICES ASSUME NEW i \in 1 .. Len(streaming_requests_)
                 PROVE  streaming_requests_[i].id < next_request_id_'
      BY <2>1 DEF Numbering, NoId
    <3>1. streaming_requests_[i].id \in Id
      BY <1>0, <1>2
    <3> QED
      BY <1>1, <2>1, <3>1 DEF Numbering, Id
  <2> QED
    BY <2>7, <2>8, <2>9, <2>10, <2>11 DEF Numbering
<1>4. ASSUME TellLast, next_request_id_' \in Nat, next_request_id_' >= next_request_id_,
             repeating' \in {NoId, next_request_id_}, UNCHANGED <<request, pc>>,
             next_request_id_ \in Id \/ repeating' = NoId,
             repeating' = NoId \/ next_request_id_' > next_request_id_
      PROVE  /\ \A id \in Id : id >= next_request_id_' => promised'[id] = NotTold
             /\ repeating' # NoId => repeating' < next_request_id_'
                                     /\ promised'[repeating'] = NotTold
             /\ InHand' => Numbered(request, request.frame)'
  <2>1. ASSUME NEW id \in Id, id >= next_request_id_
        PROVE  id # repeating /\ promised'[id] = NotTold
    <3>1. id # repeating /\ promised[id] = NotTold
      BY <1>0, <1>1, <2>1 DEF Id, Numbering
    <3> QED
      BY <1>4, <3>1 DEF TellLast, Types
  <2>2. \A id \in Id : id >= next_request_id_' => promised'[id] = NotTold
    BY <1>1, <1>4, <2>1 DEF Id
  <2>3. repeating' # NoId => repeating' < next_request_id_' /\ promised'[repeating'] = NotTold
    BY <1>1, <1>4, <2>1
  <2>4. InHand' => Numbered(request, request.frame)'
    <3> SUFFICES ASSUME InHand PROVE Numbered(request, request.frame)'
      BY <1>4 DEF InHand
    <3> PICK r, k : r = request /\ k = request.frame
      OBVIOUS
    <3>1. r.id \in Id /\ r.list \in Ids /\ k \in Int
      BY DEF Types
    <3>2. Numbered(r, k)
      BY DEF Numbering
    <3>3. Numbered(r, k)'
      BY <1>1, <1>4, <3>1, <3>2, ToldKept
    <3> QED
      BY <1>4, <3>3 DEF Numbered
  <2> QED
    BY <2>2, <2>3, <2>4
<1>5. ASSUME TellLast, next_request_id_' \in Nat, next_request_id_' >= next_request_id_,
             repeating' \in {NoId, next_request_id_},
             UNCHANGED <<requests_, current_frame_number_>>,
             NEW i \in 1 .. Len(requests_)
      PROVE  Numbered(requests_[i], current_frame_number_ + i - 1)'
  <2> PICK r, k : r = requests_[i] /\ k = current_frame_number_ + i - 1
    OBVIOUS
  <2>1. r.id \in Id /\ r.list \in Ids /\ k \in Int
    BY <1>0, <1>1, <1>2
  <2>2. Numbered(r, k)
    BY DEF Numbering
  <2>3. Numbered(r, k)'
    BY <1>1, <1>5, <2>1, <2>2, ToldKept
  <2> QED
    BY <1>5, <2>3 DEF Numbered
<1>6. ASSUME NEW n \in 1 .. MaxBurst, SetRepeatingRequests(n) PROVE Numbering'
  <2>1. /\ n \in Nat /\ n > 0 /\ next_request_id_ + n <= MaxIds
        /\ next_request_id_' = next_request_id_ + n /\ repeating' = next_request_id_
        /\ streaming_requests_' = List(n, next_request_id_) /\ TellLast
        /\ UNCHANGED <<requests_, current_frame_number_, request, pc>>
    BY <1>6, RequestAssumption DEF SetRepeatingRequests, thread
  <2>2. /\ next_request_id_ \in Id /\ next_request_id_' \in Nat
        /\ next_request_id_' > next_request_id_
    BY <1>1, <2>1 DEF Id
  <2>3. \A i \in 1 .. n : /\ streaming_requests_'[i].id = next_request_id_ + i - 1
                          /\ streaming_requests_'[i].list = next_request_id_
    BY <2>1, <2>2, NewList DEF Ids
  <2>4. Len(streaming_requests_') = n
    BY <2>1, <2>2, NewList DEF Ids
  <2>5. \A i \in 1 .. Len(streaming_requests_') :
          /\ streaming_requests_'[i].list = repeating' /\ repeating' # NoId
          /\ streaming_requests_'[i].id < next_request_id_'
    BY <1>1, <2>1, <2>3, <2>4
  <2>6. next_request_id_' >= next_request_id_
    BY <1>1, <2>2
  <2>7. \A i \in 1 .. Len(requests_') : Numbered(requests_[i], current_frame_number_ + i - 1)'
    BY <1>5, <2>1, <2>2, <2>6
  <2>8. /\ \A id \in Id : id >= next_request_id_' => promised'[id] = NotTold
        /\ repeating' # NoId => repeating' < next_request_id_' /\ promised'[repeating'] = NotTold
        /\ InHand' => Numbered(request, request.frame)'
    BY <1>4, <2>1, <2>2, <2>6
  <2> QED
    BY <2>5, <2>7, <2>8 DEF Numbering, NotTold, NoId
<1>7. ASSUME ClearRepeatingRequests PROVE Numbering'
  <2>1. /\ streaming_requests_' = <<>> /\ TellLast /\ repeating' = NoId
        /\ UNCHANGED <<requests_, current_frame_number_, request, pc, next_request_id_>>
    BY <1>7 DEF ClearRepeatingRequests, thread, client
  <2>2. next_request_id_' >= next_request_id_ /\ next_request_id_' \in Nat
    BY <1>1, <2>1
  <2>3. \A i \in 1 .. Len(requests_') : Numbered(requests_[i], current_frame_number_ + i - 1)'
    BY <1>5, <2>1, <2>2
  <2>4. /\ \A id \in Id : id >= next_request_id_' => promised'[id] = NotTold
        /\ InHand' => Numbered(request, request.frame)'
    BY <1>4, <2>1, <2>2
  <2> QED
    BY <2>1, <2>3, <2>4 DEF Numbering, NotTold, NoId
<1>8. ASSUME Clear PROVE Numbering'
  <2>1. /\ streaming_requests_' = <<>> /\ requests_' = <<>> /\ TellLast /\ repeating' = NoId
        /\ UNCHANGED <<request, pc, next_request_id_>>
    BY <1>8 DEF Clear, thread
  <2>2. next_request_id_' >= next_request_id_ /\ next_request_id_' \in Nat
    BY <1>1, <2>1
  <2>3. /\ \A id \in Id : id >= next_request_id_' => promised'[id] = NotTold
        /\ InHand' => Numbered(request, request.frame)'
    BY <1>4, <2>1, <2>2
  <2> QED
    BY <2>1, <2>3 DEF Numbering, NotTold, NoId
<1>9. ASSUME Gets PROVE Numbering'
  <2>1. PICK s \in {requests_, streaming_requests_} :
               /\ s # <<>> /\ s \in Seq(Request) /\ Take(Head(s), Tail(s))
               /\ \/ s = requests_ /\ UNCHANGED streaming_last_frame_number_
                  \/ /\ s = streaming_requests_ /\ requests_ = <<>>
                     /\ streaming_last_frame_number_' = LastOfBurst
               /\ UNCHANGED <<streaming_requests_, next_request_id_, repeating, promised>>
    BY <1>9, Taken
  <2>2. /\ Head(s) = s[1] /\ s[1] \in Request /\ Len(s) \in Nat /\ Len(s) >= 1
        /\ Len(Tail(s)) = Len(s) - 1
        /\ \A i \in 1 .. Len(s) - 1 : Tail(s)[i] = s[i + 1]
    BY <2>1, Tails
  <2>3. /\ requests_' = Tail(s) /\ current_frame_number_' = current_frame_number_ + 1
        /\ request'.id = s[1].id /\ request'.list = s[1].list
        /\ request'.frame = current_frame_number_
    BY <2>1, <2>2 DEF Take
  <2>4. ASSUME NEW i \in 1 .. Len(s), NEW r, r = s[i],
               NEW k, k = current_frame_number_ + i - 1
        PROVE  Numbered(r, k)'
    <3>0. i \in Nat /\ i >= 1 /\ i <= Len(s) /\ k \in Int
      BY <1>1, <2>2, <2>4
    <3>1. CASE s = requests_ /\ UNCHANGED streaming_last_frame_number_
      <4>1. Numbered(r, k)
        BY <2>4, <3>1 DEF Numbering
      <4> QED
        BY <2>1, <3>1, <4>1 DEF Numbered, NotTold, NoId
    <3>2. CASE s = streaming_requests_ /\ streaming_last_frame_number_' = LastOfBurst
      <4>1. /\ r.list = repeating /\ repeating # NoId /\ r.id < next_request_id_
            /\ repeating < next_request_id_ /\ promised[repeating] = NotTold
        BY <2>4, <3>2 DEF Numbering
      <4>2. k <= NotTold
        BY <1>1, <2>4, <3>0, <3>2, RequestAssumption DEF Types, NotTold
      <4>3. k <= streaming_last_frame_number_'
        BY <1>1, <2>2, <2>4, <3>0, <3>2 DEF LastOfBurst
      <4>4. UNCHANGED <<next_request_id_, repeating, promised>>
        BY <2>1
      <4> QED
        BY <4>1, <4>2, <4>3, <4>4 DEF Numbered, NotTold, NoId
    <3> QED
      BY <2>1, <3>1, <3>2
  <2>5. Numbered(request, request.frame)'
    <3> PICK r, k : r = s[1] /\ k = current_frame_number_ + 1 - 1
      OBVIOUS
    <3>1. Numbered(r, k)'
      BY <2>2, <2>4
    <3>2. request'.id = r.id /\ request'.list = r.list /\ request'.frame = k
      BY <1>1, <2>3
    <3> QED
      BY <3>1, <3>2 DEF Numbered
  <2>6. ASSUME NEW i \in 1 .. Len(requests_')
        PROVE  Numbered(requests_[i], current_frame_number_ + i - 1)'
    <3>1. i + 1 \in 1 .. Len(s) /\ requests_'[i] = s[i + 1]
      BY <2>2, <2>3
    <3> PICK r, k : r = s[i + 1] /\ k = current_frame_number_ + (i + 1) - 1
      OBVIOUS
    <3>2. Numbered(r, k)'
      BY <2>4, <3>1
    <3>3. k = current_frame_number_' + i - 1
      BY <1>1, <2>3
    <3> QED
      BY <3>1, <3>2, <3>3 DEF Numbered
  <2> QED
    BY <2>1, <2>5, <2>6 DEF Numbering, NotTold, NoId
<1>10. ASSUME Idles PROVE Numbering'
  <2>1. /\ UNCHANGED <<requests_, streaming_requests_, current_frame_number_, request,
                       streaming_last_frame_number_, next_request_id_, repeating, promised>>
        /\ InHand' => InHand
    BY <1>10 DEF Idles, queues
  <2>2. ASSUME NEW r, NEW k, Numbered(r, k) PROVE Numbered(r, k)'
    BY <2>1, <2>2 DEF Numbered, NotTold, NoId
  <2>3. InHand' => Numbered(request, request.frame)'
    <3> SUFFICES ASSUME InHand PROVE Numbered(request, request.frame)'
      BY <2>1
    <3> PICK r, k : r = request /\ k = request.frame
      OBVIOUS
    <3>1. Numbered(r, k)'
      BY <2>2 DEF Numbering
    <3> QED
      BY <2>1, <3>1 DEF Numbered
  <2>4. ASSUME NEW i \in 1 .. Len(requests_')
        PROVE  Numbered(requests_[i], current_frame_number_ + i - 1)'
    <3> PICK r, k : r = requests_[i] /\ k = current_frame_number_ + i - 1
      OBVIOUS
    <3>1. Numbered(r, k)'
      BY <2>1, <2>2 DEF Numbering
    <3> QED
      BY <2>1, <3>1 DEF Numbered
  <2> QED
    BY <2>1, <2>3, <2>4 DEF Numbering, NotTold, NoId
<1> QED
  BY <1>3, <1>6, <1>7, <1>8, <1>9, <1>10, StepKinds

\* Every step keeps the flags and the device client's place in agreement.
LEMMA PausingStep ==
  ASSUME Types, Pausing, [Next]_vars
  PROVE  Pausing'
<1>1. ASSUME NEW n \in 1 .. MaxBurst, QueueRequestList(n) PROVE Pausing'
  BY <1>1 DEF QueueRequestList, Resume, MayCall, config, thread, Pausing, InHand,
      Pending, PauseObeyed
<1>2. ASSUME NEW n \in 1 .. MaxBurst, SetRepeatingRequests(n) PROVE Pausing'
  BY <1>2 DEF SetRepeatingRequests, Resume, MayCall, config, thread, Pausing, InHand,
      Pending, PauseObeyed
<1>3. ASSUME ClearRepeatingRequests PROVE Pausing'
  BY <1>3 DEF ClearRepeatingRequests, config, pause, thread, client, MayCall, Pausing,
      InHand, Pending, PauseObeyed
<1>4. ASSUME Clear PROVE Pausing'
  BY <1>4 DEF Clear, config, pause, thread, Pausing, InHand, Pending, PauseObeyed
<1>5. ASSUME ClearTimesOut PROVE Pausing'
  BY <1>5 DEF ClearTimesOut, queues, config, pause, thread, history, Pausing, InHand,
      Pending, PauseObeyed
<1>6. ASSUME PauseAndWait PROVE Pausing'
  BY <1>6 DEF PauseAndWait, MayCall, TogglePause, Toggle, queues, config, thread,
      Pausing, InHand, Pending, PauseObeyed
<1>7. ASSUME PauseSeen PROVE Pausing'
  BY <1>7 DEF PauseSeen, TogglePause, Toggle, queues, config, thread, Pausing, InHand,
      Pending, PauseObeyed
<1>8. ASSUME Reconfigure PROVE Pausing'
  BY <1>8 DEF Reconfigure, Configured, queues, pause, thread, Pausing, InHand, Pending,
      PauseObeyed
<1>9. ASSUME InternalResume PROVE Pausing'
  BY <1>9 DEF InternalResume, TogglePause, Toggle, queues, config, thread, Pausing,
      InHand, Pending, PauseObeyed
<1>10. ASSUME ResumeSeen PROVE Pausing'
  BY <1>10 DEF ResumeSeen, TogglePause, Toggle, queues, config, thread, Pausing,
      InHand, Pending, PauseObeyed
<1>11. ASSUME NEW batch \in BatchSizes, ConfigureStreams(batch) PROVE Pausing'
  BY <1>11 DEF ConfigureStreams, MayCall, Configured, queues, pause, thread, Pausing,
      InHand, Pending, PauseObeyed
<1>12. ASSUME LeavePaused PROVE Pausing'
  BY <1>12 DEF LeavePaused, Toggle, queues, config, thread, Pausing, InHand, Pending,
      PauseObeyed
<1>13. ASSUME SetErrorState PROVE Pausing'
  BY <1>13 DEF SetErrorState, TogglePause, Toggle, queues, config, thread, Pausing,
      InHand, Pending, PauseObeyed
<1>14. ASSUME RequestExit PROVE Pausing'
  BY <1>14 DEF RequestExit, queues, config, pause, thread, history, Pausing, InHand,
      Pending, PauseObeyed
<1>15. ASSUME WaitOnPause PROVE Pausing'
  BY <1>15 DEF WaitOnPause, ToIdle, queues, config, client, history, Pausing, InHand,
      Pending, PauseObeyed
<1>16. ASSUME PauseWaitEnds PROVE Pausing'
  BY <1>16 DEF PauseWaitEnds, Goto, queues, config, pause, client, history, Pausing,
      InHand, Pending, PauseObeyed
<1>17. ASSUME NotPaused PROVE Pausing'
  BY <1>17 DEF NotPaused, Leave, Goto, queues, config, pause, client, history, Pausing,
      InHand, Pending, PauseObeyed
<1>18. ASSUME Gets PROVE Pausing'
  BY <1>18 DEF Gets, GetRequest, Take, client, history, Pausing, InHand, Pending,
      PauseObeyed
<1>19. ASSUME GetRequestWaits PROVE Pausing'
  BY <1>19 DEF GetRequestWaits, Goto, queues, config, pause, client, history, Pausing,
      InHand, Pending, PauseObeyed
<1>20. ASSUME GetRequestTimesOut PROVE Pausing'
  BY <1>20 DEF GetRequestTimesOut, ToIdle, queues, config, client, history, Pausing,
      InHand, Pending, PauseObeyed
<1>21. ASSUME Got PROVE Pausing'
  BY <1>21 DEF Got, Leave, Goto, queues, config, pause, client, history, Pausing,
      InHand, Pending, PauseObeyed
<1>22. ASSUME NEW zoom \in BOOLEAN, SubmitRequest(zoom) PROVE Pausing'
  BY <1>22 DEF SubmitRequest, queues, pause, client, history, Pausing, InHand, Pending,
      PauseObeyed
<1>23. ASSUME GetBufferFails PROVE Pausing'
  BY <1>23 DEF GetBufferFails, ClearCaptureRequest, queues, config, pause, Pausing,
      InHand, Pending, PauseObeyed
<1>24. ASSUME ProcessCaptureRequest PROVE Pausing'
  BY <1>24 DEF ProcessCaptureRequest, queues, config, pause, client, Pausing, InHand,
      Pending, PauseObeyed
<1>25. ASSUME ProcessCaptureRequestFails PROVE Pausing'
  BY <1>25 DEF ProcessCaptureRequestFails, ClearCaptureRequest, queues, config,
      Pausing, InHand, Pending, PauseObeyed
<1>26. ASSUME Submitted PROVE Pausing'
  BY <1>26 DEF Submitted, ClearCaptureRequest, queues, config, pause, Pausing, InHand,
      Pending, PauseObeyed
<1>27. ASSUME UNCHANGED vars PROVE Pausing'
  BY <1>27 DEF vars, queues, config, pause, thread, client, history, Pausing, InHand,
      Pending, PauseObeyed
<1>28. GetRequestAtOnce \/ GetRequestWakes => Gets
  BY DEF GetRequestAtOnce, GetRequestWakes, Gets
<1> QED
  BY <1>1, <1>2, <1>3, <1>4, <1>5, <1>6, <1>7, <1>8, <1>9, <1>10, <1>11, <1>12, <1>13,
      <1>14, <1>15, <1>16, <1>17, <1>18, <1>19, <1>20, <1>21, <1>22,
      <1>23, <1>24, <1>25, <1>26, <1>27, <1>28 DEF Next, ThreadLoop

\* Every step keeps old_request_ right.
LEMMA SettledStep ==
  ASSUME Types, Pausing, Settled, [Next]_vars
  PROVE  Settled'
<1>1. ASSUME NEW n \in 1 .. MaxBurst, QueueRequestList(n) PROVE Settled'
  BY <1>1 DEF QueueRequestList, Resume, MayCall, config, thread, Settled, InHand
<1>2. ASSUME NEW n \in 1 .. MaxBurst, SetRepeatingRequests(n) PROVE Settled'
  BY <1>2 DEF SetRepeatingRequests, Resume, MayCall, config, thread, Settled, InHand
<1>3. ASSUME ClearRepeatingRequests PROVE Settled'
  BY <1>3 DEF ClearRepeatingRequests, config, pause, thread, client, MayCall, Settled,
      InHand
<1>4. ASSUME Clear PROVE Settled'
  BY <1>4 DEF Clear, config, pause, thread, Settled, InHand
<1>5. ASSUME ClearTimesOut PROVE Settled'
  BY <1>5 DEF ClearTimesOut, queues, config, pause, thread, history, Settled, InHand
<1>6. ASSUME PauseAndWait PROVE Settled'
  BY <1>6 DEF PauseAndWait, MayCall, TogglePause, Toggle, queues, config, thread,
      Settled, InHand
<1>7. ASSUME PauseSeen PROVE Settled'
  BY <1>7 DEF PauseSeen, TogglePause, Toggle, queues, config, thread, Settled, InHand
<1>8. ASSUME Reconfigure PROVE Settled'
  BY <1>8 DEF Reconfigure, Configured, queues, pause, thread, Settled, Pausing, InHand
<1>9. ASSUME InternalResume PROVE Settled'
  BY <1>9 DEF InternalResume, TogglePause, Toggle, queues, config, thread, Settled,
      InHand
<1>10. ASSUME ResumeSeen PROVE Settled'
  BY <1>10 DEF ResumeSeen, TogglePause, Toggle, queues, config, thread, Settled, InHand
<1>11. ASSUME NEW batch \in BatchSizes, ConfigureStreams(batch) PROVE Settled'
  BY <1>11 DEF ConfigureStreams, MayCall, Configured, queues, pause, thread, Settled,
      Pausing,
               InHand
<1>12. ASSUME LeavePaused PROVE Settled'
  BY <1>12 DEF LeavePaused, Toggle, queues, config, thread, Settled, InHand
<1>13. ASSUME SetErrorState PROVE Settled'
  BY <1>13 DEF SetErrorState, TogglePause, Toggle, queues, config, thread, Settled,
      InHand
<1>14. ASSUME RequestExit PROVE Settled'
  BY <1>14 DEF RequestExit, queues, config, pause, thread, history, Settled, InHand
<1>15. ASSUME WaitOnPause PROVE Settled'
  BY <1>15 DEF WaitOnPause, ToIdle, queues, config, client, history, Settled, InHand
<1>16. ASSUME PauseWaitEnds PROVE Settled'
  BY <1>16 DEF PauseWaitEnds, Goto, queues, config, pause, client, history, Settled,
      InHand
<1>17. ASSUME NotPaused PROVE Settled'
  BY <1>17 DEF NotPaused, Leave, Goto, queues, config, pause, client, history, Settled,
      InHand
<1>18. ASSUME Gets PROVE Settled'
  BY <1>18 DEF Gets, GetRequest, Take, client, history, Settled, InHand
<1>19. ASSUME GetRequestWaits PROVE Settled'
  BY <1>19 DEF GetRequestWaits, Goto, queues, config, pause, client, history, Settled,
      InHand
<1>20. ASSUME GetRequestTimesOut PROVE Settled'
  BY <1>20 DEF GetRequestTimesOut, ToIdle, queues, config, client, history, Settled,
      InHand
<1>21. ASSUME Got PROVE Settled'
  BY <1>21 DEF Got, Leave, Goto, queues, config, pause, client, history, Settled, InHand
<1>22. ASSUME NEW zoom \in BOOLEAN, SubmitRequest(zoom) PROVE Settled'
  <2>1. InHand => request.id # NoId
    BY DEF Types, Id, NoId
  <2>2. old_request_' = request.id
    BY <1>22 DEF SubmitRequest, NewSettings
  <2>3. settings' \/ request.id = old_request_
    BY <1>22 DEF SubmitRequest, NewSettings
  <2> QED
    BY <1>22, <2>1, <2>2, <2>3 DEF SubmitRequest, queues, pause, client, history, Settled, InHand
<1>23. ASSUME GetBufferFails PROVE Settled'
  BY <1>23 DEF GetBufferFails, ClearCaptureRequest, queues, config, pause, Settled,
      InHand
<1>24. ASSUME ProcessCaptureRequest PROVE Settled'
  BY <1>24 DEF ProcessCaptureRequest, queues, config, pause, client, Settled, InHand
<1>25. ASSUME ProcessCaptureRequestFails PROVE Settled'
  BY <1>25 DEF ProcessCaptureRequestFails, ClearCaptureRequest, queues, config,
      Settled, InHand
<1>26. ASSUME Submitted PROVE Settled'
  BY <1>26 DEF Submitted, ClearCaptureRequest, queues, config, pause, Settled, InHand
<1>27. ASSUME UNCHANGED vars PROVE Settled'
  BY <1>27 DEF vars, queues, config, pause, thread, client, history, Settled, InHand
<1>28. GetRequestAtOnce \/ GetRequestWakes => Gets
  BY DEF GetRequestAtOnce, GetRequestWakes, Gets
<1> QED
  BY <1>1, <1>2, <1>3, <1>4, <1>5, <1>6, <1>7, <1>8, <1>9, <1>10, <1>11, <1>12, <1>13,
      <1>14, <1>15, <1>16, <1>17, <1>18, <1>19, <1>20, <1>21, <1>22,
      <1>23, <1>24, <1>25, <1>26, <1>27, <1>28 DEF Next, ThreadLoop

LEMMA InitIInv == Init => IInv
<1> SUFFICES ASSUME Init PROVE IInv
  OBVIOUS
<1>1. Types
  BY RequestAssumption DEF Init, Types, Ids, InHand, NotTold,
      NO_IN_FLIGHT_REPEATING_FRAMES
<1>2. Pausing
  BY DEF Init, Pausing, InHand, Pending
<1>3. Numbering
  BY DEF Init, Numbering, InHand
<1>4. Settled
  BY DEF Init, Settled, InHand
<1> QED
  BY <1>1, <1>2, <1>3, <1>4 DEF IInv

LEMMA IInvariant == Spec => []IInv
<1>1. IInv /\ [Next]_vars => IInv'
  BY TypesStep, PausingStep, NumberingStep, SettledStep DEF IInv
<1> QED
  BY <1>1, InitIInv, PTL DEF Spec
-----------------------------------------------------------------------------
\* InternalPauseAndWaitLocked and the handler's WaitOnPause exclude each other: from
\* the moment the device client has seen the handler IDLE to its resume, the thread
\* holds no request and takes none, whatever was queued or cleared in the meantime,
\* whatever the batch sizes and wherever in a batch the pause was asked for.
THEOREM NoRequestWhilePaused == Spec => []QuietWhilePaused
<1>1. IInv => QuietWhilePaused
  BY DEF IInv, Pausing, QuietWhilePaused
<1> QED
  BY <1>1, IInvariant, PTL

\* The last frame numbers that QueueRequestList, SetRepeatingRequests,
\* ClearRepeatingRequests and Clear return are the ones GetRequest gives out, for any
\* number of requests and any interleaving of the calls with the request thread.
THEOREM PromisedNumbersKept == Spec => []FrameNumbersKept
<1>1. ASSUME IInv PROVE FrameNumbersKept
  <2>1. ASSUME NEW i \in 1 .. Len(requests_), requests_[i].list = NoId,
               promised[requests_[i].id] # NotTold
        PROVE  promised[requests_[i].id] = current_frame_number_ + i - 1
    BY <1>1, <2>1 DEF IInv, Numbering, Numbered
  <2>2. InHand => Numbered(request, request.frame)
    BY <1>1 DEF IInv, Numbering
  <2> QED
    BY <2>1, <2>2 DEF FrameNumbersKept, Numbered
<1> QED
  BY <1>1, IInvariant, PTL

\* SubmitRequest leaves a request's settings out only when the HAL already has them:
\* FinishConfiguration never comes between GetRequest, which forgets old_request_, and
\* the request's way to the HAL.
THEOREM SettingsAlwaysThere == Spec => []SettingsReachHal
<1>1. IInv => SettingsReachHal
  BY DEF IInv, Settled, SettingsReachHal
<1> QED
  BY <1>1, IInvariant, PTL
=============================================================================
