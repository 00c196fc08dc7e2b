---------------------------- MODULE Camera3Stream ----------------------------
(***************************************************************************)
(* Camera3Stream (common/cameraadaptor/qmmf_camera3_stream.cc): one output *)
(* stream of the camera.  It allocates buffers on demand, hands them to    *)
(* the request threads, which give them to the HAL; the HAL's results go   *)
(* to the client, which returns them.  Every method runs under lock_, so   *)
(* each critical section is one action; GetBuffer may sleep in the middle. *)
(*                                                                         *)
(* A buffer's place: "stream" (not handed out), "handler" (a request       *)
(* thread filled it into a request), "hal", "failed" (an error result,     *)
(* between the two critical sections of ReturnBufferToClient), "client".   *)
(***************************************************************************)
EXTENDS Integers, Sequences, FiniteSets

CONSTANTS
  Handles,          \* buffer handles the allocator can return
  Callers,          \* threads that call GetBuffer (ThreadLoop, ReprocLoop)
  Usages,           \* usage flags the HAL may ask for; 0 is no flag at all
  HalMaxBuffers,    \* values the HAL may write to max_buffers
  ClientUsage, ClientMaxBuffers,
  CounterModulus,   \* uint32 counters wrap at this value
  Quiesced          \* TRUE: the owner reconfigures only an idle stream

ASSUME StreamAssumption ==
  /\ IsFiniteSet(Handles)
  /\ Usages \subseteq Nat /\ ClientUsage \in Usages
  /\ HalMaxBuffers \subseteq Nat /\ ClientMaxBuffers \in Nat
  /\ CounterModulus \in Nat \ {0}
  /\ Quiesced \in BOOLEAN

VARIABLES
  status_,
  config,                    \* camera3_stream::usage and ::max_buffers
  old_config,                \* old_usage_ and old_max_buffers_
  total_buffer_count_, pending_buffer_count_,
  hal_buffer_cnt_, client_buffer_cnt_,
  mem_alloc_buffers_,        \* KeyedVector handle -> "is free"
  mem_alloc_slots_,          \* its length is hw_buffer_allocated_
  monitor,                   \* "none" or the last state asked of our monitor
  is_stream_active_,
  prepared_buffers_count_,
  place,                     \* where each handle is
  waiting,                   \* callers asleep in GetBuffer
  closed                     \* the device client dropped it from streams_

configVars == <<config, old_config, total_buffer_count_>>
poolVars == <<mem_alloc_buffers_, mem_alloc_slots_>>
counters == <<hal_buffer_cnt_, client_buffer_cnt_>>
vars == <<status_, configVars, pending_buffer_count_, counters, poolVars,
          monitor, is_stream_active_, prepared_buffers_count_, place, waiting,
          closed>>

Status == {"ERROR", "INTIALIZED", "CONFIG_ACTIVE", "RECONFIG_ACTIVE",
           "CONFIGURED", "PREPARE_ACTIVE"}
Configuring == {"CONFIG_ACTIVE", "RECONFIG_ACTIVE"}
Config == [usage : Usages, max : HalMaxBuffers \cup {ClientMaxBuffers}]
NoConfig == [usage |-> 0, max |-> 0]
ClientConfig == [usage |-> ClientUsage, max |-> ClientMaxBuffers]
Empty == [h \in {} |-> FALSE]
Free == {h \in DOMAIN mem_alloc_buffers_ : mem_alloc_buffers_[h]}
MAX(a, b) == IF a > b THEN a ELSE b

Add(counter, n) == (counter + n) % CounterModulus

Init ==
  /\ status_ = "INTIALIZED"
  /\ config = ClientConfig
  /\ old_config = NoConfig
  /\ total_buffer_count_ = 0 /\ pending_buffer_count_ = 0
  /\ hal_buffer_cnt_ = 0 /\ client_buffer_cnt_ = 0
  /\ mem_alloc_buffers_ = Empty /\ mem_alloc_slots_ = <<>>
  /\ monitor = "none"
  /\ is_stream_active_ = FALSE
  /\ prepared_buffers_count_ = 0
  /\ place = [h \in Handles |-> "stream"]
  /\ waiting = {}
  /\ closed = FALSE

\* What the device client arranges before it touches the configuration: the
\* request threads are paused and every monitor is IDLE.
OwnerMayReconfigure ==
  Quiesced => pending_buffer_count_ = 0 /\ waiting = {}

-----------------------------------------------------------------------------
(* Configuration.                                                          *)

BeginConfigure ==
  /\ OwnerMayReconfigure
  /\ ~closed
  /\ status_ \in {"INTIALIZED", "CONFIGURED"}
  /\ config' = ClientConfig
  /\ monitor' = "none"
  /\ status_' = IF status_ = "INTIALIZED" THEN "CONFIG_ACTIVE"
                                          ELSE "RECONFIG_ACTIVE"
  /\ UNCHANGED <<old_config, total_buffer_count_, pending_buffer_count_,
                 counters, poolVars, is_stream_active_,
                 prepared_buffers_count_, place, waiting, closed>>

\* EndConfigure of a RECONFIG_ACTIVE stream whose values did not change.
KeepBuffers(c) ==
  /\ status_ = "RECONFIG_ACTIVE"
  /\ c = old_config
  /\ status_' = "CONFIGURED"
  /\ UNCHANGED <<old_config, total_buffer_count_, pending_buffer_count_,
                 poolVars, is_stream_active_>>

\* CloseLocked refuses while buffers are out.
CloseRefused == pending_buffer_count_ > 0

\* ConfigureLocked fails in CloseLocked.
ConfigureFails(c) ==
  /\ status_ = "RECONFIG_ACTIVE" /\ c # old_config
  /\ CloseRefused
  /\ status_' = "ERROR"
  /\ UNCHANGED <<old_config, total_buffer_count_, pending_buffer_count_,
                 poolVars, is_stream_active_>>

\* ConfigureLocked succeeds: buffers freed, counts reset.
ConfigureLocked(c) ==
  /\ \/ status_ = "CONFIG_ACTIVE"
     \/ status_ = "RECONFIG_ACTIVE" /\ c # old_config /\ ~CloseRefused
  /\ total_buffer_count_' = MAX(ClientMaxBuffers, c.max)
  /\ pending_buffer_count_' = 0
  /\ is_stream_active_' = FALSE
  /\ mem_alloc_buffers_' = Empty /\ mem_alloc_slots_' = <<>>
  /\ status_' = "CONFIGURED"
  /\ old_config' = c

\* c is what the HAL left in usage and max_buffers since BeginConfigure.
EndConfigure(c) ==
  /\ ~closed
  /\ config' = c
  /\ monitor' = "IDLE"
  /\ KeepBuffers(c) \/ ConfigureFails(c) \/ ConfigureLocked(c)
  /\ UNCHANGED <<counters, prepared_buffers_count_, place, waiting, closed>>

AbortConfigure ==
  /\ ~closed
  /\ status_ \in Configuring
  /\ config' = old_config
  /\ status_' = IF status_ = "RECONFIG_ACTIVE" THEN "CONFIGURED"
                                               ELSE "INTIALIZED"
  /\ UNCHANGED <<old_config, total_buffer_count_, pending_buffer_count_,
                 counters, poolVars, monitor, is_stream_active_,
                 prepared_buffers_count_, place, waiting, closed>>

\* Close, called once by DeleteStream, which then forgets the stream whatever
\* the result; hw_buffer_allocated_ and the slots keep their values.
Close ==
  /\ OwnerMayReconfigure
  /\ ~closed
  /\ closed' = TRUE
  /\ IF status_ \in {"RECONFIG_ACTIVE", "CONFIGURED"} /\ ~CloseRefused
     THEN /\ mem_alloc_buffers_' = Empty
          /\ status_' = IF status_ = "RECONFIG_ACTIVE" THEN "CONFIG_ACTIVE"
                                                       ELSE "INTIALIZED"
     ELSE UNCHANGED <<mem_alloc_buffers_, status_>>
  /\ UNCHANGED <<configVars, pending_buffer_count_, counters,
                 mem_alloc_slots_, monitor, is_stream_active_,
                 prepared_buffers_count_, place, waiting>>

TearDown ==
  /\ OwnerMayReconfigure
  /\ ~closed
  /\ status_ = "CONFIGURED"
  /\ pending_buffer_count_ = 0
  /\ mem_alloc_buffers_' = IF mem_alloc_slots_ # <<>> THEN Empty
                                                      ELSE mem_alloc_buffers_
  /\ mem_alloc_slots_' = <<>>
  /\ is_stream_active_' = FALSE
  /\ UNCHANGED <<status_, configVars, pending_buffer_count_, counters,
                 monitor, prepared_buffers_count_, place, waiting, closed>>

-----------------------------------------------------------------------------
(* Buffers.                                                                *)

Room == Len(mem_alloc_slots_) < total_buffer_count_

\* The allocation branch of GetBufferLocked; free says whether the new buffer
\* enters the pool free (preparation) or handed out.
Allocate(h, free) ==
  /\ Room
  /\ h \notin DOMAIN mem_alloc_buffers_ /\ place[h] = "stream"
  /\ mem_alloc_slots_' = Append(mem_alloc_slots_, h)
  /\ mem_alloc_buffers_' = [k \in DOMAIN mem_alloc_buffers_ \cup {h} |->
                              IF k = h THEN free ELSE mem_alloc_buffers_[k]]

Reuse(h) ==
  /\ h \in Free
  /\ \E i \in 1 .. Len(mem_alloc_slots_) : mem_alloc_slots_[i] = h
  /\ mem_alloc_buffers_' = [mem_alloc_buffers_ EXCEPT ![h] = FALSE]
  /\ UNCHANGED mem_alloc_slots_

\* Slip: a new buffer is entered in the pool as free.
TakeAsFree(h) == IF Free # {} THEN Reuse(h) ELSE Allocate(h, TRUE)

Take(h) == IF Free # {} THEN Reuse(h) ELSE Allocate(h, FALSE)

\* ChangeStateToActive/Idle on the monitor we hold, if we hold one.
Monitored(state) == IF monitor = "none" THEN monitor ELSE state

MonitorOnGet ==
  IF pending_buffer_count_ = 0 /\ status_ \notin Configuring
  THEN Monitored("ACTIVE") ELSE monitor

\* GetBufferLocked with a stream buffer to fill.
GetBufferLocked(h) ==
  /\ status_ \in Configuring \cup {"CONFIGURED", "PREPARE_ACTIVE"}
  /\ Take(h)
  /\ monitor' = MonitorOnGet
  /\ hal_buffer_cnt_' = Add(hal_buffer_cnt_, 1)
  /\ pending_buffer_count_' = pending_buffer_count_ + 1
  /\ place' = [place EXCEPT ![h] = "handler"]
  /\ UNCHANGED <<status_, configVars, client_buffer_cnt_, is_stream_active_,
                 prepared_buffers_count_, closed>>

GetBuffer(c, h) ==
  /\ c \notin waiting
  /\ status_ = "CONFIGURED"
  /\ pending_buffer_count_ # total_buffer_count_
  /\ GetBufferLocked(h)
  /\ UNCHANGED waiting

GetBufferWaits(c) ==
  /\ c \notin waiting
  /\ status_ = "CONFIGURED"
  /\ pending_buffer_count_ = total_buffer_count_
  /\ waiting' = waiting \cup {c}
  /\ UNCHANGED <<status_, configVars, pending_buffer_count_, counters,
                 poolVars, monitor, is_stream_active_,
                 prepared_buffers_count_, place, closed>>

\* Woken by a return (or spuriously): there is no second look at the state.
GetBufferWakes(c, h) ==
  /\ c \in waiting
  /\ waiting' = waiting \ {c}
  /\ GetBufferLocked(h)

\* The wait timed out, or GetBufferLocked failed after it.
GetBufferFails(c) ==
  /\ c \in waiting
  /\ waiting' = waiting \ {c}
  /\ UNCHANGED <<status_, configVars, pending_buffer_count_, counters,
                 poolVars, monitor, is_stream_active_,
                 prepared_buffers_count_, place, closed>>

\* process_capture_request accepted the request the buffer is part of.
Submit(h) ==
  /\ place[h] = "handler"
  /\ place' = [place EXCEPT ![h] = "hal"]
  /\ UNCHANGED <<status_, configVars, pending_buffer_count_, counters,
                 poolVars, monitor, is_stream_active_,
                 prepared_buffers_count_, waiting, closed>>

\* First critical section of ReturnBufferToClient, with the HAL's status.
ReturnBufferToClient(h, ok) ==
  /\ place[h] = "hal"
  /\ hal_buffer_cnt_' = Add(hal_buffer_cnt_, -1)
  /\ client_buffer_cnt_' = Add(client_buffer_cnt_, 1)
  /\ is_stream_active_' = TRUE
  /\ place' = [place EXCEPT ![h] = IF ok THEN "client" ELSE "failed"]
  /\ UNCHANGED <<status_, configVars, pending_buffer_count_, poolVars,
                 monitor, prepared_buffers_count_, waiting, closed>>

\* Slip: the test is made before the count is decremented.
MonitorOnReturnEarly ==
  IF pending_buffer_count_ = 0 /\ status_ \notin Configuring
  THEN Monitored("IDLE") ELSE monitor

MonitorOnReturn ==
  IF pending_buffer_count_ = 1 /\ status_ \notin Configuring
  THEN Monitored("IDLE") ELSE monitor

PendingAfterReturn == pending_buffer_count_ - 1

\* ReturnBuffer: by the client, by ReturnBufferToClient for a failed buffer,
\* or by HandleErrorRequest for a buffer the HAL never saw (in which case
\* client_buffer_cnt_ is decremented though hal_buffer_cnt_ counted it).
ReturnBuffer(h) ==
  /\ place[h] \in {"failed", "handler", "client"}
  /\ place[h] = "client" => ~closed
  /\ status_ # "INTIALIZED"
  /\ pending_buffer_count_ # 0
  /\ h \in DOMAIN mem_alloc_buffers_
  /\ mem_alloc_buffers_' = [mem_alloc_buffers_ EXCEPT ![h] = TRUE]
  /\ pending_buffer_count_' = PendingAfterReturn
  /\ client_buffer_cnt_' = Add(client_buffer_cnt_, -1)
  /\ monitor' = MonitorOnReturn
  /\ place' = [place EXCEPT ![h] = "stream"]
  /\ UNCHANGED <<status_, configVars, hal_buffer_cnt_, mem_alloc_slots_,
                 is_stream_active_, prepared_buffers_count_, waiting, closed>>

-----------------------------------------------------------------------------
(* Preparation, driven by the prepare handler's thread.                    *)

BeginPrepare ==
  /\ ~closed
  /\ status_ = "CONFIGURED"
  /\ ~is_stream_active_
  /\ pending_buffer_count_ = 0
  /\ prepared_buffers_count_' = 0
  /\ status_' = "PREPARE_ACTIVE"
  /\ UNCHANGED <<configVars, pending_buffer_count_, counters, poolVars,
                 monitor, is_stream_active_, place, waiting, closed>>

PrepareBuffer(h) ==
  /\ status_ = "PREPARE_ACTIVE"
  /\ Allocate(h, TRUE)
  /\ IF prepared_buffers_count_ + 1 < total_buffer_count_
     THEN /\ prepared_buffers_count_' = prepared_buffers_count_ + 1
          /\ UNCHANGED status_
     ELSE /\ prepared_buffers_count_' = 0
          /\ status_' = "CONFIGURED"
  /\ UNCHANGED <<configVars, pending_buffer_count_, counters, monitor,
                 is_stream_active_, place, waiting, closed>>

EndPrepare ==
  /\ status_ = "PREPARE_ACTIVE"
  /\ prepared_buffers_count_' = 0
  /\ status_' = "CONFIGURED"
  /\ UNCHANGED <<configVars, pending_buffer_count_, counters, poolVars,
                 monitor, is_stream_active_, place, waiting, closed>>

Next ==
  \/ BeginConfigure \/ (\E c \in Config : EndConfigure(c)) \/ AbortConfigure
  \/ Close \/ TearDown
  \/ \E c \in Callers : GetBufferWaits(c) \/ GetBufferFails(c)
  \/ \E c \in Callers, h \in Handles : GetBuffer(c, h) \/ GetBufferWakes(c, h)
  \/ \E h \in Handles, ok \in BOOLEAN : ReturnBufferToClient(h, ok)
  \/ \E h \in Handles : Submit(h) \/ ReturnBuffer(h) \/ PrepareBuffer(h)
  \/ BeginPrepare \/ EndPrepare

Spec == Init /\ [][Next]_vars

-----------------------------------------------------------------------------
Out == {h \in Handles : place[h] # "stream"}

\* The variables keep their C++ types.
TypeOK ==
  /\ status_ \in Status
  /\ config \in Config \cup {NoConfig} /\ old_config \in Config \cup {NoConfig}
  /\ total_buffer_count_ \in Nat /\ pending_buffer_count_ \in Nat
  /\ hal_buffer_cnt_ \in 0 .. CounterModulus - 1
  /\ client_buffer_cnt_ \in 0 .. CounterModulus - 1
  /\ DOMAIN mem_alloc_buffers_ \subseteq Handles
  /\ mem_alloc_buffers_ \in [DOMAIN mem_alloc_buffers_ -> BOOLEAN]
  /\ mem_alloc_slots_ \in Seq(Handles)
  /\ monitor \in {"none", "IDLE", "ACTIVE"}
  /\ is_stream_active_ \in BOOLEAN
  /\ prepared_buffers_count_ \in Nat
  /\ place \in [Handles -> {"stream", "handler", "hal", "failed", "client"}]
  /\ waiting \in SUBSET Callers
  /\ closed \in BOOLEAN

\* A buffer that a request thread, the HAL or the client holds is allocated and
\* not free, and every other allocated buffer is free: no configuration step
\* frees a buffer in use, GetBuffer never hands one out twice, none leaks.
BuffersAccountedFor ==
  /\ Out \subseteq DOMAIN mem_alloc_buffers_
  /\ \A h \in DOMAIN mem_alloc_buffers_ : mem_alloc_buffers_[h] <=> h \notin Out

\* pending_buffer_count_, which decides every refusal (CloseLocked, TearDown,
\* BeginPrepare) and every wait, is the number of buffers really out, and the
\* stream never has more of them than was agreed with the HAL.
PendingIsOutstanding ==
  /\ pending_buffer_count_ = Cardinality(Out)
  /\ pending_buffer_count_ <= total_buffer_count_

\* While the stream is in use, the slot array and the pool hold the same
\* handles, each once, and never more than mem_alloc_slots_ has room for: the
\* search for idx succeeds and the write at hw_buffer_allocated_ is in bounds.
SlotsMatchPool ==
  status_ \in {"CONFIGURED", "RECONFIG_ACTIVE", "PREPARE_ACTIVE"} =>
    /\ DOMAIN mem_alloc_buffers_ = {mem_alloc_slots_[i] : i \in 1 .. Len(mem_alloc_slots_)}
    /\ Cardinality(DOMAIN mem_alloc_buffers_) = Len(mem_alloc_slots_)
    /\ Len(mem_alloc_slots_) <= total_buffer_count_

\* The three together: what GetBuffer, ReturnBuffer, TearDown and the steps of
\* a configuration keep of the stream's buffers.
PoolIsConsistent == BuffersAccountedFor /\ PendingIsOutstanding /\ SlotsMatchPool

\* A configured stream that holds a monitor has asked it to be ACTIVE exactly
\* when buffers are out: the device client's idea of idle is right.
MonitorTracksPending ==
  status_ = "CONFIGURED" /\ monitor # "none"
    => (monitor = "ACTIVE" <=> pending_buffer_count_ > 0)
=============================================================================
