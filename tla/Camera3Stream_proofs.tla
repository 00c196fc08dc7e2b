------------------------- MODULE Camera3Stream_proofs -------------------------
(***************************************************************************)
(* Proofs about Camera3Stream, for any number of buffers and of request    *)
(* threads, and whether or not the owner waits for an idle stream before   *)
(* it reconfigures (Quiesced).                                             *)
(***************************************************************************)
EXTENDS Camera3Stream, FiniteSetTheorems, TLAPS

\* A stream that was never configured has nothing out and nobody waiting.  A
\* closed one can still be asked for a buffer by a thread that was waiting.
Untouched ==
  /\ status_ \in {"INTIALIZED", "CONFIG_ACTIVE"} /\ ~closed
       => /\ mem_alloc_buffers_ = Empty /\ mem_alloc_slots_ = <<>>
          /\ waiting = {}
  /\ status_ = "INTIALIZED" => Out = {}

\* There is a slot for every buffer in the pool, in every status.
SlotsSuffice ==
  /\ Cardinality(DOMAIN mem_alloc_buffers_) <= Len(mem_alloc_slots_)
  /\ Len(mem_alloc_slots_) <= total_buffer_count_

IInv ==
  /\ TypeOK
  /\ BuffersAccountedFor
  /\ PendingIsOutstanding
  /\ SlotsMatchPool
  /\ SlotsSuffice
  /\ Untouched

Places == {"stream", "handler", "hal", "failed", "client"}

\* The uint32 counters stay within their width.
LEMMA AddType ==
  \A c \in 0 .. CounterModulus - 1, n \in Int : Add(c, n) \in 0 .. CounterModulus - 1
BY StreamAssumption DEF Add

\* Initially the stream is empty.
LEMMA InitTypeOK == Init => TypeOK
<1> SUFFICES ASSUME Init PROVE TypeOK
  OBVIOUS
<1>1. ClientConfig \in Config
  BY StreamAssumption DEF ClientConfig, Config
<1>2. DOMAIN mem_alloc_buffers_ = {}
  BY DEF Init, Empty
<1>3. mem_alloc_buffers_ \in [DOMAIN mem_alloc_buffers_ -> BOOLEAN]
  BY <1>2 DEF Init, Empty
<1>4. <<>> \in Seq(Handles)
  OBVIOUS
<1>5. 0 \in 0 .. CounterModulus - 1
  BY StreamAssumption
<1>6. place \in [Handles -> Places]
  BY DEF Init, Places
<1> QED
  BY <1>1, <1>2, <1>3, <1>4, <1>5, <1>6 DEF Init, TypeOK, Status, Places

\* What Empty is.
LEMMA EmptyPool == DOMAIN Empty = {} /\ Empty \in [DOMAIN Empty -> BOOLEAN]
<1>1. DOMAIN Empty = {}
  BY DEF Empty
<1> QED
  BY <1>1 DEF Empty

\* Allocation adds one handle to the slots and to the pool.
LEMMA AllocateType ==
  ASSUME TypeOK, NEW h \in Handles, NEW free \in BOOLEAN, Allocate(h, free)
  PROVE  /\ mem_alloc_slots_' \in Seq(Handles)
         /\ DOMAIN mem_alloc_buffers_' = DOMAIN mem_alloc_buffers_ \cup {h}
         /\ mem_alloc_buffers_' \in [DOMAIN mem_alloc_buffers_' -> BOOLEAN]
BY DEF Allocate, TypeOK

\* So does Take, or it marks a free handle as used.
LEMMA TakeType ==
  ASSUME TypeOK, NEW h \in Handles, Take(h)
  PROVE  /\ mem_alloc_slots_' \in Seq(Handles)
         /\ DOMAIN mem_alloc_buffers_' = DOMAIN mem_alloc_buffers_ \cup {h}
         /\ mem_alloc_buffers_' \in [DOMAIN mem_alloc_buffers_' -> BOOLEAN]
<1>1. CASE Free # {}
  BY <1>1 DEF Take, Reuse, Free, TypeOK
<1>2. CASE Free = {}
  BY <1>2, AllocateType DEF Take
<1> QED
  BY <1>1, <1>2

\* GetBufferLocked preserves the types of what it touches.
LEMMA GetBufferLockedType ==
  ASSUME TypeOK, NEW h \in Handles, GetBufferLocked(h), waiting' \in SUBSET Callers
  PROVE  TypeOK'
<1>1. /\ mem_alloc_slots_' \in Seq(Handles)
      /\ DOMAIN mem_alloc_buffers_' \subseteq Handles
      /\ mem_alloc_buffers_' \in [DOMAIN mem_alloc_buffers_' -> BOOLEAN]
  BY TakeType DEF GetBufferLocked, TypeOK
<1>2. monitor' \in {"none", "IDLE", "ACTIVE"}
  BY DEF GetBufferLocked, MonitorOnGet, Monitored, TypeOK
<1>3. hal_buffer_cnt_' \in 0 .. CounterModulus - 1
  BY AddType DEF GetBufferLocked, TypeOK
<1>4. place' \in [Handles -> Places]
  BY DEF GetBufferLocked, TypeOK, Places
<1> QED
  BY <1>1, <1>2, <1>3, <1>4 DEF GetBufferLocked, TypeOK, configVars, Places

\* Every step preserves the types.
LEMMA TypeOKStep == TypeOK /\ [Next]_vars => TypeOK'
<1> SUFFICES ASSUME TypeOK, [Next]_vars PROVE TypeOK'
  OBVIOUS
<1> USE DEF configVars, poolVars, counters
<1>1. CASE BeginConfigure
  <2>1. ClientConfig \in Config
    BY StreamAssumption DEF ClientConfig, Config
  <2> QED
    BY <1>1, <2>1 DEF BeginConfigure, TypeOK, Status
<1>2. ASSUME NEW c \in Config, EndConfigure(c) PROVE TypeOK'
  <2>1. MAX(ClientMaxBuffers, c.max) \in Nat
    BY StreamAssumption DEF Config, MAX
  <2>2. <<>> \in Seq(Handles)
    OBVIOUS
  <2>3. CASE KeepBuffers(c)
    BY <1>2, <2>3 DEF EndConfigure, KeepBuffers, TypeOK, Status
  <2>4. CASE ConfigureFails(c)
    BY <1>2, <2>4 DEF EndConfigure, ConfigureFails, TypeOK, Status
  <2>5. CASE ConfigureLocked(c)
    BY <1>2, <2>1, <2>2, <2>5, EmptyPool DEF EndConfigure, ConfigureLocked, TypeOK, Status
  <2> QED
    BY <1>2, <2>3, <2>4, <2>5 DEF EndConfigure
<1>3. CASE AbortConfigure
  BY <1>3 DEF AbortConfigure, TypeOK, Status
<1>4. CASE Close
  BY <1>4, EmptyPool DEF Close, TypeOK, Status
<1>5. CASE TearDown
  <2>1. <<>> \in Seq(Handles)
    OBVIOUS
  <2> QED
    BY <1>5, <2>1, EmptyPool DEF TearDown, TypeOK
<1>6. ASSUME NEW c \in Callers, GetBufferWaits(c) \/ GetBufferFails(c) PROVE TypeOK'
  BY <1>6 DEF GetBufferWaits, GetBufferFails, TypeOK
<1>7. ASSUME NEW c \in Callers, NEW h \in Handles, GetBuffer(c, h) \/ GetBufferWakes(c, h)
      PROVE TypeOK'
  <2>1. GetBufferLocked(h) /\ waiting' \in SUBSET Callers
    BY <1>7 DEF GetBuffer, GetBufferWakes, TypeOK
  <2> QED
    BY <2>1, GetBufferLockedType
<1>8. ASSUME NEW h \in Handles, NEW ok \in BOOLEAN, ReturnBufferToClient(h, ok)
      PROVE TypeOK'
  <2>1. /\ hal_buffer_cnt_' \in 0 .. CounterModulus - 1
        /\ client_buffer_cnt_' \in 0 .. CounterModulus - 1
    BY <1>8, AddType DEF ReturnBufferToClient, TypeOK
  <2>2. place' \in [Handles -> Places]
    BY <1>8 DEF ReturnBufferToClient, TypeOK, Places
  <2> QED
    BY <1>8, <2>1, <2>2 DEF ReturnBufferToClient, TypeOK, Places
<1>9. ASSUME NEW h \in Handles, Submit(h) PROVE TypeOK'
  BY <1>9 DEF Submit, TypeOK
<1>10. ASSUME NEW h \in Handles, ReturnBuffer(h) PROVE TypeOK'
  <2>1. client_buffer_cnt_' \in 0 .. CounterModulus - 1
    BY <1>10, AddType DEF ReturnBuffer, TypeOK
  <2>2. pending_buffer_count_' \in Nat
    BY <1>10 DEF ReturnBuffer, PendingAfterReturn, TypeOK
  <2>3. monitor' \in {"none", "IDLE", "ACTIVE"}
    BY <1>10 DEF ReturnBuffer, MonitorOnReturn, Monitored, TypeOK
  <2>4. place' \in [Handles -> Places]
    BY <1>10 DEF ReturnBuffer, TypeOK, Places
  <2>5. /\ DOMAIN mem_alloc_buffers_' = DOMAIN mem_alloc_buffers_
        /\ mem_alloc_buffers_' \in [DOMAIN mem_alloc_buffers_' -> BOOLEAN]
    BY <1>10 DEF ReturnBuffer, TypeOK
  <2> QED
    BY <1>10, <2>1, <2>2, <2>3, <2>4, <2>5 DEF ReturnBuffer, TypeOK, Places
<1>11. ASSUME NEW h \in Handles, PrepareBuffer(h) PROVE TypeOK'
  <2>1. /\ mem_alloc_slots_' \in Seq(Handles)
        /\ DOMAIN mem_alloc_buffers_' \subseteq Handles
        /\ mem_alloc_buffers_' \in [DOMAIN mem_alloc_buffers_' -> BOOLEAN]
    BY <1>11, AllocateType DEF PrepareBuffer, TypeOK
  <2> QED
    BY <1>11, <2>1 DEF PrepareBuffer, TypeOK, Status
<1>12. CASE BeginPrepare \/ EndPrepare
  BY <1>12 DEF BeginPrepare, EndPrepare, TypeOK, Status
<1>13. CASE UNCHANGED vars
  BY <1>13 DEF vars, TypeOK
<1> QED
  BY <1>1, <1>2, <1>3, <1>4, <1>5, <1>6, <1>7, <1>8, <1>9, <1>10, <1>11, <1>12,
     <1>13 DEF Next

\* Type correctness of the stream.
THEOREM TypeCorrect == Spec => []TypeOK
BY InitTypeOK, TypeOKStep, PTL DEF Spec

-----------------------------------------------------------------------------
Slots == {mem_alloc_slots_[i] : i \in 1 .. Len(mem_alloc_slots_)}

\* Everything counted is finite.
LEMMA CountsFinite ==
  ASSUME TypeOK
  PROVE  /\ IsFiniteSet(Out) /\ Cardinality(Out) \in Nat
         /\ IsFiniteSet(DOMAIN mem_alloc_buffers_)
         /\ Cardinality(DOMAIN mem_alloc_buffers_) \in Nat
<1>1. Out \subseteq Handles /\ DOMAIN mem_alloc_buffers_ \subseteq Handles
  BY DEF Out, TypeOK
<1> QED
  BY <1>1, FS_Subset, FS_CardinalityType, StreamAssumption

\* A pending count of zero means that nothing is out.
LEMMA NothingOut ==
  ASSUME TypeOK, PendingIsOutstanding, pending_buffer_count_ = 0
  PROVE  Out = {}
BY CountsFinite, FS_EmptySet DEF PendingIsOutstanding

\* Facts about the empty pool.
LEMMA EmptyFacts == DOMAIN Empty = {} /\ Cardinality({}) = 0
BY EmptyPool, FS_EmptySet

\* The allocation branch keeps the pool, the slots and their sizes in step.
LEMMA AllocateKeeps ==
  ASSUME TypeOK, TypeOK', NEW h \in Handles, NEW free \in BOOLEAN, Allocate(h, free),
         SlotsSuffice, UNCHANGED total_buffer_count_
  PROVE  /\ SlotsSuffice'
         /\ Slots' = Slots \cup {h}
         /\ DOMAIN mem_alloc_buffers_' = DOMAIN mem_alloc_buffers_ \cup {h}
         /\ Cardinality(DOMAIN mem_alloc_buffers_') =
              Cardinality(DOMAIN mem_alloc_buffers_) + 1
         /\ Len(mem_alloc_slots_') = Len(mem_alloc_slots_) + 1
         /\ h \notin Out
         /\ mem_alloc_buffers_'[h] = free
         /\ \A k \in DOMAIN mem_alloc_buffers_ :
              mem_alloc_buffers_'[k] = mem_alloc_buffers_[k]
<1>1. /\ DOMAIN mem_alloc_buffers_' = DOMAIN mem_alloc_buffers_ \cup {h}
      /\ h \notin DOMAIN mem_alloc_buffers_
      /\ mem_alloc_buffers_'[h] = free
      /\ \A k \in DOMAIN mem_alloc_buffers_ :
           mem_alloc_buffers_'[k] = mem_alloc_buffers_[k]
  BY DEF Allocate
<1>2. Cardinality(DOMAIN mem_alloc_buffers_') =
        Cardinality(DOMAIN mem_alloc_buffers_) + 1
  BY <1>1, CountsFinite, FS_AddElement
<1>3. /\ Len(mem_alloc_slots_') = Len(mem_alloc_slots_) + 1
      /\ Len(mem_alloc_slots_) \in Nat
      /\ mem_alloc_slots_'[Len(mem_alloc_slots_) + 1] = h
      /\ \A i \in 1 .. Len(mem_alloc_slots_) : mem_alloc_slots_'[i] = mem_alloc_slots_[i]
  BY DEF Allocate, TypeOK
<1>4. Slots' = Slots \cup {h}
  BY <1>3 DEF Slots
<1>5. SlotsSuffice'
  BY <1>2, <1>3, CountsFinite DEF SlotsSuffice, Allocate, Room, TypeOK
<1>6. h \notin Out
  BY DEF Allocate, Out
<1> QED
  BY <1>1, <1>2, <1>3, <1>4, <1>5, <1>6

\* A buffer more out: the pool and the count move together.
LEMMA GetBufferLockedKeeps ==
  ASSUME IInv, TypeOK', NEW h \in Handles, GetBufferLocked(h)
  PROVE  BuffersAccountedFor' /\ PendingIsOutstanding' /\ SlotsMatchPool' /\ SlotsSuffice'
<1> USE DEF IInv
<1>1. Take(h) /\ UNCHANGED <<status_, total_buffer_count_>>
  BY DEF GetBufferLocked, configVars
<1>2. /\ SlotsSuffice'
      /\ SlotsMatchPool'
      /\ DOMAIN mem_alloc_buffers_' = DOMAIN mem_alloc_buffers_ \cup {h}
      /\ h \notin Out
      /\ mem_alloc_buffers_'[h] = FALSE
      /\ \A k \in DOMAIN mem_alloc_buffers_ \ {h} :
           mem_alloc_buffers_'[k] = mem_alloc_buffers_[k]
  <2>1. CASE Free # {}
    <3>1. /\ h \in DOMAIN mem_alloc_buffers_ /\ mem_alloc_buffers_[h]
          /\ mem_alloc_buffers_' = [mem_alloc_buffers_ EXCEPT ![h] = FALSE]
          /\ mem_alloc_slots_' = mem_alloc_slots_
      BY <1>1, <2>1 DEF Take, Reuse, Free
    <3>2. DOMAIN mem_alloc_buffers_' = DOMAIN mem_alloc_buffers_
      BY <3>1
    <3>3. h \notin Out
      BY <3>1 DEF BuffersAccountedFor
    <3> QED
      BY <1>1, <3>1, <3>2, <3>3 DEF SlotsSuffice, SlotsMatchPool
  <2>2. CASE Free = {}
    <3>1. Allocate(h, FALSE)
      BY <1>1, <2>2 DEF Take
    <3>2. SlotsMatchPool'
      BY <1>1, <3>1, AllocateKeeps DEF SlotsMatchPool, SlotsSuffice, Slots
    <3> QED
      BY <1>1, <3>1, <3>2, AllocateKeeps
  <2> QED
    BY <2>1, <2>2
<1>3. Out' = Out \cup {h}
  BY DEF GetBufferLocked, Out, TypeOK
<1>4. BuffersAccountedFor'
  BY <1>2, <1>3 DEF BuffersAccountedFor
<1>5. Cardinality(Out') = Cardinality(Out) + 1
  BY <1>2, <1>3, CountsFinite, FS_AddElement
<1>6. Cardinality(Out') <= Cardinality(DOMAIN mem_alloc_buffers_')
  <2>1. Out' \subseteq DOMAIN mem_alloc_buffers_'
    BY <1>4 DEF BuffersAccountedFor
  <2>2. DOMAIN mem_alloc_buffers_' \subseteq Handles
    BY DEF TypeOK
  <2>3. IsFiniteSet(DOMAIN mem_alloc_buffers_')
    BY <2>2, FS_Subset, StreamAssumption
  <2> QED
    BY <2>1, <2>3, FS_Subset
<1>7. PendingIsOutstanding'
  <2>1. pending_buffer_count_' = Cardinality(Out')
    BY <1>5 DEF GetBufferLocked, PendingIsOutstanding
  <2>2. Cardinality(DOMAIN mem_alloc_buffers_') \in Nat
    <3>1. DOMAIN mem_alloc_buffers_' \subseteq Handles
      BY DEF TypeOK
    <3> QED
      BY <3>1, FS_Subset, FS_CardinalityType, StreamAssumption
  <2>3. Len(mem_alloc_slots_') \in Nat /\ total_buffer_count_' \in Nat
    BY DEF TypeOK
  <2>4. pending_buffer_count_' \in Nat
    BY DEF TypeOK
  <2> QED
    BY <1>2, <1>6, <2>1, <2>2, <2>3, <2>4 DEF SlotsSuffice, PendingIsOutstanding
<1> QED
  BY <1>2, <1>4, <1>7

\* Steps that leave the pool, the places and the counts alone.
LEMMA PoolUntouched ==
  ASSUME IInv, Out' = Out,
         UNCHANGED <<status_, pending_buffer_count_, total_buffer_count_,
                     mem_alloc_buffers_, mem_alloc_slots_>>
  PROVE  BuffersAccountedFor' /\ PendingIsOutstanding' /\ SlotsMatchPool' /\ SlotsSuffice'
BY DEF IInv, BuffersAccountedFor, PendingIsOutstanding, SlotsMatchPool, SlotsSuffice

\* The inductive invariant holds initially.
LEMMA InitIInv == Init => IInv
<1> SUFFICES ASSUME Init PROVE IInv
  OBVIOUS
<1>1. Out = {}
  BY DEF Init, Out
<1>2. DOMAIN mem_alloc_buffers_ = {} /\ Len(mem_alloc_slots_) = 0
  BY EmptyFacts DEF Init
<1> QED
  BY <1>1, <1>2, InitTypeOK, EmptyFacts
     DEF Init, IInv, BuffersAccountedFor, PendingIsOutstanding, SlotsMatchPool,
         SlotsSuffice, Untouched

\* Every step preserves the inductive invariant.
LEMMA IInvStep == IInv /\ [Next]_vars => IInv'
<1> SUFFICES ASSUME IInv, [Next]_vars PROVE IInv'
  OBVIOUS
<1>0. TypeOK /\ TypeOK'
  BY TypeOKStep DEF IInv
<1> DEFINE Pool == BuffersAccountedFor /\ PendingIsOutstanding /\ SlotsMatchPool
                     /\ SlotsSuffice
<1> SUFFICES Pool' /\ Untouched'
  BY <1>0 DEF IInv
<1> USE <1>0 DEF configVars, poolVars, counters
<1>1. CASE BeginConfigure
  <2>1. Out' = Out
    BY <1>1 DEF BeginConfigure, Out
  <2> QED
    BY <1>1, <2>1 DEF BeginConfigure, IInv, BuffersAccountedFor, PendingIsOutstanding,
         SlotsMatchPool, SlotsSuffice, Untouched
<1>2. ASSUME NEW c \in Config, EndConfigure(c) PROVE Pool' /\ Untouched'
  <2>1. Out' = Out /\ ~closed /\ ~closed'
    BY <1>2 DEF EndConfigure, Out
  <2>2. CASE KeepBuffers(c)
    BY <1>2, <2>1, <2>2 DEF EndConfigure, KeepBuffers, IInv, BuffersAccountedFor,
         PendingIsOutstanding, SlotsMatchPool, SlotsSuffice, Untouched
  <2>3. CASE ConfigureFails(c)
    BY <1>2, <2>1, <2>3 DEF EndConfigure, ConfigureFails, IInv, BuffersAccountedFor,
         PendingIsOutstanding, SlotsMatchPool, SlotsSuffice, Untouched
  <2>4. CASE ConfigureLocked(c)
    <3>1. Out = {}
      <4>1. CASE status_ = "CONFIG_ACTIVE"
        BY <2>1, <4>1, EmptyFacts DEF IInv, Untouched, BuffersAccountedFor
      <4>2. CASE status_ # "CONFIG_ACTIVE"
        BY <2>4, <4>2, NothingOut DEF ConfigureLocked, CloseRefused, IInv, TypeOK
      <4> QED
        BY <4>1, <4>2
    <3>2. /\ mem_alloc_buffers_' = Empty /\ mem_alloc_slots_' = <<>>
          /\ pending_buffer_count_' = 0 /\ status_' = "CONFIGURED"
      BY <2>4 DEF ConfigureLocked
    <3>3. Len(mem_alloc_slots_') = 0 /\ total_buffer_count_' \in Nat
      BY <3>2 DEF TypeOK
    <3> QED
      BY <2>1, <3>1, <3>2, <3>3, EmptyFacts DEF BuffersAccountedFor,
           PendingIsOutstanding, SlotsMatchPool, SlotsSuffice, Untouched
  <2> QED
    BY <1>2, <2>2, <2>3, <2>4 DEF EndConfigure
<1>3. CASE AbortConfigure
  <2>1. Out' = Out
    BY <1>3 DEF AbortConfigure, Out
  <2>2. CASE status_ = "CONFIG_ACTIVE"
    <3>1. Out = {}
      BY <1>3, <2>2, EmptyFacts DEF AbortConfigure, IInv, Untouched, BuffersAccountedFor
    <3> QED
      BY <1>3, <2>1, <2>2, <3>1 DEF AbortConfigure, IInv, BuffersAccountedFor,
           PendingIsOutstanding, SlotsMatchPool, SlotsSuffice, Untouched
  <2>3. CASE status_ = "RECONFIG_ACTIVE"
    BY <1>3, <2>1, <2>3 DEF AbortConfigure, IInv, BuffersAccountedFor,
         PendingIsOutstanding, SlotsMatchPool, SlotsSuffice, Untouched
  <2> QED
    BY <1>3, <2>2, <2>3 DEF AbortConfigure, Configuring
<1>4. CASE Close
  <2>1. Out' = Out /\ closed'
    BY <1>4 DEF Close, Out
  <2>2. CASE status_ \in {"RECONFIG_ACTIVE", "CONFIGURED"} /\ ~CloseRefused
    <3>1. Out = {}
      BY <2>2, NothingOut DEF CloseRefused, IInv, TypeOK
    <3>2. mem_alloc_buffers_' = Empty /\ status_' \in {"CONFIG_ACTIVE", "INTIALIZED"}
      BY <1>4, <2>2 DEF Close
    <3>3. Len(mem_alloc_slots_) \in Nat
      BY DEF TypeOK
    <3> QED
      BY <1>4, <2>1, <3>1, <3>2, <3>3, EmptyFacts DEF Close, IInv,
           BuffersAccountedFor, PendingIsOutstanding, SlotsMatchPool, SlotsSuffice,
           Untouched
  <2>3. CASE ~(status_ \in {"RECONFIG_ACTIVE", "CONFIGURED"} /\ ~CloseRefused)
    <3>1. UNCHANGED <<status_, mem_alloc_buffers_, pending_buffer_count_,
                      total_buffer_count_, mem_alloc_slots_>>
      BY <1>4, <2>3 DEF Close
    <3> QED
      BY <2>1, <3>1, PoolUntouched DEF IInv, Untouched
  <2> QED
    BY <2>2, <2>3
<1>5. CASE TearDown
  <2>1. Out' = Out /\ Out = {}
    BY <1>5, NothingOut DEF TearDown, Out, IInv
  <2>2. DOMAIN mem_alloc_buffers_' = {}
    <3>1. CASE mem_alloc_slots_ # <<>>
      BY <1>5, <3>1, EmptyFacts DEF TearDown
    <3>2. CASE mem_alloc_slots_ = <<>>
      <4>1. Len(mem_alloc_slots_) = 0
        BY <3>2
      <4>2. mem_alloc_buffers_' = mem_alloc_buffers_ /\ status_ = "CONFIGURED"
        BY <1>5, <3>2 DEF TearDown
      <4>3. DOMAIN mem_alloc_buffers_ = {mem_alloc_slots_[i] : i \in 1 .. 0}
        BY <4>1, <4>2 DEF IInv, SlotsMatchPool
      <4> QED
        BY <4>2, <4>3
    <3> QED
      BY <3>1, <3>2
  <2>3. Len(mem_alloc_slots_') = 0 /\ total_buffer_count_' \in Nat
    BY <1>5 DEF TearDown, TypeOK
  <2>4. {mem_alloc_slots_'[i] : i \in 1 .. Len(mem_alloc_slots_')} = {}
    BY <2>3
  <2>5. SlotsMatchPool' /\ SlotsSuffice'
    BY <2>2, <2>3, <2>4, FS_EmptySet DEF SlotsMatchPool, SlotsSuffice
  <2>6. BuffersAccountedFor'
    BY <2>1, <2>2 DEF BuffersAccountedFor
  <2>7. PendingIsOutstanding'
    BY <1>5, <2>1 DEF TearDown, IInv, PendingIsOutstanding
  <2>8. Untouched'
    BY <1>5 DEF TearDown, IInv, Untouched
  <2> QED
    BY <2>5, <2>6, <2>7, <2>8
<1>6. ASSUME NEW c \in Callers, GetBufferWaits(c) \/ GetBufferFails(c)
      PROVE Pool' /\ Untouched'
  <2>1. Out' = Out
    BY <1>6 DEF GetBufferWaits, GetBufferFails, Out
  <2>2. Pool'
    BY <1>6, <2>1, PoolUntouched DEF GetBufferWaits, GetBufferFails
  <2>3. Untouched'
    BY <1>6, <2>1 DEF GetBufferWaits, GetBufferFails, IInv, Untouched
  <2> QED
    BY <2>2, <2>3
<1>7. ASSUME NEW c \in Callers, NEW h \in Handles, GetBuffer(c, h) \/ GetBufferWakes(c, h)
      PROVE Pool' /\ Untouched'
  <2>1. GetBufferLocked(h)
    BY <1>7 DEF GetBuffer, GetBufferWakes
  <2>2. Pool'
    BY <2>1, GetBufferLockedKeeps
  <2>3. Untouched'
    BY <1>7, <2>1 DEF GetBuffer, GetBufferWakes, GetBufferLocked, Configuring, IInv,
         Untouched
  <2> QED
    BY <2>2, <2>3
<1>8. ASSUME NEW h \in Handles, NEW ok \in BOOLEAN, ReturnBufferToClient(h, ok) \/ Submit(h)
      PROVE Pool' /\ Untouched'
  <2>1. Out' = Out
    BY <1>8 DEF ReturnBufferToClient, Submit, Out, TypeOK
  <2>2. Pool'
    BY <1>8, <2>1, PoolUntouched DEF ReturnBufferToClient, Submit
  <2>3. Untouched'
    BY <1>8, <2>1 DEF ReturnBufferToClient, Submit, IInv, Untouched
  <2> QED
    BY <2>2, <2>3
<1>9. ASSUME NEW h \in Handles, ReturnBuffer(h) PROVE Pool' /\ Untouched'
  <2>1. Out' = Out \ {h} /\ h \in Out
    BY <1>9 DEF ReturnBuffer, Out, TypeOK
  <2>2. Cardinality(Out') = Cardinality(Out) - 1
    BY <2>1, CountsFinite, FS_RemoveElement
  <2>3. /\ h \in DOMAIN mem_alloc_buffers_
        /\ DOMAIN mem_alloc_buffers_' = DOMAIN mem_alloc_buffers_
        /\ mem_alloc_buffers_'[h] = TRUE
        /\ \A k \in DOMAIN mem_alloc_buffers_ \ {h} :
             mem_alloc_buffers_'[k] = mem_alloc_buffers_[k]
    BY <1>9 DEF ReturnBuffer
  <2>4. BuffersAccountedFor'
    BY <2>1, <2>3 DEF IInv, BuffersAccountedFor
  <2>5. PendingIsOutstanding'
    BY <1>9, <2>2 DEF ReturnBuffer, PendingAfterReturn, IInv, PendingIsOutstanding, TypeOK
  <2>6. SlotsMatchPool' /\ SlotsSuffice'
    BY <1>9, <2>3 DEF ReturnBuffer, IInv, SlotsMatchPool, SlotsSuffice
  <2>7. Untouched'
    BY <1>9, <2>3, EmptyFacts DEF ReturnBuffer, IInv, Untouched
  <2> QED
    BY <2>4, <2>5, <2>6, <2>7
<1>10. ASSUME NEW h \in Handles, PrepareBuffer(h) PROVE Pool' /\ Untouched'
  <2>1. /\ Allocate(h, TRUE) /\ Out' = Out
        /\ UNCHANGED <<total_buffer_count_, pending_buffer_count_>>
        /\ status_ = "PREPARE_ACTIVE" /\ status_' \in {"PREPARE_ACTIVE", "CONFIGURED"}
    BY <1>10 DEF PrepareBuffer, Out
  <2>2. SlotsMatchPool' /\ SlotsSuffice'
    BY <2>1, AllocateKeeps DEF IInv, SlotsMatchPool, SlotsSuffice, Slots
  <2>3. BuffersAccountedFor'
    BY <2>1, AllocateKeeps DEF IInv, BuffersAccountedFor
  <2>4. PendingIsOutstanding' /\ Untouched'
    BY <2>1 DEF IInv, PendingIsOutstanding, Untouched
  <2> QED
    BY <2>2, <2>3, <2>4
<1>11. CASE BeginPrepare \/ EndPrepare
  <2>1. Out' = Out
    BY <1>11 DEF BeginPrepare, EndPrepare, Out
  <2> QED
    BY <1>11, <2>1 DEF BeginPrepare, EndPrepare, IInv, BuffersAccountedFor,
         PendingIsOutstanding, SlotsMatchPool, SlotsSuffice, Untouched
<1>12. CASE UNCHANGED vars
  <2>1. Out' = Out
    BY <1>12 DEF vars, Out
  <2> QED
    BY <1>12, <2>1, PoolUntouched DEF vars, IInv, Untouched
<1> QED
  BY <1>1, <1>2, <1>3, <1>4, <1>5, <1>6, <1>7, <1>8, <1>9, <1>10, <1>11, <1>12
     DEF Next

\* No buffer in use is ever freed or handed out twice, the pending count is
\* exact and within the agreed total, and the slot array never overflows:
\* whatever the owner and the request threads do, in whatever order.
THEOREM PoolCorrect == Spec => []PoolIsConsistent
<1>1. IInv => PoolIsConsistent
  BY DEF IInv, PoolIsConsistent
<1> QED
  BY <1>1, InitIInv, IInvStep, PTL DEF Spec

-----------------------------------------------------------------------------
(* The monitor, when the owner reconfigures only an idle stream.           *)

\* A stream that is being configured has nothing out, nobody waiting and no
\* monitor; one that is being prepared is watched like a configured one, since
\* a caller that fell asleep before BeginPrepare may wake up after it.
MonitorInv ==
  /\ pending_buffer_count_ \in Nat
  /\ status_ \in Configuring =>
       pending_buffer_count_ = 0 /\ waiting = {} /\ monitor = "none"
  /\ status_ \in {"CONFIGURED", "PREPARE_ACTIVE"} /\ monitor # "none"
       => (monitor = "ACTIVE" <=> pending_buffer_count_ > 0)

\* A buffer more out: the monitor becomes active with the first one.
LEMMA GetBufferMonitored ==
  ASSUME MonitorInv, NEW h \in Handles, GetBufferLocked(h),
         status_ \notin Configuring
  PROVE  MonitorInv'
<1>1. /\ status_ \in {"CONFIGURED", "PREPARE_ACTIVE"} /\ status_' = status_
      /\ pending_buffer_count_' = pending_buffer_count_ + 1
      /\ pending_buffer_count_ \in Nat
  BY DEF GetBufferLocked, MonitorInv
<1>2. status_' \notin Configuring
  BY <1>1
<1>3. monitor' = IF pending_buffer_count_ = 0 /\ monitor # "none" THEN "ACTIVE" ELSE monitor
  BY DEF GetBufferLocked, MonitorOnGet, Monitored
<1>4. pending_buffer_count_' > 0 /\ pending_buffer_count_' \in Nat
  BY <1>1
<1>5. monitor' # "none" => monitor' = "ACTIVE"
  BY <1>1, <1>3 DEF MonitorInv
<1> QED
  BY <1>2, <1>4, <1>5 DEF MonitorInv

\* A buffer less: idle with the last one.
LEMMA ReturnBufferMonitored ==
  ASSUME MonitorInv, NEW h \in Handles, ReturnBuffer(h)
  PROVE  MonitorInv'
<1>1. /\ status_' = status_ /\ pending_buffer_count_ \in Nat \ {0}
      /\ pending_buffer_count_' = pending_buffer_count_ - 1
      /\ monitor' = MonitorOnReturn
  BY DEF ReturnBuffer, PendingAfterReturn, MonitorInv
<1>2. status_ \notin Configuring
  BY <1>1 DEF MonitorInv
<1>3. monitor' = IF pending_buffer_count_ = 1 /\ monitor # "none" THEN "IDLE" ELSE monitor
  BY <1>1, <1>2 DEF MonitorOnReturn, Monitored
<1>4. /\ pending_buffer_count_' \in Nat
      /\ pending_buffer_count_' > 0 <=> pending_buffer_count_ # 1
      /\ pending_buffer_count_ > 0
  BY <1>1
<1>5. status_' \in {"CONFIGURED", "PREPARE_ACTIVE"} /\ monitor' # "none"
        => (monitor' = "ACTIVE" <=> pending_buffer_count_' > 0)
  BY <1>1, <1>3, <1>4 DEF MonitorInv
<1> QED
  BY <1>1, <1>2, <1>4, <1>5 DEF MonitorInv

LEMMA MonitorStep ==
  ASSUME Quiesced, MonitorInv, [Next]_vars
  PROVE  MonitorInv'
<1> USE DEF configVars, poolVars, counters
<1>1. CASE BeginConfigure
  BY <1>1 DEF BeginConfigure, OwnerMayReconfigure, MonitorInv, Configuring
<1>2. ASSUME NEW c \in Config, EndConfigure(c) PROVE MonitorInv'
  <2>1. status_ \in Configuring /\ monitor' = "IDLE"
    BY <1>2 DEF EndConfigure, KeepBuffers, ConfigureFails, ConfigureLocked, Configuring
  <2>2. pending_buffer_count_ = 0
    BY <2>1 DEF MonitorInv
  <2>3. pending_buffer_count_' = 0 /\ status_' = "CONFIGURED"
    BY <1>2, <2>2 DEF EndConfigure, KeepBuffers, ConfigureFails, CloseRefused,
                      ConfigureLocked
  <2> QED
    BY <2>1, <2>3 DEF MonitorInv, Configuring
<1>3. CASE AbortConfigure
  BY <1>3 DEF AbortConfigure, MonitorInv, Configuring
<1>4. CASE Close
  <2>1. /\ pending_buffer_count_ = 0 /\ waiting = {}
        /\ UNCHANGED <<pending_buffer_count_, waiting, monitor>>
    BY <1>4 DEF Close, OwnerMayReconfigure
  <2>2. \/ status_' = status_
        \/ status_ = "RECONFIG_ACTIVE" /\ status_' = "CONFIG_ACTIVE"
        \/ status_' = "INTIALIZED"
    BY <1>4 DEF Close
  <2> QED
    BY <2>1, <2>2 DEF MonitorInv, Configuring
<1>5. CASE TearDown
  BY <1>5 DEF TearDown, MonitorInv
<1>6. ASSUME NEW c \in Callers, GetBufferWaits(c) \/ GetBufferFails(c) PROVE MonitorInv'
  BY <1>6 DEF GetBufferWaits, GetBufferFails, MonitorInv, Configuring
<1>7. ASSUME NEW c \in Callers, NEW h \in Handles, GetBuffer(c, h) \/ GetBufferWakes(c, h)
      PROVE MonitorInv'
  <2>1. GetBufferLocked(h) /\ status_ \notin Configuring
    BY <1>7 DEF GetBuffer, GetBufferWakes, MonitorInv, Configuring
  <2> QED
    BY <2>1, GetBufferMonitored
<1>8. ASSUME NEW h \in Handles, NEW ok \in BOOLEAN, ReturnBufferToClient(h, ok) \/ Submit(h)
      PROVE MonitorInv'
  BY <1>8 DEF ReturnBufferToClient, Submit, MonitorInv
<1>9. ASSUME NEW h \in Handles, PrepareBuffer(h) PROVE MonitorInv'
  BY <1>9 DEF PrepareBuffer, MonitorInv, Configuring
<1>10. CASE BeginPrepare \/ EndPrepare
  BY <1>10 DEF BeginPrepare, EndPrepare, MonitorInv, Configuring
<1>11. CASE UNCHANGED vars
  BY <1>11 DEF vars, MonitorInv
<1> QED
  BY <1>1, <1>2, <1>3, <1>4, <1>5, <1>6, <1>7, <1>8, <1>9, <1>10, <1>11,
     ReturnBufferMonitored DEF Next

\* The device client's idea of idle is right for any number of buffers and of
\* request threads, provided that it waits for that idle before it touches the
\* configuration (InternalPauseAndWaitLocked): a stream it configured while
\* buffers are out would have its new monitor told IDLE.
THEOREM MonitorCorrect == Quiesced => (Spec => []MonitorTracksPending)
<1> SUFFICES ASSUME Quiesced PROVE Spec => []MonitorTracksPending
  OBVIOUS
<1>1. Init => MonitorInv
  BY DEF Init, MonitorInv, Configuring
<1>2. MonitorInv /\ [Next]_vars => MonitorInv'
  BY MonitorStep
<1>3. MonitorInv => MonitorTracksPending
  BY DEF MonitorInv, MonitorTracksPending
<1> QED
  BY <1>1, <1>2, <1>3, PTL DEF Spec
=============================================================================
