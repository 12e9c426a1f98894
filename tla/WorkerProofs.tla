---------------------------- MODULE WorkerProofs ----------------------------
(***************************************************************************)
(* What holds of a worker for every set of keys, every limit, every TTL    *)
(* and every width of its counters: its type invariant and the agreement   *)
(* of the three structures of its index, what its steps do to tokens and   *)
(* to the limit, the order of use and the refreshes it hands out, that it  *)
(* implements the abstract cache, and how far its books are from the bytes *)
(* it holds.  The types and the agreement are proved together, as neither  *)
(* is inductive alone: the eviction loop finds the size of the oldest      *)
(* entry only because the list and the map agree.                          *)
(***************************************************************************)
EXTENDS WorkerHistory, BytesProofs, IndexProofs

Inv == TypeOK /\ IndexInStep

-----------------------------------------------------------------------------
(* Entries *)

LEMMA NonNegativeProduct ==
  ASSUME NEW a \in Nat, NEW b \in Nat
  PROVE  a * b \in Nat
  OBVIOUS

LEMMA UnixMilliType ==
  ASSUME NEW t \in Nat
  PROVE  UnixMilli(t) \in Nat
  BY EntriesAssumption DEF UnixMilli

LEMMA ExpiryType ==
  ASSUME NEW now \in Nat, NEW ttl \in Int
  PROVE  SoftExpiry(now, ttl) \in Nat /\ HardExpiry(now, ttl) \in Nat
  <1>1. Effective(ttl) \in Int /\ StalePercent \in Nat
    BY EntriesAssumption DEF Effective
  <1>2. SoftExpiry(now, ttl) \in Nat
    <2>1. CASE Effective(ttl) > 0
      <3>1. now + Effective(ttl) \in Nat
        BY <1>1, <2>1
      <3> QED BY <2>1, <3>1, UnixMilliType DEF SoftExpiry
    <2>2. CASE ~(Effective(ttl) > 0)
      BY <2>2 DEF SoftExpiry
    <2> QED BY <2>1, <2>2
  <1>3. CASE Effective(ttl) > 0 /\ StalePercent > 0
    <2> DEFINE p == Effective(ttl) * StalePercent
    <2>1. p \in Nat
      BY <1>1, <1>3, NonNegativeProduct
    <2> HIDE DEF p
    <2>2. p \div 100 \in Nat
      BY <2>1
    <2>3. now + p \div 100 \in Nat
      BY <2>2
    <2>4. HardExpiry(now, ttl) = UnixMilli(now + p \div 100)
      BY <1>3 DEF HardExpiry, p
    <2> QED BY <1>2, <2>3, <2>4, UnixMilliType
  <1>4. CASE ~(Effective(ttl) > 0 /\ StalePercent > 0)
    BY <1>2, <1>4 DEF HardExpiry
  <1> QED BY <1>2, <1>3, <1>4

LEMMA NewEntryType ==
  ASSUME NEW v \in Value, NEW now \in Nat, NEW ttl \in Int
  PROVE  NewEntry(v, now, ttl) \in Entry
  BY ExpiryType DEF NewEntry, Entry

LEMMA FlagsType ==
  ASSUME NEW e, NEW now
  PROVE  Flags(e, now) \in {0, 1, 3}
  BY DEF Flags

LEMMA SizeType ==
  ASSUME NEW k \in Keys, NEW v \in Value
  PROVE  Size(k, v) \in Nat
  BY WorkerAssumption DEF Size, Value

-----------------------------------------------------------------------------
(* The steps *)

LEMMA EntryHard == \A e \in Entry : e.hard \in Nat
  BY DEF Entry

\* What the invariant says of the index, and of one of its entries.
LEMMA IndexSound ==
  ASSUME Inv
  PROVE  Sound(index, Keys, Entry)
  BY DEF Inv, TypeOK, IndexInStep, Sound

LEMMA EntryType ==
  ASSUME Inv, NEW k, Present(k)
  PROVE  k \in Keys /\ index.data[k] \in Entry
  <1>1. IsPartialMap(index.data, Keys, Entry)
    BY DEF Inv, TypeOK, IsIndex
  <1> QED BY <1>1 DEF IsPartialMap, Present

\* The invariant after a step, from the parts a step may touch.
LEMMA InvParts ==
  ASSUME Sound(index', Keys, Entry), usedMemory' \in Int,
         casCounter' \in CasStart..MaxCas,
         pc' = "storing" => casCounter' < MaxCas,
         evictions' \in Nat, clock' \in Nat,
         pc' \in {"select", "storing", "expiring"},
         IF pc' = "storing" THEN job' \in Job ELSE job' = NoJob,
         reply' \in Reply
  PROVE  Inv'
  BY DEF Inv, TypeOK, IndexInStep, Sound

LEMMA NoReplyType == NoReply \in Reply
  BY DEF NoReply, Reply, Status, NoValue, Value

LEMMA AnswerType ==
  ASSUME NEW op \in Ops, NEW k \in Keys \cup {NoKey}, NEW err \in Status,
         Answer(op, k, err)
  PROVE  reply' \in Reply
  <1>1. NoReply \in Reply
    BY NoReplyType
  <1> QED BY <1>1 DEF Answer, NoReply, Reply

THEOREM InitInv == Init => Inv
  <1> SUFFICES ASSUME Init PROVE Inv
    OBVIOUS
  <1>1. Sound(NewIndex, Keys, Entry)
    BY NewIndexSound
  <1>2. NoReply \in Reply
    BY NoReplyType
  <1> QED BY <1>1, <1>2, WorkerAssumption
          DEF Init, Inv, TypeOK, IndexInStep, Sound, NoJob

LEMMA RefuseInv ==
  ASSUME Inv, NEW op \in Ops, NEW k \in Keys, NEW err \in Status,
         Refuse(op, k, err)
  PROVE  Inv'
  <1>1. reply' \in Reply
    BY AnswerType DEF Refuse
  <1> QED BY <1>1 DEF Refuse, Inv, TypeOK, IndexInStep

LEMMA StartStoreInv ==
  ASSUME Inv, IdleWrite, NEW op \in {"Set", "Add", "Replace", "Cas", "Append", "Prepend"},
         NEW k \in Keys, NEW entry \in Entry, NEW grow \in Int, NEW cas \in Nat,
         StartStore(op, k, entry, grow, cas)
  PROVE  Inv'
  <1>1. job' \in Job
    BY DEF StartStore, Job
  <1> QED BY <1>1 DEF StartStore, IdleWrite, Inv, TypeOK, IndexInStep

LEMMA DoSetInv ==
  ASSUME Inv, IdleWrite, NEW op \in {"Set", "Add", "Replace", "Cas"},
         NEW k \in Keys, NEW v \in Values, NEW ttl \in TTLs, NEW cas \in Nat,
         DoSet(op, k, v, ttl, cas)
  PROVE  Inv'
  <1> DEFINE oldSize == IF Present(k) THEN Size(k, index.data[k].value) ELSE 0
  <1>1. v \in Value /\ ttl \in Int /\ clock \in Nat
    BY EntriesAssumption DEF Inv, TypeOK
  <1>2. NewEntry(v, clock, ttl) \in Entry
    BY <1>1, NewEntryType
  <1>3. oldSize \in Int
    <2>1. CASE Present(k)
      <3>1. index.data[k].value \in Value
        BY <2>1, EntryType DEF Entry
      <3> QED BY <2>1, <3>1, SizeType
    <2>2. CASE ~Present(k)
      BY <2>2
    <2> QED BY <2>1, <2>2
  <1>4. Size(k, v) - oldSize \in Int
    BY <1>1, <1>3, SizeType
  <1>5. StartStore(op, k, NewEntry(v, clock, ttl), Size(k, v) - oldSize, cas)
    BY DEF DoSet
  <1> HIDE DEF oldSize
  <1> QED BY <1>2, <1>4, <1>5, StartStoreInv

LEMMA UpdateInv ==
  ASSUME Inv, IdleWrite, NEW op \in Ops, NEW k \in Keys,
         NEW entry \in Entry, NEW value \in Value, usedMemory' \in Int,
         Update(op, k, entry, value)
  PROVE  Inv'
  <1> DEFINE e == [entry EXCEPT !.cas = casCounter']
  <1>1. /\ casCounter' \in CasStart..MaxCas /\ casCounter' \in Nat
        /\ evictions' \in Nat /\ clock' \in Nat /\ pc' = "select" /\ job' = NoJob
    BY WorkerAssumption DEF Inv, TypeOK, IdleWrite, Idle, Update
  <1>2. e \in Entry
    BY <1>1 DEF Entry
  <1> HIDE DEF e
  <1>3. Sound(SetEntry(index, k, e), Keys, Entry)
    BY <1>2, IndexSound, SetEntrySound, EntryHard
  <1>4. Sound(TouchKey(SetEntry(index, k, e), k), Keys, Entry)
    BY <1>3, TouchKeySound
  <1>5. index' = TouchKey(SetEntry(index, k, e), k)
    BY DEF Update, e
  <1>6. reply' \in Reply
    <2>1. NoReply \in Reply
      BY NoReplyType
    <2> QED BY <1>1, <2>1 DEF Update, NoReply, Reply
  <1> QED BY <1>1, <1>4, <1>5, <1>6, InvParts

\* Taking a present key out of the index and its bytes off the books.
LEMMA RemovedInv ==
  ASSUME Inv, NEW k, Present(k)
  PROVE  /\ Sound(DeleteKey(index, k), Keys, Entry)
         /\ usedMemory - Size(k, index.data[k].value) \in Int
  <1>1. Sound(DeleteKey(index, k), Keys, Entry)
    BY IndexSound, DeleteKeySound
  <1>2. k \in Keys /\ index.data[k].value \in Value
    BY EntryType DEF Entry
  <1>3. Size(k, index.data[k].value) \in Nat
    BY <1>2, SizeType
  <1> QED BY <1>1, <1>3 DEF Inv, TypeOK

LEMMA GetInv ==
  ASSUME Inv, NEW k \in Keys, Get(k)
  PROVE  Inv'
  <1>1. CASE ~Present(k) /\ Refuse("Get", k, "ErrKeyNotFound")
    BY <1>1, RefuseInv DEF Ops, Status
  <1>2. CASE /\ Gone(k)
             /\ usedMemory' = usedMemory - Size(k, index.data[k].value)
             /\ index' = DeleteKey(index, k)
             /\ Answer("Get", k, "ErrKeyNotFound")
             /\ UNCHANGED <<casCounter, evictions, clock, pc, job>>
    <2>1. Present(k)
      BY <1>2 DEF Gone
    <2>2. Sound(index', Keys, Entry) /\ usedMemory' \in Int
      BY <1>2, <2>1, RemovedInv
    <2>3. reply' \in Reply
      BY <1>2, AnswerType DEF Ops, Status
    <2> QED BY <1>2, <2>2, <2>3 DEF Inv, TypeOK, IndexInStep, Sound
  <1>3. CASE Live(k) /\ Get(k) /\ ~Gone(k)
    <2> DEFINE e == index.data[k]
               flags == Flags(e, clock)
               seen == [index EXCEPT !.data[k].refreshing = @ \/ flags = 3]
    <2>1. /\ index' = TouchKey(seen, k)
          /\ reply' = [op |-> "Get", key |-> k, err |-> "ok",
                       value |-> e.value, cas |-> e.cas, flags |-> flags]
          /\ UNCHANGED <<usedMemory, casCounter, evictions, clock, pc, job>>
      BY <1>3 DEF Get, Live
    <2>2. e \in Entry
      BY <1>3, EntryType DEF Live
    <2>3. flags \in {0, 1, 3}
      BY FlagsType
    <2>4. reply' \in Reply
      BY <2>1, <2>2, <2>3 DEF Reply, Entry, Status, Ops
    <2>5. Sound(seen, Keys, Entry)
      <3> DEFINE f == [e EXCEPT !.refreshing = @ \/ flags = 3]
      <3>1. f \in Entry /\ f.hard = e.hard
        BY <2>2 DEF Entry
      <3>2. /\ index = [data |-> index.data, heap |-> index.heap, lru |-> index.lru]
            /\ index.data \in [DOMAIN index.data -> Entry]
            /\ DOMAIN index.data \subseteq Keys /\ k \in DOMAIN index.data
        BY <1>3, IndexSound DEF Sound, IsIndex, IsPartialMap, Live, Present
      <3>3. seen = [data |-> [index.data EXCEPT ![k] = f],
                    heap |-> index.heap, lru |-> index.lru]
        BY <3>2
      <3> HIDE DEF f, flags, e
      <3>4. /\ seen.data \in [DOMAIN index.data -> Entry]
            /\ DOMAIN seen.data = DOMAIN index.data
            /\ \A j \in DOMAIN index.data : seen.data[j].hard = index.data[j].hard
        <4>1. f.hard = index.data[k].hard
          BY <3>1 DEF e
        <4> QED BY <3>1, <3>2, <3>3, <4>1
      <3>5. IsIndex(seen, Keys, Entry)
        BY <3>2, <3>3, <3>4, IndexSound DEF Sound, IsIndex, IsPartialMap
      <3>6. LruInStep(seen)
        BY <3>3, <3>4, IndexSound DEF Sound, InStep, LruInStep
      <3>7. HeapInStep(seen)
        <4>1. /\ seen.heap = index.heap
              /\ {j \in DOMAIN seen.data : seen.data[j].hard > 0}
                   = {j \in DOMAIN index.data : index.data[j].hard > 0}
          BY <3>3, <3>4
        <4> QED BY <3>4, <4>1, IndexSound DEF Sound, InStep, HeapInStep
      <3> QED BY <3>5, <3>6, <3>7 DEF Sound, InStep
    <2> HIDE DEF seen, e, flags
    <2>6. Sound(TouchKey(seen, k), Keys, Entry)
      BY <2>5, TouchKeySound
    <2> QED BY <2>1, <2>4, <2>6 DEF Inv, TypeOK, IndexInStep, Sound
  <1> QED BY <1>1, <1>2, <1>3 DEF Get, Gone, Live

LEMMA SetInv ==
  ASSUME Inv, NEW k \in Keys, NEW v \in Values, NEW ttl \in TTLs,
         NEW cas \in CasStart..MaxCas,
         Set(k, v, ttl) \/ Add(k, v, ttl) \/ Replace(k, v, ttl) \/ Cas(k, v, ttl, cas)
  PROVE  Inv'
  <1>1. IdleWrite /\ cas \in Nat
    BY WorkerAssumption DEF Set, Add, Replace, Cas
  <1>2. CASE \E op \in {"Set", "Add", "Replace", "Cas"}, c \in {0, cas} :
               DoSet(op, k, v, ttl, c)
    BY <1>1, <1>2, DoSetInv
  <1>3. CASE \E op \in Ops, err \in Status : Refuse(op, k, err)
    BY <1>3, RefuseInv
  <1> QED BY <1>2, <1>3 DEF Set, Add, Replace, Cas, Ops, Status

LEMMA TouchInv ==
  ASSUME Inv, NEW k \in Keys, NEW ttl \in TTLs, Touch(k, ttl)
  PROVE  Inv'
  <1>1. CASE Refuse("Touch", k, "ErrKeyNotFound")
    BY <1>1, RefuseInv DEF Ops, Status
  <1>2. CASE Live(k)
    <2> DEFINE e == [index.data[k] EXCEPT !.soft = SoftExpiry(clock, ttl),
                                          !.hard = HardExpiry(clock, ttl)]
    <2>1. ttl \in Int /\ clock \in Nat /\ usedMemory \in Int
      BY EntriesAssumption DEF Inv, TypeOK
    <2>2. index.data[k] \in Entry
      BY <1>2, EntryType DEF Live
    <2>3. SoftExpiry(clock, ttl) \in Nat /\ HardExpiry(clock, ttl) \in Nat
      BY <2>1, ExpiryType
    <2>4. e \in Entry
      BY <2>2, <2>3 DEF Entry
    <2>5. /\ IdleWrite
          /\ \/ Refuse("Touch", k, "ErrKeyNotFound")
             \/ Update("Touch", k, e, NoValue) /\ usedMemory' = usedMemory
      BY DEF Touch
    <2>6. NoValue \in Value /\ "Touch" \in Ops
      BY DEF NoValue, Value, Ops
    <2> HIDE DEF e
    <2> QED BY <1>1, <2>1, <2>4, <2>5, <2>6, UpdateInv
  <1> QED BY <1>1, <1>2 DEF Touch

LEMMA IncrDecrInv ==
  ASSUME Inv, NEW k \in Keys, NEW delta \in Deltas, NEW op \in {"Incr", "Decr"},
         IncrDecr(op, k, delta)
  PROVE  Inv'
  <1>1. CASE \E err \in Status : Refuse(op, k, err)
    BY <1>1, RefuseInv DEF Ops
  <1>2. CASE Live(k) /\ index.data[k].value.num # NotNumeric /\ IncrDecr(op, k, delta)
             /\ ~\E err \in Status : Refuse(op, k, err)
    <2> DEFINE e == index.data[k]
               v == Counted(op, e.value.num, delta)
               f == [e EXCEPT !.value = v]
    <2>1. /\ IdleWrite /\ Update(op, k, f, v)
          /\ usedMemory' = usedMemory + (v.len - e.value.len)
      BY <1>2 DEF IncrDecr, Status
    <2>2. e \in Entry /\ e.value \in Value
      BY <1>2, EntryType DEF Live, Entry
    <2>3. e.value.num \in 0..MaxUint /\ delta \in 0..MaxUint /\ op \in Ops
      BY <1>2, <2>2, EntriesAssumption DEF Value, Ops
    <2>4. v \in Value
      BY <2>3, CountedType
    <2> HIDE DEF v, e
    <2>5. f \in Entry
      BY <2>2, <2>4 DEF Entry
    <2>6. usedMemory' \in Int
      BY <2>1, <2>2, <2>4 DEF Value, Inv, TypeOK
    <2> HIDE DEF f
    <2> QED BY <2>1, <2>3, <2>4, <2>5, <2>6, UpdateInv
  <1> QED BY <1>1, <1>2 DEF IncrDecr, Status

LEMMA AppendPrependInv ==
  ASSUME Inv, NEW k \in Keys, NEW v \in Values, NEW op \in {"Append", "Prepend"},
         AppendPrepend(op, k, v)
  PROVE  Inv'
  <1>1. CASE Refuse(op, k, "ErrKeyNotFound")
    BY <1>1, RefuseInv DEF Ops, Status
  <1>2. CASE Live(k) /\ AppendPrepend(op, k, v) /\ ~Refuse(op, k, "ErrKeyNotFound")
    <2> DEFINE old == index.data[k].value
               new == IF op = "Prepend" THEN Concat(v, old) ELSE Concat(old, v)
               e == [index.data[k] EXCEPT !.value = new]
    <2>1. IdleWrite /\ StartStore(op, k, e, v.len, 0)
      BY <1>2 DEF AppendPrepend
    <2>2. index.data[k] \in Entry /\ old \in Value /\ v \in Value
      BY <1>2, EntryType, EntriesAssumption DEF Live, Entry
    <2>3. new \in Value
      BY <2>2, ConcatType
    <2> HIDE DEF new, old
    <2>4. e \in Entry /\ v.len \in Int
      BY <2>2, <2>3 DEF Entry, Value
    <2> HIDE DEF e
    <2> QED BY <2>1, <2>4, StartStoreInv
  <1> QED BY <1>1, <1>2 DEF AppendPrepend

LEMMA DeleteInv ==
  ASSUME Inv, NEW k \in Keys, Delete(k)
  PROVE  Inv'
  <1>1. CASE Refuse("Delete", k, "ErrKeyNotFound")
    BY <1>1, RefuseInv DEF Ops, Status
  <1>2. CASE /\ Present(k)
             /\ usedMemory' = usedMemory - Size(k, index.data[k].value)
             /\ index' = DeleteKey(index, k)
             /\ Answer("Delete", k, "ok")
             /\ UNCHANGED <<casCounter, evictions, clock, pc, job>>
    <2>1. Sound(index', Keys, Entry) /\ usedMemory' \in Int
      BY <1>2, RemovedInv
    <2>2. reply' \in Reply
      BY <1>2, AnswerType DEF Ops, Status
    <2> QED BY <1>2, <2>1, <2>2 DEF Inv, TypeOK, IndexInStep, Sound
  <1> QED BY <1>1, <1>2 DEF Delete

LEMMA FlushAllInv ==
  ASSUME Inv, FlushAll
  PROVE  Inv'
  <1>1. Sound(index', Keys, Entry)
    BY NewIndexSound DEF FlushAll
  <1>2. reply' \in Reply
    BY AnswerType DEF FlushAll, Ops, Status
  <1> QED BY <1>1, <1>2 DEF FlushAll, Inv, TypeOK, IndexInStep, Sound

LEMMA EvictOldestInv ==
  ASSUME Inv, EvictOldest
  PROVE  Inv'
  <1> DEFINE k == GetOldest(index)
  <1>1. /\ index' = DeleteKey(index, k)
        /\ usedMemory' = usedMemory - Size(k, index.data[k].value)
        /\ evictions' = evictions + 1
        /\ UNCHANGED <<casCounter, clock, pc, job, reply>>
    BY DEF EvictOldest
  <1>2. Present(k)
    BY IndexSound, OldestPresent DEF EvictOldest, MustEvict, Present
  <1> HIDE DEF k
  <1>3. Sound(index', Keys, Entry) /\ usedMemory' \in Int
    BY <1>1, <1>2, RemovedInv
  <1> QED BY <1>1, <1>3 DEF Inv, TypeOK, IndexInStep, Sound

LEMMA FinishStoreInv ==
  ASSUME Inv, FinishStore
  PROVE  Inv'
  <1> DEFINE e == [job.entry EXCEPT !.cas = casCounter']
  <1>1. job \in Job /\ casCounter \in CasStart..MaxCas /\ casCounter < MaxCas
    BY DEF Inv, TypeOK, FinishStore
  <1>2. /\ casCounter' \in CasStart..MaxCas /\ casCounter' \in Nat
        /\ evictions' \in Nat /\ clock' \in Nat /\ pc' = "select" /\ job' = NoJob
    BY <1>1, WorkerAssumption DEF FinishStore, Inv, TypeOK
  <1>3. e \in Entry /\ job.key \in Keys /\ job.grow \in Int /\ job.op \in Ops
    BY <1>1, <1>2 DEF Job, Entry, Ops
  <1>4. index' = SetEntry(index, job.key, e) /\ usedMemory' = usedMemory + job.grow
    BY DEF FinishStore
  <1> HIDE DEF e
  <1>5. Sound(index', Keys, Entry)
    <2>1. Sound(SetEntry(index, job.key, e), Keys, Entry)
      BY <1>3, IndexSound, SetEntrySound, EntryHard
    <2> QED BY <1>4, <2>1
  <1>6. usedMemory' \in Int
    BY <1>3, <1>4 DEF Inv, TypeOK
  <1>7. reply' \in Reply
    BY <1>2, <1>3, NoReplyType DEF FinishStore, NoReply, Reply
  <1> QED BY <1>2, <1>5, <1>6, <1>7, InvParts

LEMMA ExpireOneInv ==
  ASSUME Inv, ExpireOne
  PROVE  Inv'
  <1>1. PICK k \in PeekMin(index) \cap Due :
          /\ index' = DeleteKey(index, k)
          /\ usedMemory' = IF Present(k)
                           THEN usedMemory - Size(k, index.data[k].value)
                           ELSE usedMemory
    BY DEF ExpireOne
  <1>2. Sound(index', Keys, Entry)
    BY <1>1, IndexSound, DeleteKeySound
  <1>3. usedMemory' \in Int
    BY <1>1, RemovedInv DEF Inv, TypeOK
  <1> QED BY <1>2, <1>3 DEF ExpireOne, Inv, TypeOK, IndexInStep, Sound

LEMMA OtherInv ==
  ASSUME Inv, ExpireKeys \/ ExpireDone \/ Tick \/ UNCHANGED vars
  PROVE  Inv'
  <1>1. CASE ExpireKeys \/ ExpireDone
    BY <1>1 DEF ExpireKeys, ExpireDone, Idle, Inv, TypeOK, IndexInStep
  <1>2. CASE Tick
    BY <1>2 DEF Tick, Inv, TypeOK, IndexInStep
  <1>3. CASE UNCHANGED vars
    BY <1>3 DEF vars, Inv, TypeOK, IndexInStep
  <1> QED BY <1>1, <1>2, <1>3

-----------------------------------------------------------------------------

\* Every step of the worker keeps the invariant.
THEOREM NextInv == Inv /\ [Next]_vars => Inv'
  <1> SUFFICES ASSUME Inv, [Next]_vars PROVE Inv'
    OBVIOUS
  <1>1. CASE Request
    <2>1. PICK k \in Keys :
            \/ Get(k)
            \/ Delete(k)
            \/ \E v \in Values, ttl \in TTLs :
                 \/ Set(k, v, ttl)
                 \/ Add(k, v, ttl)
                 \/ Replace(k, v, ttl)
                 \/ \E cas \in CasStart..MaxCas : Cas(k, v, ttl, cas)
            \/ \E ttl \in TTLs : Touch(k, ttl)
            \/ \E delta \in Deltas, op \in {"Incr", "Decr"} : IncrDecr(op, k, delta)
            \/ \E v \in Values, op \in {"Append", "Prepend"} : AppendPrepend(op, k, v)
      BY <1>1 DEF Request
    <2>2. CASE Get(k)
      BY <2>2, GetInv
    <2>3. CASE Delete(k)
      BY <2>3, DeleteInv
    <2>4. CASE \E v \in Values, ttl \in TTLs :
                 Set(k, v, ttl) \/ Add(k, v, ttl) \/ Replace(k, v, ttl)
      <3>1. CasStart \in CasStart..MaxCas
        BY WorkerAssumption
      <3> QED BY <2>4, <3>1, SetInv
    <2>5. CASE \E v \in Values, ttl \in TTLs, cas \in CasStart..MaxCas :
                 Cas(k, v, ttl, cas)
      BY <2>5, SetInv
    <2>6. CASE \E ttl \in TTLs : Touch(k, ttl)
      BY <2>6, TouchInv
    <2>7. CASE \E delta \in Deltas, op \in {"Incr", "Decr"} : IncrDecr(op, k, delta)
      BY <2>7, IncrDecrInv
    <2>8. CASE \E v \in Values, op \in {"Append", "Prepend"} : AppendPrepend(op, k, v)
      BY <2>8, AppendPrependInv
    <2> QED BY <2>1, <2>2, <2>3, <2>4, <2>5, <2>6, <2>7, <2>8
  <1>2. CASE FlushAll
    BY <1>2, FlushAllInv
  <1>3. CASE EvictOldest
    BY <1>3, EvictOldestInv
  <1>4. CASE FinishStore
    BY <1>4, FinishStoreInv
  <1>5. CASE ExpireOne
    BY <1>5, ExpireOneInv
  <1>6. CASE ExpireKeys \/ ExpireDone \/ Tick \/ UNCHANGED vars
    BY <1>6, OtherInv
  <1> QED BY <1>1, <1>2, <1>3, <1>4, <1>5, <1>6 DEF Next, Maintenance

THEOREM SpecInv == Spec => []Inv
  BY InitInv, NextInv, PTL DEF Spec

\* The worker's state keeps its types: no token beyond the counter, no counter
\* value beyond 64 bits, a store in progress exactly while one is.
THEOREM TypeCorrect == Spec => []TypeOK
  <1>1. Inv => TypeOK
    BY DEF Inv
  <1> QED BY <1>1, SpecInv, PTL

\* The map, the expiry heap and the recency list always agree.
THEOREM IndexAlwaysInStep == Spec => []IndexInStep
  <1>1. Inv => IndexInStep
    BY DEF Inv
  <1> QED BY <1>1, SpecInv, PTL
-----------------------------------------------------------------------------
(* What the steps do to the entries *)

\* Key k is taken out.
Removed(k) ==
  /\ DOMAIN index'.data = DOMAIN index.data \ {k}
  /\ \A j \in DOMAIN index'.data : index'.data[j] = index.data[j]

\* Key k is bound to entry e.
Stored(k, e) ==
  /\ DOMAIN index'.data = DOMAIN index.data \cup {k}
  /\ \A j \in DOMAIN index'.data :
       index'.data[j] = IF j = k THEN e ELSE index.data[j]

\* Key k is marked as being refreshed, or was already, or need not be.
Marked(k) ==
  /\ Live(k)
  /\ DOMAIN index'.data = DOMAIN index.data
  /\ \A j \in DOMAIN index.data :
       index'.data[j] =
         IF j = k
         THEN [index.data[k] EXCEPT
                 !.refreshing = @ \/ Flags(index.data[k], clock) = 3]
         ELSE index.data[j]

LEMMA DeleteKeyRemoves ==
  ASSUME Inv, NEW k, index' = DeleteKey(index, k)
  PROVE  Removed(k)
  BY IndexSound, DeleteKeySound DEF Removed

LEMMA SetEntryStores ==
  ASSUME Inv, NEW k \in Keys, NEW e \in Entry,
         \/ index' = SetEntry(index, k, e)
         \/ index' = TouchKey(SetEntry(index, k, e), k)
  PROVE  Stored(k, e)
  <1> DEFINE x == SetEntry(index, k, e)
  <1>1. Sound(x, Keys, Entry) /\ x.data = Bind(index.data, k, e)
    BY IndexSound, SetEntrySound, EntryHard
  <1> HIDE DEF x
  <1>2. TouchKey(x, k).data = x.data
    BY <1>1, TouchKeySound
  <1>3. index'.data = Bind(index.data, k, e)
    BY <1>1, <1>2 DEF x
  <1> QED BY <1>3 DEF Bind, Stored

\* A get that finds the entry.
LEMMA GetMarks ==
  ASSUME Inv, NEW k \in Keys, Live(k), Get(k)
  PROVE  Marked(k)
  <1> DEFINE e == index.data[k]
             flags == Flags(e, clock)
             seen == [index EXCEPT !.data[k].refreshing = @ \/ flags = 3]
             f == [e EXCEPT !.refreshing = @ \/ flags = 3]
  <1>1. index' = TouchKey(seen, k)
    BY DEF Get, Live, Refuse
  <1>2. /\ index = [data |-> index.data, heap |-> index.heap, lru |-> index.lru]
        /\ index.data \in [DOMAIN index.data -> Entry] /\ k \in DOMAIN index.data
    BY IndexSound DEF Sound, IsIndex, IsPartialMap, Live, Present
  <1>3. seen = [data |-> [index.data EXCEPT ![k] = f],
                heap |-> index.heap, lru |-> index.lru]
    BY <1>2
  <1> HIDE DEF seen, f
  <1>4. index'.data = [index.data EXCEPT ![k] = f]
    <2>1. TouchKey(seen, k) = seen \/ TouchKey(seen, k) = [seen EXCEPT !.lru = MoveToBack(@, k)]
      BY DEF TouchKey
    <2> QED BY <1>1, <1>3, <2>1
  <1>5. /\ DOMAIN index'.data = DOMAIN index.data /\ index'.data[k] = f
        /\ \A j \in DOMAIN index.data : j # k => index'.data[j] = index.data[j]
    BY <1>2, <1>4
  <1> QED BY <1>5 DEF Marked, f

\* What any step does to the entries: nothing, mark one as being refreshed, take
\* one out, take all out, or bind one under a token of its own.
Keeps == index' = index /\ casCounter' = casCounter
Marks == casCounter' = casCounter /\ \E k \in Keys : Marked(k)
Removes == casCounter' = casCounter /\ \E k : Removed(k)
Clears == casCounter' = casCounter /\ DOMAIN index'.data = {}
Stores ==
  /\ casCounter' = casCounter + 1
  /\ \E k \in Keys, e \in Entry : e.cas = casCounter' /\ Stored(k, e)

LEMMA UpdateStores ==
  ASSUME Inv, NEW op, NEW k \in Keys, NEW entry \in Entry, NEW value,
         Update(op, k, entry, value)
  PROVE  Stored(k, [entry EXCEPT !.cas = casCounter']) /\ Stores
  <1> DEFINE e == [entry EXCEPT !.cas = casCounter']
  <1>1. casCounter' = casCounter + 1 /\ casCounter' \in Nat
    BY WorkerAssumption DEF Update, Inv, TypeOK
  <1>2. e \in Entry /\ e.cas = casCounter'
    BY <1>1 DEF Entry
  <1>3. index' = TouchKey(SetEntry(index, k, e), k)
    BY DEF Update
  <1> HIDE DEF e
  <1>4. Stored(k, e)
    BY <1>2, <1>3, SetEntryStores
  <1>5. Stores
    BY <1>1, <1>2, <1>4 DEF Stores
  <1> QED BY <1>4, <1>5 DEF e

LEMMA FinishStoreStores ==
  ASSUME Inv, FinishStore
  PROVE  /\ job \in Job
         /\ Stored(job.key, [job.entry EXCEPT !.cas = casCounter']) /\ Stores
  <1> DEFINE e == [job.entry EXCEPT !.cas = casCounter']
  <1>1. casCounter' = casCounter + 1 /\ casCounter' \in Nat /\ job \in Job
    BY WorkerAssumption DEF FinishStore, Inv, TypeOK
  <1>2. e \in Entry /\ e.cas = casCounter' /\ job.key \in Keys
    BY <1>1 DEF Entry, Job
  <1>3. index' = SetEntry(index, job.key, e)
    BY DEF FinishStore
  <1> HIDE DEF e
  <1>4. Stored(job.key, e)
    BY <1>2, <1>3, SetEntryStores
  <1>5. Stores
    BY <1>1, <1>2, <1>4 DEF Stores
  <1> QED BY <1>1, <1>4, <1>5 DEF e

\* The entry a touch and a count bind.
LEMMA TouchedType ==
  ASSUME Inv, NEW k, Present(k), NEW ttl \in TTLs
  PROVE  [index.data[k] EXCEPT !.soft = SoftExpiry(clock, ttl),
                               !.hard = HardExpiry(clock, ttl)] \in Entry
  <1>1. ttl \in Int /\ clock \in Nat
    BY EntriesAssumption DEF Inv, TypeOK
  <1>2. SoftExpiry(clock, ttl) \in Nat /\ HardExpiry(clock, ttl) \in Nat
    BY <1>1, ExpiryType
  <1>3. index.data[k] \in Entry
    BY EntryType
  <1> QED BY <1>2, <1>3 DEF Entry

LEMMA CountedEntryType ==
  ASSUME Inv, NEW k, Present(k), NEW delta \in Deltas, NEW op,
         index.data[k].value.num # NotNumeric
  PROVE  /\ Counted(op, index.data[k].value.num, delta) \in Value
         /\ [index.data[k] EXCEPT !.value =
               Counted(op, index.data[k].value.num, delta)] \in Entry
  <1> DEFINE e == index.data[k]
             v == Counted(op, e.value.num, delta)
  <1>1. e \in Entry /\ e.value \in Value
    BY EntryType DEF Entry
  <1>2. e.value.num \in 0..MaxUint /\ delta \in 0..MaxUint
    BY <1>1, EntriesAssumption DEF Value
  <1>3. v \in Value
    BY <1>2, CountedType
  <1> HIDE DEF v, e
  <1>4. [e EXCEPT !.value = v] \in Entry
    BY <1>1, <1>3 DEF Entry
  <1> QED BY <1>3, <1>4 DEF e, v

LEMMA RequestKinds ==
  ASSUME Inv, Request
  PROVE  Keeps \/ Marks \/ Removes \/ Stores
  <1>1. PICK k \in Keys :
          \/ Get(k)
          \/ Delete(k)
          \/ \E v \in Values, ttl \in TTLs :
               \/ Set(k, v, ttl)
               \/ Add(k, v, ttl)
               \/ Replace(k, v, ttl)
               \/ \E cas \in CasStart..MaxCas : Cas(k, v, ttl, cas)
          \/ \E ttl \in TTLs : Touch(k, ttl)
          \/ \E delta \in Deltas, op \in {"Incr", "Decr"} : IncrDecr(op, k, delta)
          \/ \E v \in Values, op \in {"Append", "Prepend"} : AppendPrepend(op, k, v)
    BY DEF Request
  <1>2. CASE \E op, err : Refuse(op, k, err)
    BY <1>2 DEF Refuse, Keeps
  <1>3. CASE Get(k)
    <2>1. CASE Live(k)
      BY <1>3, <2>1, GetMarks DEF Get, Live, Refuse, Marks
    <2>2. CASE Gone(k)
      BY <1>3, <2>2, DeleteKeyRemoves DEF Get, Live, Gone, Refuse, Removes
    <2> QED BY <1>2, <1>3, <2>1, <2>2 DEF Get
  <1>4. CASE Delete(k)
    BY <1>2, <1>4, DeleteKeyRemoves DEF Delete, Removes
  <1>5. CASE \E op, e, grow, cas : StartStore(op, k, e, grow, cas)
    BY <1>5 DEF StartStore, Keeps
  <1>6. CASE \E v \in Values, ttl \in TTLs :
               \/ Set(k, v, ttl) \/ Add(k, v, ttl) \/ Replace(k, v, ttl)
               \/ \E cas \in CasStart..MaxCas : Cas(k, v, ttl, cas)
    BY <1>2, <1>5, <1>6 DEF Set, Add, Replace, Cas, DoSet
  <1>7. CASE \E ttl \in TTLs : Touch(k, ttl)
    <2>1. PICK ttl \in TTLs : Touch(k, ttl)
      BY <1>7
    <2>2. CASE Live(k)
      BY <1>2, <2>1, <2>2, TouchedType, UpdateStores DEF Touch, Live
    <2> QED BY <1>2, <2>1, <2>2 DEF Touch
  <1>8. CASE \E delta \in Deltas, op \in {"Incr", "Decr"} : IncrDecr(op, k, delta)
    <2>1. PICK delta \in Deltas, op \in {"Incr", "Decr"} : IncrDecr(op, k, delta)
      BY <1>8
    <2>2. CASE Live(k) /\ index.data[k].value.num # NotNumeric
      BY <1>2, <2>1, <2>2, CountedEntryType, UpdateStores DEF IncrDecr, Live
    <2> QED BY <1>2, <2>1, <2>2 DEF IncrDecr
  <1>9. CASE \E v \in Values, op \in {"Append", "Prepend"} : AppendPrepend(op, k, v)
    BY <1>2, <1>5, <1>9 DEF AppendPrepend
  <1> QED BY <1>1, <1>3, <1>4, <1>6, <1>7, <1>8, <1>9

LEMMA StepKinds ==
  ASSUME Inv, [Next]_vars
  PROVE  Keeps \/ Marks \/ Removes \/ Clears \/ Stores
  <1>1. CASE Request
    BY <1>1, RequestKinds
  <1>2. CASE FlushAll
    BY <1>2 DEF FlushAll, NewIndex, EmptyMap, Clears
  <1>3. CASE EvictOldest
    BY <1>3, DeleteKeyRemoves DEF EvictOldest, Removes
  <1>4. CASE FinishStore
    BY <1>4, FinishStoreStores
  <1>5. CASE ExpireOne
    BY <1>5, DeleteKeyRemoves DEF ExpireOne, Removes
  <1>6. CASE ExpireKeys \/ ExpireDone \/ Tick \/ UNCHANGED vars
    BY <1>6 DEF ExpireKeys, ExpireDone, Tick, vars, Keeps
  <1> QED BY <1>1, <1>2, <1>3, <1>4, <1>5, <1>6 DEF Next, Maintenance

-----------------------------------------------------------------------------
(* Tokens *)

LEMMA TokensFresh ==
  ASSUME Inv, Keeps \/ Marks \/ Removes \/ Clears \/ Stores
  PROVE  /\ casCounter' >= casCounter
         /\ \A k \in DOMAIN index'.data : FreshToken(k)
  <1>1. casCounter \in Nat /\ casCounter' >= casCounter
    BY WorkerAssumption DEF Inv, TypeOK, Keeps, Marks, Removes, Clears, Stores
  <1>2. ASSUME NEW k, Present(k), index'.data[k] = index.data[k]
        PROVE  FreshToken(k)
    BY <1>2 DEF FreshToken
  <1>3. CASE Keeps
    BY <1>1, <1>2, <1>3 DEF Keeps, Present
  <1>4. CASE Removes
    BY <1>1, <1>2, <1>4 DEF Removes, Removed, Present
  <1>5. CASE Clears
    BY <1>1, <1>5 DEF Clears
  <1>6. CASE Marks
    <2>1. PICK k \in Keys : Marked(k)
      BY <1>6 DEF Marks
    <2>2. FreshToken(k)
      <3> DEFINE e == index.data[k]
                 r == e.refreshing \/ Flags(e, clock) = 3
      <3>1. e \in Entry /\ index'.data[k] = [e EXCEPT !.refreshing = r] /\ Present(k)
        BY <2>1, EntryType DEF Marked, Live, Present
      <3> HIDE DEF r
      <3>2. [[e EXCEPT !.refreshing = r] EXCEPT !.refreshing = FALSE]
              = [e EXCEPT !.refreshing = FALSE]
        BY <3>1 DEF Entry
      <3> QED BY <3>1, <3>2 DEF FreshToken
    <2>3. ASSUME NEW j \in DOMAIN index'.data, j # k PROVE FreshToken(j)
      BY <1>2, <2>1, <2>3 DEF Marked, Present
    <2> QED BY <1>1, <2>2, <2>3
  <1>7. CASE Stores
    <2>1. PICK k \in Keys, e \in Entry :
            casCounter' = casCounter + 1 /\ e.cas = casCounter' /\ Stored(k, e)
      BY <1>7 DEF Stores
    <2>2. FreshToken(k)
      BY <1>1, <2>1 DEF Stored, FreshToken
    <2>3. ASSUME NEW j \in DOMAIN index'.data, j # k PROVE FreshToken(j)
      BY <1>2, <2>1, <2>3 DEF Stored, Present
    <2> QED BY <1>1, <2>2, <2>3
  <1> QED BY <1>1, <1>3, <1>4, <1>5, <1>6, <1>7

\* No token ever comes back: a content that appears, under whatever key and after
\* whatever deletion, eviction, expiry or flush, has a token above all before it.
THEOREM TokensStayFresh == Spec => FreshTokens
  <1>1. Inv /\ [Next]_vars =>
          [/\ casCounter' >= casCounter
           /\ \A k \in DOMAIN index'.data : FreshToken(k)]_vars
    BY StepKinds, TokensFresh
  <1> QED BY <1>1, SpecInv, PTL DEF Spec, FreshTokens

-----------------------------------------------------------------------------
(* Room for a store *)

\* A store that needed room either found it, or has evicted everything else.
THEOREM EvictionAlwaysHonoursLimit == Spec => EvictionHonoursLimit
  <1> DEFINE Honoured ==
        pc = "storing" /\ pc' = "select" /\ job.grow > 0 /\ MaxMemory > 0 =>
          \/ usedMemory' <= MaxMemory
          \/ DOMAIN index'.data = {job.key}
  <1>1. ASSUME Inv, Next, pc = "storing", pc' = "select", job.grow > 0, MaxMemory > 0
        PROVE  usedMemory' <= MaxMemory \/ DOMAIN index'.data = {job.key}
    <2>1. FinishStore
      BY <1>1 DEF Next, Request, Get, Delete, Set, Add, Replace, Cas, Touch, IncrDecr,
              AppendPrepend, IdleWrite, Idle, FlushAll, EvictOldest, Maintenance,
              ExpireKeys, ExpireOne, ExpireDone, Tick
    <2>2. /\ usedMemory' = usedMemory + job.grow
          /\ usedMemory \in Int /\ job.grow \in Int /\ MaxMemory \in Nat
      BY <1>1, <2>1, WorkerAssumption DEF FinishStore, Inv, TypeOK, Job
    <2>3. CASE index.lru = <<>>
      <3>1. DOMAIN index.data = {}
        <4>1. Range(index.lru) = DOMAIN index.data
          BY <1>1, IndexSound DEF Sound, InStep, LruInStep
        <4>2. DOMAIN <<>> = {}
          BY EmptySeq, LenProperties
        <4> QED BY <2>3, <4>1, <4>2 DEF Range
      <3> QED BY <1>1, <2>1, <3>1, FinishStoreStores DEF Stored
    <2>4. CASE usedMemory + job.grow <= MaxMemory
      BY <2>2, <2>4
    <2> QED BY <1>1, <2>1, <2>2, <2>3, <2>4 DEF FinishStore, MustEvict
  <1>2. Inv /\ [Next]_vars => [Honoured]_vars
    BY <1>1
  <1> QED BY <1>2, SpecInv, PTL DEF Spec, EvictionHonoursLimit

-----------------------------------------------------------------------------
(* The history of uses *)

\* The list follows the history, and the key answered last is the one used last
\* also in the history: answering it again would not change it.
RecencyOK ==
  /\ LruIsRecency
  /\ reply.op \in Accesses /\ reply.err = "ok" =>
       Accessed(recency, reply.key) = recency

\* A step either answers a use of a key and puts that key last, or changes the
\* order of none.
Uses ==
  /\ reply'.op \in Accesses /\ reply'.err = "ok"
  /\ \A a, b : Before(index'.lru, a, b) =>
       a # reply'.key /\ (b = reply'.key \/ Before(index.lru, a, b))

KeepsOrder ==
  /\ reply' = reply \/ ~(reply'.op \in Accesses /\ reply'.err = "ok")
  /\ \A a, b : Before(index'.lru, a, b) => Before(index.lru, a, b)

LEMMA UpdateUses ==
  ASSUME Inv, NEW op \in {"Touch", "Incr", "Decr"}, NEW k \in Keys,
         NEW entry \in Entry, NEW value, Update(op, k, entry, value)
  PROVE  Uses
  <1> DEFINE e == [entry EXCEPT !.cas = casCounter']
             x == SetEntry(index, k, e)
  <1>1. e \in Entry
    BY WorkerAssumption DEF Update, Inv, TypeOK, Entry
  <1>2. index' = TouchKey(x, k)
    BY DEF Update
  <1>3. reply'.op \in Accesses /\ reply'.err = "ok" /\ reply'.key = k
    BY DEF Update, NoReply, Accesses
  <1> HIDE DEF e
  <1>4. Sound(x, Keys, Entry) /\ k \in DOMAIN x.data
    <2>1. Sound(x, Keys, Entry) /\ x.data = Bind(index.data, k, e)
      BY <1>1, IndexSound, SetEntrySound, EntryHard
    <2> QED BY <2>1 DEF Bind
  <1>5. ASSUME NEW a, NEW b, Before(x.lru, a, b)
        PROVE  a # k /\ (b = k \/ Before(index.lru, a, b))
    BY <1>5, IndexSound, SetEntryOrder
  <1> HIDE DEF x
  <1>6. ASSUME NEW a, NEW b, Before(TouchKey(x, k).lru, a, b)
        PROVE  a # k /\ (b = k \/ Before(index.lru, a, b))
    BY <1>4, <1>5, <1>6, TouchKeyOrder
  <1> QED BY <1>2, <1>3, <1>6 DEF Uses

LEMMA FinishStoreUses ==
  ASSUME Inv, FinishStore
  PROVE  Uses
  <1> DEFINE e == [job.entry EXCEPT !.cas = casCounter']
  <1>1. job \in Job /\ job.key \in Keys
    BY DEF FinishStore, Inv, TypeOK, Job
  <1>2. reply'.op \in Accesses /\ reply'.err = "ok" /\ reply'.key = job.key
    BY <1>1 DEF FinishStore, NoReply, Accesses, Job
  <1>3. index' = SetEntry(index, job.key, e)
    BY DEF FinishStore
  <1> HIDE DEF e
  <1>4. ASSUME NEW a, NEW b, Before(SetEntry(index, job.key, e).lru, a, b)
        PROVE  a # job.key /\ (b = job.key \/ Before(index.lru, a, b))
    BY <1>1, <1>4, IndexSound, SetEntryOrder
  <1> QED BY <1>2, <1>3, <1>4 DEF Uses

LEMMA GetUses ==
  ASSUME Inv, NEW k \in Keys, Live(k), Get(k)
  PROVE  Uses
  <1> DEFINE e == index.data[k]
             flags == Flags(e, clock)
             seen == [index EXCEPT !.data[k].refreshing = @ \/ flags = 3]
             f == [e EXCEPT !.refreshing = @ \/ flags = 3]
  <1>1. index' = TouchKey(seen, k)
    BY DEF Get, Live, Refuse
  <1>2. /\ index = [data |-> index.data, heap |-> index.heap, lru |-> index.lru]
        /\ index.data \in [DOMAIN index.data -> Entry] /\ k \in DOMAIN index.data
    BY IndexSound DEF Sound, IsIndex, IsPartialMap, Live, Present
  <1>3. seen = [data |-> [index.data EXCEPT ![k] = f],
                heap |-> index.heap, lru |-> index.lru]
    BY <1>2
  <1>4. reply'.op \in Accesses /\ reply'.err = "ok" /\ reply'.key = k
    BY DEF Get, Live, Refuse, Accesses
  <1> HIDE DEF seen, f
  <1>5. index'.lru = MoveToBack(index.lru, k)
    <2>1. k \in DOMAIN seen.data
      BY <1>2, <1>3
    <2> QED BY <1>1, <1>3, <2>1 DEF TouchKey
  <1>6. /\ index.lru \in Seq(Keys) /\ k \in Range(index.lru)
        /\ Distinct(index.lru)
    BY <1>2, IndexSound DEF Sound, IsIndex, InStep, LruInStep, Distinct
  <1>7. ASSUME NEW a, NEW b, Before(index'.lru, a, b)
        PROVE  a # k /\ (b = k \/ Before(index.lru, a, b))
    BY <1>5, <1>6, <1>7, MoveToBackOrder
  <1> QED BY <1>4, <1>7 DEF Uses

LEMMA DeleteKeepsOrder ==
  ASSUME Inv, NEW k, index' = DeleteKey(index, k),
         reply' = reply \/ ~(reply'.op \in Accesses /\ reply'.err = "ok")
  PROVE  KeepsOrder
  BY IndexSound, DeleteKeyOrder DEF KeepsOrder

LEMMA RequestOrder ==
  ASSUME Inv, Request
  PROVE  Uses \/ KeepsOrder
  <1>1. PICK k \in Keys :
          \/ Get(k)
          \/ Delete(k)
          \/ \E v \in Values, ttl \in TTLs :
               \/ Set(k, v, ttl)
               \/ Add(k, v, ttl)
               \/ Replace(k, v, ttl)
               \/ \E cas \in CasStart..MaxCas : Cas(k, v, ttl, cas)
          \/ \E ttl \in TTLs : Touch(k, ttl)
          \/ \E delta \in Deltas, op \in {"Incr", "Decr"} : IncrDecr(op, k, delta)
          \/ \E v \in Values, op \in {"Append", "Prepend"} : AppendPrepend(op, k, v)
    BY DEF Request
  <1>2. CASE \E op, err : Refuse(op, k, err) /\ err # "ok"
    BY <1>2 DEF Refuse, Answer, NoReply, KeepsOrder
  <1>3. CASE Get(k)
    <2>1. CASE Live(k)
      BY <1>3, <2>1, GetUses
    <2>2. CASE Gone(k)
      <3>1. index' = DeleteKey(index, k) /\ Answer("Get", k, "ErrKeyNotFound")
        BY <1>3, <2>2 DEF Get, Gone, Live, Refuse
      <3> QED BY <3>1, DeleteKeepsOrder DEF Answer, NoReply
    <2>3. CASE ~Present(k)
      BY <1>2, <1>3, <2>3 DEF Get, Gone, Live
    <2> QED BY <2>1, <2>2, <2>3 DEF Live
  <1>4. CASE Delete(k)
    <2>1. CASE Present(k)
      <3>1. index' = DeleteKey(index, k) /\ Answer("Delete", k, "ok")
        BY <1>4, <2>1 DEF Delete
      <3> QED BY <3>1, DeleteKeepsOrder DEF Answer, NoReply, Accesses
    <2> QED BY <1>2, <1>4, <2>1 DEF Delete
  <1>5. CASE \E op, e, grow, cas : StartStore(op, k, e, grow, cas)
    BY <1>5 DEF StartStore, KeepsOrder
  <1>6. CASE \E v \in Values, ttl \in TTLs :
               \/ Set(k, v, ttl) \/ Add(k, v, ttl) \/ Replace(k, v, ttl)
               \/ \E cas \in CasStart..MaxCas : Cas(k, v, ttl, cas)
    BY <1>2, <1>5, <1>6 DEF Set, Add, Replace, Cas, DoSet
  <1>7. CASE \E ttl \in TTLs : Touch(k, ttl)
    <2>1. PICK ttl \in TTLs : Touch(k, ttl)
      BY <1>7
    <2>2. CASE Live(k)
      BY <1>2, <2>1, <2>2, TouchedType, UpdateUses DEF Touch, Live
    <2> QED BY <1>2, <2>1, <2>2 DEF Touch
  <1>8. CASE \E delta \in Deltas, op \in {"Incr", "Decr"} : IncrDecr(op, k, delta)
    <2>1. PICK delta \in Deltas, op \in {"Incr", "Decr"} : IncrDecr(op, k, delta)
      BY <1>8
    <2>2. CASE Live(k) /\ index.data[k].value.num # NotNumeric
      BY <1>2, <2>1, <2>2, CountedEntryType, UpdateUses DEF IncrDecr, Live
    <2> QED BY <1>2, <2>1, <2>2 DEF IncrDecr
  <1>9. CASE \E v \in Values, op \in {"Append", "Prepend"} : AppendPrepend(op, k, v)
    BY <1>2, <1>5, <1>9 DEF AppendPrepend
  <1> QED BY <1>1, <1>3, <1>4, <1>6, <1>7, <1>8, <1>9

LEMMA StepOrder ==
  ASSUME Inv, [Next]_vars
  PROVE  Uses \/ KeepsOrder
  <1>1. CASE Request
    BY <1>1, RequestOrder
  <1>2. CASE FlushAll
    <2>1. index'.lru = <<>> /\ reply'.op = "FlushAll"
      BY <1>2 DEF FlushAll, NewIndex, Answer, NoReply
    <2>2. DOMAIN <<>> = {}
      BY EmptySeq, LenProperties
    <2> QED BY <2>1, <2>2 DEF KeepsOrder, Before, Accesses
  <1>3. CASE EvictOldest
    BY <1>3, DeleteKeepsOrder DEF EvictOldest
  <1>4. CASE FinishStore
    BY <1>4, FinishStoreUses
  <1>5. CASE ExpireOne
    BY <1>5, DeleteKeepsOrder DEF ExpireOne
  <1>6. CASE ExpireKeys \/ ExpireDone \/ Tick \/ UNCHANGED vars
    BY <1>6 DEF ExpireKeys, ExpireDone, Tick, vars, KeepsOrder
  <1> QED BY <1>1, <1>2, <1>3, <1>4, <1>5, <1>6 DEF Next, Maintenance

LEMMA RecencyKept ==
  ASSUME Inv, Inv', RecencyOK, HNext
  PROVE  RecencyOK'
  <1>1. \A a, b : Before(index.lru, a, b) => <<a, b>> \in recency
    BY DEF RecencyOK, LruIsRecency, Before
  <1>2. SUFFICES /\ \A a, b : Before(index'.lru, a, b) => <<a, b>> \in recency'
                 /\ reply'.op \in Accesses /\ reply'.err = "ok" =>
                      Accessed(recency', reply'.key) = recency'
    BY DEF RecencyOK, LruIsRecency, Before
  <1>3. Uses \/ KeepsOrder
    BY StepOrder DEF HNext
  <1>4. recency' = IF reply'.op \in Accesses /\ reply'.err = "ok"
                   THEN Accessed(recency, reply'.key)
                   ELSE recency
    BY DEF HNext
  <1>5. CASE Uses
    <2> DEFINE k == reply'.key
    <2>1. recency' = Accessed(recency, k)
      BY <1>4, <1>5 DEF Uses
    <2>2. ASSUME NEW a, NEW b, Before(index'.lru, a, b)
          PROVE  a \in Keys
      <3>1. Range(index'.lru) \subseteq Keys
        BY DEF Inv, TypeOK, IsIndex, IsPartialMap, IndexInStep, InStep, LruInStep
      <3> QED BY <2>2, <3>1 DEF Before, Range
    <2>3. ASSUME NEW a, NEW b, Before(index'.lru, a, b)
          PROVE  <<a, b>> \in recency'
      <3>1. a # k /\ (b = k \/ Before(index.lru, a, b)) /\ a \in Keys
        BY <1>5, <2>2, <2>3 DEF Uses
      <3> HIDE DEF k
      <3> QED BY <1>1, <2>1, <3>1 DEF Accessed
    <2>4. Accessed(recency', k) = recency'
      <3> HIDE DEF k
      <3> QED BY <2>1 DEF Accessed
    <2> QED BY <2>3, <2>4
  <1>6. CASE KeepsOrder
    <2>1. recency' = recency
      BY <1>4, <1>6 DEF KeepsOrder, RecencyOK
    <2> QED BY <1>1, <1>6, <2>1 DEF KeepsOrder, RecencyOK
  <1> QED BY <1>3, <1>5, <1>6

LEMMA HSpecSpec == HSpec => Spec
  <1>1. HInit => Init
    BY DEF HInit
  <1>2. [HNext]_hvars => [Next]_vars
    BY DEF HNext, hvars
  <1> QED BY <1>1, <1>2, PTL DEF HSpec, Spec

\* Eviction takes the least recently used: the recency list is the order in
\* which the clients last used the keys that are there, whatever was evicted,
\* expired, deleted, refused or flushed in between.
THEOREM LruAlwaysRecency == HSpec => []LruIsRecency
  <1>1. HInit => RecencyOK
    <2> SUFFICES ASSUME HInit PROVE RecencyOK
      OBVIOUS
    <2>1. index.lru = <<>> /\ reply.op = "none"
      BY DEF HInit, Init, NewIndex, NoReply
    <2>2. DOMAIN <<>> = {}
      BY EmptySeq, LenProperties
    <2> QED BY <2>1, <2>2 DEF RecencyOK, LruIsRecency, Accesses
  <1>2. Inv /\ Inv' /\ RecencyOK /\ [HNext]_hvars => RecencyOK'
    <2>1. CASE HNext
      BY <2>1, RecencyKept
    <2>2. CASE UNCHANGED hvars
      BY <2>2 DEF hvars, vars, RecencyOK, LruIsRecency
    <2> QED BY <2>1, <2>2
  <1>3. RecencyOK => LruIsRecency
    BY DEF RecencyOK
  <1> QED BY <1>1, <1>2, <1>3, HSpecSpec, SpecInv, PTL DEF HSpec

-----------------------------------------------------------------------------
(* Single flight *)

\* A key whose refresh a get has been told to do is marked so, in the index and
\* in the copy of the entry that an append or a prepend is about to store: the
\* copy outlives the entry if that is evicted meanwhile.
MarkKept(k) ==
  /\ Present(k) => index.data[k].refreshing
  /\ pc = "storing" /\ job.key = k /\ job.op \notin SetExpiry =>
       job.entry.refreshing

RefreshOK ==
  /\ refreshes \in [Keys -> 0..1]
  /\ \A k \in Keys : refreshes[k] = 1 => MarkKept(k)

\* The answer is to an operation that sets the expiry of k.
Renews(k) == reply'.key = k /\ reply'.err = "ok" /\ reply'.op \in SetExpiry

\* The answer tells a client to refresh k.
Asks(k) ==
  /\ Served
  /\ reply'.key = k /\ reply'.err = "ok" /\ reply'.op = "Get" /\ reply'.flags = 3

\* Only a get that finds the entry stale and unmarked asks, and it marks it.
LEMMA AskMarks ==
  ASSUME Inv, Next, NEW k \in Keys, Asks(k)
  PROVE  ~MarkKept(k) /\ MarkKept(k)'
  <1>1. ASSUME NEW op, NEW j, NEW err, Answer(op, j, err)
        PROVE  reply'.op = op /\ reply'.key = j /\ reply'.err = err
    BY <1>1 DEF Answer, NoReply
  <1>2. ASSUME NEW op, NEW j, NEW err, Refuse(op, j, err)
        PROVE  reply'.op = op /\ reply'.key = j /\ reply'.err = err
    BY <1>1, <1>2 DEF Refuse
  <1>3. Request
    <2>1. CASE FlushAll
      BY <1>1, <2>1 DEF Asks, FlushAll
    <2>2. CASE Tick
      <3>1. clock \in Nat
        BY DEF Inv, TypeOK
      <3> QED BY <2>2, <3>1 DEF Asks, Served, Tick
    <2>3. CASE EvictOldest \/ FinishStore \/ Maintenance
      BY <2>3 DEF Asks, Served, EvictOldest, FinishStore, Maintenance, ExpireKeys,
         ExpireOne, ExpireDone
    <2> QED BY <2>1, <2>2, <2>3 DEF Next
  <1>4. Get(k)
    <2>1. PICK j \in Keys :
            \/ Get(j)
            \/ Delete(j)
            \/ \E v \in Values, ttl \in TTLs :
                 \/ Set(j, v, ttl)
                 \/ Add(j, v, ttl)
                 \/ Replace(j, v, ttl)
                 \/ \E cas \in CasStart..MaxCas : Cas(j, v, ttl, cas)
            \/ \E ttl \in TTLs : Touch(j, ttl)
            \/ \E delta \in Deltas, op \in {"Incr", "Decr"} : IncrDecr(op, j, delta)
            \/ \E v \in Values, op \in {"Append", "Prepend"} : AppendPrepend(op, j, v)
      BY <1>3 DEF Request
    <2>2. ASSUME NEW op, NEW entry, NEW grow, NEW cas PROVE ~StartStore(op, j, entry, grow, cas)
      BY DEF Asks, Served, StartStore
    <2>3. ASSUME NEW op, NEW entry, NEW value, Update(op, j, entry, value)
          PROVE  reply'.op = op
      BY <2>3 DEF Update, NoReply
    <2>4. Get(j)
      BY <1>1, <1>2, <2>1, <2>2, <2>3
         DEF Asks, Delete, Set, Add, Replace, Cas, DoSet, Touch, IncrDecr, AppendPrepend
    <2>5. reply'.key = j
      BY <1>1, <1>2, <2>4 DEF Get
    <2> QED BY <2>4, <2>5 DEF Asks
  <1>5. Live(k) /\ Flags(index.data[k], clock) = 3
    BY <1>1, <1>2, <1>4 DEF Get, Asks
  <1>6. ~index.data[k].refreshing /\ Present(k)
    BY <1>5 DEF Flags, Live
  <1>7. Marked(k)
    BY <1>4, <1>5, GetMarks
  <1>8. index'.data[k].refreshing
    <2>1. index.data[k] \in Entry
      BY <1>6, EntryType
    <2>2. index'.data[k] = [index.data[k] EXCEPT !.refreshing = @ \/ Flags(index.data[k], clock) = 3]
      BY <1>6, <1>7 DEF Marked, Present
    <2> QED BY <1>5, <2>1, <2>2 DEF Entry
  <1>9. pc' = "select"
    BY DEF Asks, Served
  <1> QED BY <1>6, <1>8, <1>9 DEF MarkKept

\* What a step may do to the mark of k, other than setting its expiry: an entry
\* that is still or again there has the mark of its predecessor or of the copy
\* about to be stored, and a copy has the mark of the entry.
Carries(k) ==
  /\ Present(k)' =>
       \/ Present(k) /\ (index.data[k].refreshing => index'.data[k].refreshing)
       \/ /\ pc = "storing" /\ job.key = k /\ job.op \notin SetExpiry
          /\ index'.data[k].refreshing = job.entry.refreshing
  /\ pc' = "storing" /\ job'.key = k /\ job'.op \notin SetExpiry =>
       \/ pc = "storing" /\ job' = job
       \/ Present(k) /\ job'.entry.refreshing = index.data[k].refreshing

\* A step that starts no store and only marks or removes entries.
LEMMA SameCarries ==
  ASSUME Inv, Keeps \/ Marks \/ Removes \/ Clears, pc' # "storing" \/ (pc' = pc /\ job' = job),
         NEW k \in Keys
  PROVE  Carries(k)
  <1>1. ASSUME Present(k)'
        PROVE  Present(k) /\ (index.data[k].refreshing => index'.data[k].refreshing)
    <2>1. CASE Keeps
      BY <1>1, <2>1 DEF Keeps, Present
    <2>2. CASE Marks
      <3>1. PICK j \in Keys : Marked(j)
        BY <2>2 DEF Marks
      <3>2. Present(k) /\ index.data[k] \in Entry
        BY <1>1, <3>1, EntryType DEF Marked, Present
      <3>3. CASE j = k
        <4> DEFINE r == index.data[k].refreshing \/ Flags(index.data[k], clock) = 3
        <4>1. index'.data[k] = [index.data[k] EXCEPT !.refreshing = r]
          BY <3>1, <3>2, <3>3 DEF Marked, Present
        <4>2. index.data[k].refreshing => r
          OBVIOUS
        <4> HIDE DEF r
        <4>3. index'.data[k].refreshing = r
          BY <3>2, <4>1 DEF Entry
        <4> QED BY <3>2, <4>2, <4>3
      <3>4. CASE j # k
        BY <3>1, <3>2, <3>4 DEF Marked, Present
      <3> QED BY <3>3, <3>4
    <2>3. CASE Removes
      BY <1>1, <2>3 DEF Removes, Removed, Present
    <2>4. CASE Clears
      BY <1>1, <2>4 DEF Clears, Present
    <2> QED BY <2>1, <2>2, <2>3, <2>4
  <1> QED BY <1>1 DEF Carries

LEMMA UpdateCarries ==
  ASSUME Inv, NEW op, NEW j \in Keys, NEW entry \in Entry, NEW value,
         Present(j), pc # "storing",
         Update(op, j, entry, value), NEW k \in Keys,
         k = j => entry.refreshing = index.data[j].refreshing
  PROVE  Carries(k)
  <1> DEFINE e == [entry EXCEPT !.cas = casCounter']
  <1>1. Stored(j, e) /\ pc' # "storing"
    BY UpdateStores DEF Update
  <1>2. e.refreshing = entry.refreshing
    BY DEF Entry
  <1> HIDE DEF e
  <1> QED BY <1>1, <1>2 DEF Carries, Stored, Present

LEMMA FinishStoreCarries ==
  ASSUME Inv, FinishStore, NEW k \in Keys, ~Renews(k)
  PROVE  Carries(k)
  <1> DEFINE e == [job.entry EXCEPT !.cas = casCounter']
  <1>1. Stored(job.key, e) /\ pc' # "storing" /\ pc = "storing" /\ job \in Job
    BY FinishStoreStores DEF FinishStore
  <1>2. e.refreshing = job.entry.refreshing
    BY <1>1 DEF Job, Entry
  <1>3. job.key = k => job.op \notin SetExpiry
    BY <1>1 DEF Renews, FinishStore, NoReply, Job
  <1> HIDE DEF e
  <1> QED BY <1>1, <1>2, <1>3 DEF Carries, Stored, Present

LEMMA StartCarries ==
  ASSUME Inv, Idle, NEW op, NEW j \in Keys, NEW entry, NEW grow, NEW cas,
         StartStore(op, j, entry, grow, cas), NEW k \in Keys,
         op \in SetExpiry \/ (Present(j) /\ entry.refreshing = index.data[j].refreshing)
  PROVE  Carries(k)
  BY DEF StartStore, Carries, Present, Idle

LEMMA RequestCarries ==
  ASSUME Inv, Request, NEW k \in Keys, ~Renews(k)
  PROVE  Carries(k)
  <1>1. PICK j \in Keys :
          \/ Get(j)
          \/ Delete(j)
          \/ \E v \in Values, ttl \in TTLs :
               \/ Set(j, v, ttl)
               \/ Add(j, v, ttl)
               \/ Replace(j, v, ttl)
               \/ \E cas \in CasStart..MaxCas : Cas(j, v, ttl, cas)
          \/ \E ttl \in TTLs : Touch(j, ttl)
          \/ \E delta \in Deltas, op \in {"Incr", "Decr"} : IncrDecr(op, j, delta)
          \/ \E v \in Values, op \in {"Append", "Prepend"} : AppendPrepend(op, j, v)
    BY DEF Request
  <1>2. CASE \E op, err : Refuse(op, j, err)
    BY <1>2, SameCarries DEF Refuse, Keeps
  <1>3. CASE Get(j)
    <2>1. pc' = pc /\ job' = job
      BY <1>3 DEF Get, Refuse
    <2>2. CASE Live(j)
      BY <1>3, <2>1, <2>2, GetMarks, SameCarries DEF Get, Live, Refuse, Marks
    <2>3. CASE Gone(j)
      BY <1>3, <2>1, <2>3, DeleteKeyRemoves, SameCarries DEF Get, Live, Gone, Refuse, Removes
    <2> QED BY <1>2, <1>3, <2>2, <2>3 DEF Get
  <1>4. CASE Delete(j)
    <2>1. CASE Present(j)
      BY <1>4, <2>1, DeleteKeyRemoves, SameCarries DEF Delete, Removes
    <2> QED BY <1>2, <1>4, <2>1 DEF Delete
  <1>5. CASE \E v \in Values, ttl \in TTLs :
               \/ Set(j, v, ttl) \/ Add(j, v, ttl) \/ Replace(j, v, ttl)
               \/ \E cas \in CasStart..MaxCas : Cas(j, v, ttl, cas)
    <2>1. CASE \E op \in SetExpiry : \E e, grow, cas :
               Idle /\ StartStore(op, j, e, grow, cas)
      BY <2>1, StartCarries
    <2> QED BY <1>2, <1>5, <2>1 DEF Set, Add, Replace, Cas, DoSet, IdleWrite, SetExpiry
  <1>6. CASE \E ttl \in TTLs : Touch(j, ttl)
    <2>1. PICK ttl \in TTLs : Touch(j, ttl)
      BY <1>6
    <2>2. CASE Live(j)
      <3> DEFINE e == [index.data[j] EXCEPT !.soft = SoftExpiry(clock, ttl),
                                            !.hard = HardExpiry(clock, ttl)]
      <3>1. Present(j) /\ index.data[j] \in Entry /\ e \in Entry
        BY <2>2, TouchedType, EntryType DEF Live
      <3>2. e.refreshing = index.data[j].refreshing
        BY <3>1 DEF Entry
      <3>3. Refuse("Touch", j, "ErrKeyNotFound") \/ Update("Touch", j, e, NoValue)
        BY <2>1 DEF Touch
      <3>4. pc # "storing"
        BY <2>1 DEF Touch, IdleWrite, Idle
      <3> HIDE DEF e
      <3> QED BY <1>2, <3>1, <3>2, <3>3, <3>4, UpdateCarries
    <2> QED BY <1>2, <2>1, <2>2 DEF Touch
  <1>7. CASE \E delta \in Deltas, op \in {"Incr", "Decr"} : IncrDecr(op, j, delta)
    <2>1. PICK delta \in Deltas, op \in {"Incr", "Decr"} : IncrDecr(op, j, delta)
      BY <1>7
    <2>2. CASE Live(j) /\ index.data[j].value.num # NotNumeric /\ ~\E err : Refuse(op, j, err)
      <3> DEFINE v == Counted(op, index.data[j].value.num, delta)
                 e == [index.data[j] EXCEPT !.value = v]
      <3>1. Present(j) /\ index.data[j] \in Entry /\ e \in Entry
        BY <2>2, CountedEntryType, EntryType DEF Live
      <3>2. e.refreshing = index.data[j].refreshing
        BY <3>1 DEF Entry
      <3>3. Update(op, j, e, v) /\ pc # "storing"
        BY <2>1, <2>2 DEF IncrDecr, IdleWrite, Idle
      <3> HIDE DEF e, v
      <3> QED BY <3>1, <3>2, <3>3, UpdateCarries
    <2> QED BY <1>2, <2>1, <2>2 DEF IncrDecr
  <1>8. CASE \E v \in Values, op \in {"Append", "Prepend"} : AppendPrepend(op, j, v)
    <2>1. PICK v \in Values, op \in {"Append", "Prepend"} : AppendPrepend(op, j, v)
      BY <1>8
    <2>2. CASE Live(j) /\ ~Refuse(op, j, "ErrKeyNotFound")
      <3> DEFINE old == index.data[j].value
                 new == IF op = "Prepend" THEN Concat(v, old) ELSE Concat(old, v)
                 e == [index.data[j] EXCEPT !.value = new]
      <3>1. Present(j) /\ index.data[j] \in Entry
        BY <2>2, EntryType DEF Live
      <3>2. e.refreshing = index.data[j].refreshing
        BY <3>1 DEF Entry
      <3>3. StartStore(op, j, e, v.len, 0) /\ Idle
        BY <2>1, <2>2 DEF AppendPrepend, IdleWrite
      <3> HIDE DEF e
      <3> QED BY <3>1, <3>2, <3>3, StartCarries
    <2> QED BY <1>2, <2>1, <2>2 DEF AppendPrepend
  <1> QED BY <1>1, <1>3, <1>4, <1>5, <1>6, <1>7, <1>8

LEMMA StepCarries ==
  ASSUME Inv, Next, NEW k \in Keys, ~Renews(k)
  PROVE  Carries(k)
  <1>1. CASE Request
    BY <1>1, RequestCarries
  <1>2. CASE FlushAll
    BY <1>2, SameCarries DEF FlushAll, NewIndex, EmptyMap, Clears
  <1>3. CASE EvictOldest
    BY <1>3, DeleteKeyRemoves, SameCarries DEF EvictOldest, Removes
  <1>4. CASE FinishStore
    BY <1>4, FinishStoreCarries
  <1>5. CASE ExpireOne
    BY <1>5, DeleteKeyRemoves, SameCarries DEF ExpireOne, Removes
  <1>6. CASE ExpireKeys \/ ExpireDone \/ Tick
    BY <1>6, SameCarries DEF ExpireKeys, ExpireDone, Tick, Keeps
  <1> QED BY <1>1, <1>2, <1>3, <1>4, <1>5, <1>6 DEF Next, Maintenance

LEMMA RefreshKept ==
  ASSUME Inv, RefreshOK, HNext
  PROVE  RefreshOK'
  <1>1. ASSUME NEW k \in Keys
        PROVE  refreshes'[k] \in 0..1 /\ (refreshes'[k] = 1 => MarkKept(k)')
    <2>1. CASE Renews(k)
      BY <2>1 DEF HNext, Renews
    <2>2. CASE Asks(k)
      <3>1. ~MarkKept(k) /\ MarkKept(k)'
        BY <2>2, AskMarks DEF HNext
      <3>2. refreshes[k] = 0
        BY <3>1 DEF RefreshOK
      <3> QED BY <2>2, <3>1, <3>2 DEF HNext, Asks, SetExpiry
    <2>3. CASE ~Renews(k) /\ ~Asks(k)
      <3>1. refreshes'[k] = refreshes[k]
        BY <2>3 DEF HNext, Renews, Asks
      <3>2. Carries(k)
        BY <2>3, StepCarries DEF HNext
      <3>3. MarkKept(k) => MarkKept(k)'
        BY <3>2 DEF Carries, MarkKept, Present
      <3> QED BY <3>1, <3>3 DEF RefreshOK
    <2> QED BY <2>1, <2>2, <2>3
  <1>2. refreshes' = [k \in Keys |-> refreshes'[k]]
    BY DEF HNext
  <1> QED BY <1>1, <1>2 DEF RefreshOK

\* Single flight: between two settings of an entry's expiry one get at most is
\* told to refresh it, also when the entry is counted, extended or evicted by its
\* own extension in between.
THEOREM RefreshAlwaysOnce == HSpec => []RefreshOnce
  <1>1. HInit => RefreshOK
    BY DEF HInit, RefreshOK
  <1>2. Inv /\ RefreshOK /\ [HNext]_hvars => RefreshOK'
    <2>1. CASE UNCHANGED hvars
      BY <2>1 DEF hvars, vars, RefreshOK, MarkKept, Present
    <2> QED BY <2>1, RefreshKept
  <1>3. RefreshOK => RefreshOnce
    BY DEF RefreshOK, RefreshOnce
  <1> QED BY <1>1, <1>2, <1>3, HSpecSpec, SpecInv, PTL DEF HSpec

-----------------------------------------------------------------------------
(* The worker implements Cache *)

\* What clients see after a step, from what the step did to the entries.
LEMMA LiveSame ==
  ASSUME index' = index, clock' = clock
  PROVE  LiveEntries' = LiveEntries
  BY DEF LiveEntries, Live, Gone, Present

LEMMA LiveRemoved ==
  ASSUME Inv, clock' = clock, NEW k, Removed(k)
  PROVE  LiveEntries' = [j \in DOMAIN LiveEntries \ {k} |-> LiveEntries[j]]
  <1>1. \A j : Live(j)' <=> Live(j) /\ j # k
    BY DEF Live, Gone, Present, Removed
  <1>2. \A j : Live(j)' => index'.data[j] = index.data[j]
    BY DEF Live, Present, Removed
  <1> QED BY <1>1, <1>2 DEF LiveEntries

\* Taking out an entry that has expired is not seen.
LEMMA LiveGone ==
  ASSUME Inv, clock' = clock, NEW k, Removed(k), ~Live(k)
  PROVE  LiveEntries' = LiveEntries
  <1>1. LiveEntries' = [j \in DOMAIN LiveEntries \ {k} |-> LiveEntries[j]]
    BY LiveRemoved
  <1>2. k \notin DOMAIN LiveEntries
    BY DEF LiveEntries
  <1> QED BY <1>1, <1>2 DEF LiveEntries

LEMMA LiveStored ==
  ASSUME Inv, clock' = clock, NEW k \in Keys, NEW e, Stored(k, e)
  PROVE  LiveEntries' =
           [j \in {i \in DOMAIN LiveEntries \cup {k} :
                     i = k => ~HardExpired(e, clock)} |->
              IF j = k THEN e ELSE LiveEntries[j]]
  <1>1. \A j : Live(j)' <=> IF j = k THEN ~HardExpired(e, clock) ELSE Live(j)
    BY DEF Live, Gone, Present, Stored
  <1>2. \A j : Live(j)' => index'.data[j] = IF j = k THEN e ELSE index.data[j]
    BY DEF Live, Present, Stored
  <1> QED BY <1>1, <1>2 DEF LiveEntries

LEMMA LiveMarked ==
  ASSUME Inv, clock' = clock, NEW k \in Keys, Marked(k)
  PROVE  LiveEntries' =
           [LiveEntries EXCEPT ![k].refreshing = @ \/ Flags(index.data[k], clock) = 3]
  <1> DEFINE r == Flags(index.data[k], clock) = 3
             f == [index.data[k] EXCEPT !.refreshing = @ \/ r]
  <1>1. index.data[k] \in Entry
    BY EntryType DEF Marked, Live
  <1>2. f.hard = index.data[k].hard
    BY <1>1 DEF Entry
  <1>3. \A j \in DOMAIN index.data : index'.data[j] = IF j = k THEN f ELSE index.data[j]
    BY DEF Marked
  <1>4. LiveEntries[k] = index.data[k] /\ k \in DOMAIN LiveEntries
    BY DEF LiveEntries, Marked
  <1>5. [LiveEntries EXCEPT ![k].refreshing = @ \/ r] = [LiveEntries EXCEPT ![k] = f]
    BY <1>4
  <1> HIDE DEF f, r
  <1>6. \A j : Live(j)' <=> Live(j)
    BY <1>2, <1>3 DEF Live, Gone, Present, HardExpired, Marked
  <1>7. LiveEntries' = [LiveEntries EXCEPT ![k] = f]
    BY <1>3, <1>6 DEF LiveEntries, Live, Present
  <1> QED BY <1>5, <1>7 DEF r

\* What has expired stays so.
LEMMA UnixMilliGrows ==
  ASSUME NEW t \in Nat
  PROVE  UnixMilli(t) <= UnixMilli(t + 1)
  <1> DEFINE d == TicksPerMs
  <1>1. d \in Nat \ {0}
    BY EntriesAssumption
  <1> HIDE DEF d
  <1> DEFINE q == t \div d
             p == (t + 1) \div d
  <1>2. q \in Int /\ p \in Int
    BY <1>1
  <1>3. d * q <= t /\ t + 1 < d * (p + 1)
    BY <1>1
  <1> HIDE DEF q, p
  <1>4. q < p + 1
    <2>1. SUFFICES ASSUME p + 1 <= q PROVE FALSE
      BY <1>2
    <2>2. d * (p + 1) <= d * q
      BY <1>1, <1>2, <2>1
    <2> QED BY <1>1, <1>2, <1>3, <2>2
  <1> QED BY <1>2, <1>4 DEF UnixMilli, q, p, d

LEMMA LiveTicked ==
  ASSUME Inv, index' = index, clock' = clock + 1
  PROVE  LiveEntries' =
           [k \in {j \in DOMAIN LiveEntries : ~HardExpired(LiveEntries[j], clock')} |->
              LiveEntries[k]]
  <1>1. clock \in Nat
    BY DEF Inv, TypeOK
  <1>2. UnixMilli(clock) <= UnixMilli(clock') /\ UnixMilli(clock) \in Nat
        /\ UnixMilli(clock') \in Nat
    BY <1>1, UnixMilliGrows, UnixMilliType
  <1>3. ASSUME NEW j, Present(j)
        PROVE  Live(j)' <=> Live(j) /\ ~HardExpired(index.data[j], clock')
    <2>1. index.data[j].hard \in Nat
      BY <1>3, EntryType, EntryHard
    <2> QED BY <1>2, <1>3, <2>1 DEF Live, Gone, Present, HardExpired
  <1>4. \A j : Live(j)' => Present(j)
    BY DEF Live, Present
  <1> QED BY <1>3, <1>4 DEF LiveEntries, Live

\* The pure operators mean the same on both sides.
LEMMA SameOperators ==
  /\ \A e, now : Abstract!HardExpired(e, now) = HardExpired(e, now)
  /\ \A e, now : Abstract!Flags(e, now) = Flags(e, now)
  /\ \A v, now, ttl : Abstract!NewEntry(v, now, ttl) = NewEntry(v, now, ttl)
  /\ \A now, ttl : Abstract!SoftExpiry(now, ttl) = SoftExpiry(now, ttl)
  /\ \A now, ttl : Abstract!HardExpiry(now, ttl) = HardExpiry(now, ttl)
  /\ \A v, w : Abstract!Concat(v, w) = Concat(v, w)
  /\ \A op, n, delta : Abstract!Counted(op, n, delta) = Counted(op, n, delta)
  /\ \A op, k, err : Abstract!Answer(op, k, err) = Answer(op, k, err)
  /\ Abstract!NoReply = NoReply /\ Abstract!NoKey = NoKey
  /\ Abstract!NotNumeric = NotNumeric /\ Abstract!NoValue = NoValue
  /\ Abstract!Nothing = NoJob
  <1>1. \A t : Abstract!UnixMilli(t) = UnixMilli(t)
    BY DEF Abstract!UnixMilli, UnixMilli
  <1>2. \A e, now : Abstract!HardExpired(e, now) = HardExpired(e, now)
    BY <1>1 DEF Abstract!HardExpired, HardExpired
  <1>3. \A e, now : Abstract!Flags(e, now) = Flags(e, now)
    BY <1>1 DEF Abstract!Flags, Flags, Abstract!SoftExpired, SoftExpired
  <1>4. \A now, ttl : Abstract!SoftExpiry(now, ttl) = SoftExpiry(now, ttl)
    BY <1>1 DEF Abstract!SoftExpiry, SoftExpiry, Abstract!Effective, Effective
  <1>5. \A now, ttl : Abstract!HardExpiry(now, ttl) = HardExpiry(now, ttl)
    BY <1>1, <1>4 DEF Abstract!HardExpiry, HardExpiry, Abstract!Effective, Effective
  <1>6. \A v, now, ttl : Abstract!NewEntry(v, now, ttl) = NewEntry(v, now, ttl)
    BY <1>4, <1>5 DEF Abstract!NewEntry, NewEntry
  <1>7. Abstract!NotNumeric = NotNumeric /\ Abstract!NoValue = NoValue
    BY DEF Abstract!NotNumeric, NotNumeric, Abstract!NoValue, NoValue
  <1>8. \A v, w : Abstract!Concat(v, w) = Concat(v, w)
    BY <1>7 DEF Abstract!Concat, Concat
  <1>9. \A op, n, delta : Abstract!Counted(op, n, delta) = Counted(op, n, delta)
    <2>1. \A n : Abstract!Digits(n) = Digits(n)
      BY DEF Abstract!Digits, Digits, Abstract!Cardinality, Cardinality
    <2> QED BY <2>1 DEF Abstract!Counted, Counted
  <1>10. Abstract!NoReply = NoReply /\ Abstract!NoKey = NoKey
    BY <1>7 DEF Abstract!NoReply, NoReply, Abstract!NoKey, NoKey
  <1>11. \A op, k, err : Abstract!Answer(op, k, err) = Answer(op, k, err)
    BY <1>10 DEF Abstract!Answer, Answer
  <1>12. Abstract!Nothing = NoJob
    BY DEF Abstract!Nothing, NoJob
  <1> QED BY <1>2, <1>3, <1>4, <1>5, <1>6, <1>7, <1>8, <1>9, <1>10, <1>11, <1>12

\* Nothing is pending exactly while no store is in progress, and the abstract
\* cache has a key exactly if it is live.
LEMMA HasLive ==
  \A k : Abstract!Has(k) <=> k \in Keys /\ Live(k)
  BY DEF Abstract!Has, LiveEntries

LEMMA IdleNothing ==
  ASSUME pc # "storing" PROVE Accepted = Abstract!Nothing
  BY SameOperators DEF Accepted

LEMMA RefusesTruthfully ==
  ASSUME Inv, Idle, NEW k \in Keys, NEW op, NEW err, Refuse(op, k, err),
         \/ /\ op \in {"Get", "Replace", "Cas", "Delete", "Touch", "Incr", "Decr",
                       "Append", "Prepend"}
            /\ err = "ErrKeyNotFound" /\ ~Live(k)
         \/ op = "Add" /\ err = "ErrKeyExists" /\ Live(k)
         \/ op = "Cas" /\ err = "ErrCasMismatch" /\ Live(k)
         \/ /\ op \in {"Incr", "Decr"} /\ err = "ErrNotNumeric"
            /\ Live(k) /\ index.data[k].value.num = NotNumeric
  PROVE  Abstract!Refusal
  <1>1. /\ Accepted = Abstract!Nothing /\ Accepted' = Accepted
        /\ LiveEntries' = LiveEntries /\ casCounter' = casCounter /\ clock' = clock
    BY IdleNothing, LiveSame DEF Refuse, Idle, Accepted
  <1>2. Answer(op, k, err)
    BY DEF Refuse
  <1>3. Abstract!Answer(op, k, err)
    BY <1>2, SameOperators
  <1>4. Abstract!Refuse(op, k, err)
    BY <1>1, <1>3 DEF Abstract!Refuse
  <1>5. Live(k) => LiveEntries[k] = index.data[k]
    BY DEF LiveEntries
  <1> QED BY <1>4, <1>5, HasLive, SameOperators DEF Abstract!Refusal

\* Removing an entry that is past its expiry changes nothing for the clients.
LEMMA GetImplements ==
  ASSUME Inv, NEW k \in Keys, Get(k)
  PROVE  Abstract!Next
  <1>1. /\ Accepted = Abstract!Nothing /\ Accepted' = Accepted
        /\ casCounter' = casCounter /\ clock' = clock
    BY IdleNothing DEF Get, Refuse, Idle, Accepted
  <1>2. CASE ~Present(k)
    <2>1. Refuse("Get", k, "ErrKeyNotFound") /\ ~Live(k) /\ Idle
      BY <1>2 DEF Get, Gone, Live
    <2>2. Abstract!Refusal
      BY <2>1, RefusesTruthfully
    <2> QED BY <2>2 DEF Abstract!Next
  <1>3. CASE Gone(k)
    <2>1. Removed(k) /\ ~Live(k) /\ Answer("Get", k, "ErrKeyNotFound")
      BY <1>3, DeleteKeyRemoves DEF Get, Gone, Live, Refuse
    <2>2. LiveEntries' = LiveEntries
      BY <1>1, <2>1, LiveGone
    <2>3. Abstract!Answer("Get", k, "ErrKeyNotFound")
      BY <2>1, SameOperators
    <2>4. Abstract!Refuse("Get", k, "ErrKeyNotFound")
      BY <1>1, <2>2, <2>3 DEF Abstract!Refuse
    <2> QED BY <2>1, <2>4, HasLive DEF Abstract!Refusal, Abstract!Next
  <1>4. CASE Live(k)
    <2>1. Marked(k)
      BY <1>4, GetMarks
    <2>2. LiveEntries[k] = index.data[k]
      BY <1>4 DEF LiveEntries
    <2>3. LiveEntries' =
            [LiveEntries EXCEPT ![k].refreshing = @ \/ Flags(index.data[k], clock) = 3]
      BY <1>1, <2>1, LiveMarked
    <2>4. reply' = [op |-> "Get", key |-> k, err |-> "ok",
                    value |-> index.data[k].value, cas |-> index.data[k].cas,
                    flags |-> Flags(index.data[k], clock)]
      BY <1>4 DEF Get, Live, Refuse
    <2>5. Abstract!Get(k)
      BY <1>1, <1>4, <2>2, <2>3, <2>4, HasLive, SameOperators DEF Abstract!Get
    <2> QED BY <2>5 DEF Abstract!Next
  <1> QED BY <1>2, <1>3, <1>4 DEF Live

LEMMA DeleteImplements ==
  ASSUME Inv, NEW k \in Keys, Delete(k)
  PROVE  Abstract!Next
  <1>1. CASE ~Present(k)
    <2>1. Refuse("Delete", k, "ErrKeyNotFound") /\ ~Live(k) /\ Idle
      BY <1>1 DEF Delete, Live
    <2>2. Abstract!Refusal
      BY <2>1, RefusesTruthfully
    <2> QED BY <2>2 DEF Abstract!Next
  <1>2. CASE Present(k)
    <2>1. /\ Accepted = Abstract!Nothing /\ Accepted' = Accepted
          /\ casCounter' = casCounter /\ clock' = clock
          /\ Removed(k) /\ Answer("Delete", k, "ok")
      BY <1>2, IdleNothing, DeleteKeyRemoves DEF Delete, Refuse, Idle, Accepted
    <2>2. LiveEntries' = [j \in DOMAIN LiveEntries \ {k} |-> LiveEntries[j]]
      BY <2>1, LiveRemoved
    <2>3. Abstract!Answer("Delete", k, "ok")
      BY <2>1, SameOperators
    <2>4. Abstract!Delete(k)
      BY <2>1, <2>2, <2>3 DEF Abstract!Delete, Abstract!Keep
    <2> QED BY <2>4 DEF Abstract!Next
  <1> QED BY <1>1, <1>2

\* A store is accepted under the condition its operation names.
LEMMA StartAccepts ==
  ASSUME Inv, Idle, NEW op, NEW k \in Keys, NEW entry, NEW grow, NEW cas,
         StartStore(op, k, entry, grow, cas)
  PROVE  Abstract!Accept(op, k, entry, cas)
  <1>1. /\ Accepted = Abstract!Nothing
        /\ Accepted' = [op |-> op, key |-> k, entry |-> entry, existingCas |-> cas]
        /\ LiveEntries' = LiveEntries
        /\ casCounter' = casCounter /\ clock' = clock /\ reply' = reply
    BY IdleNothing, LiveSame DEF StartStore, Idle, Accepted
  <1> QED BY <1>1 DEF Abstract!Accept

LEMMA SetImplements ==
  ASSUME Inv, NEW k \in Keys, NEW v \in Values, NEW ttl \in TTLs,
         \/ Set(k, v, ttl) \/ Add(k, v, ttl) \/ Replace(k, v, ttl)
         \/ \E cas \in CasStart..MaxCas : Cas(k, v, ttl, cas)
  PROVE  Abstract!Next
  <1>1. Idle
    BY DEF Set, Add, Replace, Cas, IdleWrite
  <1>2. CASE \E op, err : Refuse(op, k, err)
    <2>1. Abstract!Refusal
      <3>1. ASSUME NEW op, NEW err, Refuse(op, k, err)
            PROVE  reply'.op = op /\ reply'.err = err
        BY <3>1 DEF Refuse, Answer, NoReply
      <3>2. \/ Add(k, v, ttl) /\ Live(k) /\ Refuse("Add", k, "ErrKeyExists")
            \/ Replace(k, v, ttl) /\ ~Live(k) /\ Refuse("Replace", k, "ErrKeyNotFound")
            \/ ~Live(k) /\ Refuse("Cas", k, "ErrKeyNotFound")
            \/ Live(k) /\ Refuse("Cas", k, "ErrCasMismatch")
        <4>1. ASSUME NEW op, NEW c PROVE ~DoSet(op, k, v, ttl, c)
          BY <1>1, <1>2 DEF DoSet, StartStore, Refuse, Idle
        <4> QED BY <4>1 DEF Set, Add, Replace, Cas
      <3> QED BY <1>1, <3>2, RefusesTruthfully
    <2> QED BY <2>1 DEF Abstract!Next
  <1>3. CASE \E op, cas :
               /\ DoSet(op, k, v, ttl, cas)
               /\ \/ op = "Set" /\ cas = 0
                  \/ op = "Add" /\ cas = 0 /\ ~Live(k)
                  \/ op = "Replace" /\ cas = 0 /\ Live(k)
                  \/ op = "Cas" /\ Live(k) /\ index.data[k].cas = cas
    <2>1. PICK op, cas :
            /\ DoSet(op, k, v, ttl, cas)
            /\ \/ op = "Set" /\ cas = 0
               \/ op = "Add" /\ cas = 0 /\ ~Live(k)
               \/ op = "Replace" /\ cas = 0 /\ Live(k)
               \/ op = "Cas" /\ Live(k) /\ index.data[k].cas = cas
      BY <1>3
    <2>2. PICK grow : StartStore(op, k, NewEntry(v, clock, ttl), grow, cas)
      BY <2>1 DEF DoSet
    <2>3. Abstract!Accept(op, k, NewEntry(v, clock, ttl), cas)
      BY <1>1, <2>2, StartAccepts
    <2>4. Abstract!Accept(op, k, Abstract!NewEntry(v, clock, ttl), cas)
      BY <2>3, SameOperators
    <2>5. Live(k) => LiveEntries[k] = index.data[k]
      BY DEF LiveEntries
    <2>6. Abstract!Store(k)
      BY <2>1, <2>4, <2>5, HasLive DEF Abstract!Store
    <2> QED BY <2>6 DEF Abstract!Next
  <1> QED BY <1>2, <1>3 DEF Set, Add, Replace, Cas

LEMMA AppendPrependImplements ==
  ASSUME Inv, NEW k \in Keys, NEW v \in Values, NEW op \in {"Append", "Prepend"},
         AppendPrepend(op, k, v)
  PROVE  Abstract!Next
  <1>1. Idle
    BY DEF AppendPrepend, IdleWrite
  <1>2. CASE ~Live(k)
    <2>1. Abstract!Refusal
      BY <1>1, <1>2, RefusesTruthfully DEF AppendPrepend
    <2> QED BY <2>1 DEF Abstract!Next
  <1>3. CASE Live(k)
    <2> DEFINE old == index.data[k].value
               new == IF op = "Prepend" THEN Concat(v, old) ELSE Concat(old, v)
               e == [index.data[k] EXCEPT !.value = new]
    <2>1. StartStore(op, k, e, v.len, 0)
      BY <1>3 DEF AppendPrepend
    <2>2. Abstract!Accept(op, k, e, 0)
      BY <1>1, <2>1, StartAccepts
    <2>3. LiveEntries[k] = index.data[k]
      BY <1>3 DEF LiveEntries
    <2>4. new = IF op = "Append" THEN Abstract!Concat(LiveEntries[k].value, v)
                                 ELSE Abstract!Concat(v, LiveEntries[k].value)
      BY <2>3, SameOperators
    <2> HIDE DEF new
    <2>5. Abstract!Store(k)
      BY <1>3, <2>2, <2>3, <2>4, HasLive DEF Abstract!Store
    <2> QED BY <2>5 DEF Abstract!Next
  <1> QED BY <1>2, <1>3

\* An update in place.
LEMMA UpdateImplements ==
  ASSUME Inv, Idle, NEW op, NEW k \in Keys, Live(k), NEW entry \in Entry, NEW value,
         Update(op, k, entry, value)
  PROVE  Abstract!Update(op, k, entry, value)
  <1> DEFINE e == [entry EXCEPT !.cas = casCounter']
  <1>1. /\ Accepted = Abstract!Nothing /\ Accepted' = Accepted
        /\ casCounter' = casCounter + 1 /\ clock' = clock
    BY IdleNothing DEF Update, Idle, Accepted
  <1>2. Stored(k, e)
    BY UpdateStores
  <1>3. reply' = [NoReply EXCEPT !.op = op, !.key = k, !.value = value,
                                 !.cas = casCounter']
    BY DEF Update
  <1>4. reply' = [Abstract!NoReply EXCEPT !.op = op, !.key = k, !.cas = casCounter',
                                          !.value = value]
    <2>1. [NoReply EXCEPT !.op = op, !.key = k, !.value = value, !.cas = casCounter']
            = [NoReply EXCEPT !.op = op, !.key = k, !.cas = casCounter', !.value = value]
      BY DEF NoReply
    <2> QED BY <1>3, <2>1, SameOperators
  <1> HIDE DEF e
  <1>5. Abstract!Put(k, e)
    BY <1>1, <1>2, LiveStored, SameOperators DEF Abstract!Put
  <1> QED BY <1>1, <1>4, <1>5, HasLive DEF Abstract!Update, e

LEMMA TouchImplements ==
  ASSUME Inv, NEW k \in Keys, NEW ttl \in TTLs, Touch(k, ttl)
  PROVE  Abstract!Next
  <1>1. Idle
    BY DEF Touch, IdleWrite
  <1>2. CASE ~Live(k)
    <2>1. Abstract!Refusal
      BY <1>1, <1>2, RefusesTruthfully DEF Touch
    <2> QED BY <2>1 DEF Abstract!Next
  <1>3. CASE Live(k)
    <2> DEFINE e == [index.data[k] EXCEPT !.soft = SoftExpiry(clock, ttl),
                                          !.hard = HardExpiry(clock, ttl)]
    <2>1. e \in Entry /\ Update("Touch", k, e, NoValue)
      BY <1>3, TouchedType DEF Touch, Live
    <2>2. LiveEntries[k] = index.data[k]
      BY <1>3 DEF LiveEntries
    <2>3. e = [LiveEntries[k] EXCEPT !.soft = Abstract!SoftExpiry(clock, ttl),
                                     !.hard = Abstract!HardExpiry(clock, ttl)]
      BY <2>2, SameOperators
    <2> HIDE DEF e
    <2>4. Abstract!Update("Touch", k, e, NoValue)
      BY <1>1, <1>3, <2>1, UpdateImplements
    <2>5. Abstract!Touch(k)
      BY <2>3, <2>4, SameOperators DEF Abstract!Touch
    <2> QED BY <2>5 DEF Abstract!Next
  <1> QED BY <1>2, <1>3

LEMMA IncrDecrImplements ==
  ASSUME Inv, NEW k \in Keys, NEW delta \in Deltas, NEW op \in {"Incr", "Decr"},
         IncrDecr(op, k, delta)
  PROVE  Abstract!Next
  <1>1. Idle
    BY DEF IncrDecr, IdleWrite
  <1>2. CASE ~Live(k) \/ index.data[k].value.num = NotNumeric
    <2>1. Abstract!Refusal
      BY <1>1, <1>2, RefusesTruthfully DEF IncrDecr
    <2> QED BY <2>1 DEF Abstract!Next
  <1>3. CASE Live(k) /\ index.data[k].value.num # NotNumeric
    <2> DEFINE v == Counted(op, index.data[k].value.num, delta)
               e == [index.data[k] EXCEPT !.value = v]
    <2>1. e \in Entry /\ Update(op, k, e, v)
      BY <1>3, CountedEntryType DEF IncrDecr, Live
    <2>2. LiveEntries[k] = index.data[k]
      BY <1>3 DEF LiveEntries
    <2>3. v = Abstract!Counted(op, LiveEntries[k].value.num, delta)
      BY <2>2, SameOperators
    <2> HIDE DEF v
    <2>4. e = [LiveEntries[k] EXCEPT !.value = v]
      BY <2>2
    <2> HIDE DEF e
    <2>5. Abstract!Update(op, k, e, v)
      BY <1>1, <1>3, <2>1, UpdateImplements
    <2>6. Abstract!Count(k)
      BY <1>3, <2>2, <2>3, <2>4, <2>5, HasLive, SameOperators DEF Abstract!Count
    <2> QED BY <2>6 DEF Abstract!Next
  <1> QED BY <1>2, <1>3

LEMMA FlushAllImplements ==
  ASSUME Inv, FlushAll
  PROVE  Abstract!Next
  <1>1. /\ Accepted = Abstract!Nothing /\ Accepted' = Accepted
        /\ casCounter' = casCounter /\ clock' = clock
        /\ DOMAIN index'.data = {} /\ Answer("FlushAll", NoKey, "ok")
    BY IdleNothing DEF FlushAll, NewIndex, EmptyMap, Idle, Accepted
  <1>2. LiveEntries' = [k \in {} |-> LiveEntries[k]]
    BY <1>1 DEF LiveEntries, Live, Present
  <1>3. Abstract!Answer("FlushAll", Abstract!NoKey, "ok")
    BY <1>1, SameOperators
  <1>4. Abstract!FlushAll
    BY <1>1, <1>2, <1>3 DEF Abstract!FlushAll, Abstract!Keep
  <1> QED BY <1>4 DEF Abstract!Next

\* Evicting an entry that is still alive is an eviction of the abstract cache,
\* evicting one that has expired is nothing.
LEMMA EvictOldestImplements ==
  ASSUME Inv, EvictOldest
  PROVE  Abstract!Next \/ UNCHANGED Abstract!vars
  <1> DEFINE k == GetOldest(index)
  <1>1. /\ pc = "storing" /\ MaxMemory > 0 /\ index' = DeleteKey(index, k)
        /\ UNCHANGED <<casCounter, clock, pc, job, reply>>
    BY DEF EvictOldest, MustEvict
  <1>2. Present(k)
    BY IndexSound, OldestPresent DEF EvictOldest, MustEvict, Present
  <1> HIDE DEF k
  <1>3. Removed(k) /\ k \in Keys
    BY <1>1, <1>2, DeleteKeyRemoves, EntryType
  <1>4. Accepted' = Accepted
    BY <1>1 DEF Accepted
  <1>5. CASE ~Live(k)
    BY <1>1, <1>3, <1>4, <1>5, LiveGone DEF Abstract!vars
  <1>6. CASE Live(k)
    <2>1. LiveEntries' = [j \in DOMAIN LiveEntries \ {k} |-> LiveEntries[j]]
      BY <1>1, <1>3, LiveRemoved
    <2>2. Accepted # Abstract!Nothing
      <3>1. job \in Job /\ Accepted.op = job.op
        BY <1>1 DEF Inv, TypeOK, Accepted
      <3>2. job.op # "none" /\ NoJob.op = "none"
        BY <3>1 DEF Job, NoJob
      <3> QED BY <3>1, <3>2, SameOperators
    <2>3. k \in DOMAIN LiveEntries
      BY <1>3, <1>6 DEF LiveEntries
    <2>4. Abstract!Evict
      BY <1>1, <1>4, <2>1, <2>2, <2>3 DEF Abstract!Evict, Abstract!Keep
    <2> QED BY <2>4 DEF Abstract!Next
  <1> QED BY <1>5, <1>6

LEMMA FinishStoreImplements ==
  ASSUME Inv, FinishStore
  PROVE  Abstract!Next
  <1> DEFINE e == [job.entry EXCEPT !.cas = casCounter']
  <1>1. /\ job \in Job /\ pc = "storing" /\ pc' = "select"
        /\ casCounter' = casCounter + 1 /\ clock' = clock
        /\ reply' = [NoReply EXCEPT !.op = job.op, !.key = job.key, !.cas = casCounter']
    BY DEF FinishStore, Inv, TypeOK
  <1>2. Accepted' = Abstract!Nothing
    BY <1>1, SameOperators DEF Accepted
  <1>3. /\ Accepted.op = job.op /\ Accepted.key = job.key
        /\ Accepted.entry = job.entry
    BY <1>1 DEF Accepted
  <1>4. Accepted # Abstract!Nothing
    <2>1. job.op # "none" /\ NoJob.op = "none"
      BY <1>1 DEF Job, NoJob
    <2> QED BY <1>3, <2>1, SameOperators
  <1>5. Stored(job.key, e) /\ job.key \in Keys
    BY <1>1, FinishStoreStores DEF Job
  <1>6. e = [Accepted.entry EXCEPT !.cas = casCounter']
    BY <1>3
  <1> HIDE DEF e
  <1>7. Abstract!Put(Accepted.key, e)
    <2>1. PICK k \in Keys : k = job.key
      BY <1>5
    <2>2. Stored(k, e)
      BY <1>5, <2>1
    <2>3. Abstract!Put(k, e)
      BY <1>1, <2>2, LiveStored, SameOperators DEF Abstract!Put
    <2> QED BY <1>3, <2>1, <2>3
  <1>8. Abstract!Commit
    BY <1>1, <1>2, <1>3, <1>4, <1>6, <1>7, SameOperators DEF Abstract!Commit
  <1> QED BY <1>8 DEF Abstract!Next

\* The expiry loop takes out what clients no longer see.
LEMMA ExpireOneImplements ==
  ASSUME Inv, ExpireOne
  PROVE  UNCHANGED Abstract!vars
  <1>1. PICK k \in PeekMin(index) \cap Due : index' = DeleteKey(index, k)
    BY DEF ExpireOne
  <1>2. Removed(k) /\ UNCHANGED <<casCounter, clock, pc, job, reply>>
    BY <1>1, DeleteKeyRemoves DEF ExpireOne
  <1>3. ~Live(k)
    <2>1. k \in DOMAIN index.heap /\ index.heap[k] <= UnixMilli(clock)
      BY DEF Due
    <2>2. Present(k) /\ index.data[k].hard > 0 /\ index.heap[k] = index.data[k].hard
      BY <2>1, IndexSound DEF Sound, InStep, HeapInStep, Present
    <2> QED BY <2>1, <2>2 DEF Live, Gone, HardExpired
  <1>4. LiveEntries' = LiveEntries
    BY <1>2, <1>3, LiveGone
  <1> QED BY <1>2, <1>4 DEF Accepted, Abstract!vars

LEMMA OtherImplements ==
  ASSUME Inv, ExpireKeys \/ ExpireDone \/ Tick \/ UNCHANGED vars
  PROVE  Abstract!Next \/ UNCHANGED Abstract!vars
  <1>1. CASE ExpireKeys \/ ExpireDone \/ UNCHANGED vars
    <2>1. /\ UNCHANGED <<index, casCounter, clock, job, reply>>
          /\ pc' = pc \/ (pc # "storing" /\ pc' # "storing")
      BY <1>1 DEF ExpireKeys, ExpireDone, Idle, vars
    <2> QED BY <2>1, LiveSame DEF Accepted, Abstract!vars
  <1>2. CASE Tick
    <2>1. /\ index' = index /\ clock' = clock + 1 /\ casCounter' = casCounter
          /\ reply' = reply /\ Accepted = Abstract!Nothing /\ Accepted' = Accepted
      BY <1>2, IdleNothing DEF Tick, Idle, Accepted
    <2>2. Abstract!Keep({k \in DOMAIN LiveEntries : ~HardExpired(LiveEntries[k], clock')})
      BY <2>1, LiveTicked DEF Abstract!Keep
    <2>3. Abstract!Tick
      BY <2>1, <2>2, SameOperators DEF Abstract!Tick
    <2> QED BY <2>3 DEF Abstract!Next
  <1> QED BY <1>1, <1>2

LEMMA StepImplements ==
  ASSUME Inv, [Next]_vars
  PROVE  Abstract!Next \/ UNCHANGED Abstract!vars
  <1>1. CASE Request
    BY <1>1, GetImplements, DeleteImplements, SetImplements, TouchImplements,
       IncrDecrImplements, AppendPrependImplements DEF Request
  <1>2. CASE FlushAll
    BY <1>2, FlushAllImplements
  <1>3. CASE EvictOldest
    BY <1>3, EvictOldestImplements
  <1>4. CASE FinishStore
    BY <1>4, FinishStoreImplements
  <1>5. CASE ExpireOne
    BY <1>5, ExpireOneImplements
  <1>6. CASE ExpireKeys \/ ExpireDone \/ Tick \/ UNCHANGED vars
    BY <1>6, OtherImplements
  <1> QED BY <1>1, <1>2, <1>3, <1>4, <1>5, <1>6 DEF Next, Maintenance

\* Every behaviour of the worker is one of the cache its clients believe in: what
\* is served is what was last stored, refusals are truthful, and entries disappear
\* exactly when they expire, are deleted or flushed, or make room for a store.
THEOREM WorkerImplementsCache == Spec => ImplementsCache
  <1>1. Init => Abstract!Init
    <2> SUFFICES ASSUME Init PROVE Abstract!Init
      OBVIOUS
    <2>1. LiveEntries = [k \in {} |-> 0]
      BY DEF Init, NewIndex, EmptyMap, LiveEntries, Live, Present
    <2>2. Accepted = Abstract!Nothing
      BY IdleNothing DEF Init
    <2> QED BY <2>1, <2>2, SameOperators DEF Init, Abstract!Init
  <1>2. Inv /\ [Next]_vars => [Abstract!Next]_(Abstract!vars)
    BY StepImplements
  <1> QED BY <1>1, <1>2, SpecInv, PTL DEF Spec, ImplementsCache, Abstract!Spec

-----------------------------------------------------------------------------
(* Sums over a finite set *)

\* The element a fold takes next, and the sums it makes of the parts of S.
Pick(s) == CHOOSE x \in s : TRUE
Adds(g, w, S) ==
  g = [s \in SUBSET S |-> IF s = {} THEN 0 ELSE w[Pick(s)] + g[s \ {Pick(s)}]]
SumOf(w, S) == (CHOOSE g : Adds(g, w, S))[S]

\* Of finite sets, those that have a property include a smallest one.
LEMMA SmallestSet ==
  ASSUME NEW S, IsFiniteSet(S), NEW F \in SUBSET SUBSET S, F # {}
  PROVE  \E s \in F : \A r \in F : r \subseteq s => r = s
  <1>1. IsWellFoundedOn(StrictSubsetOrdering(S), FiniteSubsetsOf(S))
    BY FS_StrictSubsetOrderingWellFounded
  <1>2. F \subseteq FiniteSubsetsOf(S)
    BY FS_Subset DEF FiniteSubsetsOf
  <1>3. PICK s \in F : \A r \in F : ~(<<r, s>> \in StrictSubsetOrdering(S))
    BY <1>1, <1>2, WFMin
  <1>4. ASSUME NEW r \in F, r \subseteq s, r # s
        PROVE  FALSE
    <2>1. <<r, s>> \in StrictSubsetOrdering(S)
      BY <1>4 DEF StrictSubsetOrdering
    <2> QED BY <1>3, <2>1
  <1> QED BY <1>3, <1>4

LEMMA Picked ==
  ASSUME NEW s, s # {}
  PROVE  Pick(s) \in s
  BY DEF Pick

LEMMA AddsAt ==
  ASSUME NEW g, NEW w, NEW S, Adds(g, w, S)
  PROVE  /\ g[{}] = 0
         /\ \A s \in SUBSET S : s # {} => g[s] = w[Pick(s)] + g[s \ {Pick(s)}]
  BY DEF Adds

\* The sum of a set depends on the weights of its elements only.
LEMMA SumUnique ==
  ASSUME NEW g, NEW w, NEW S, Adds(g, w, S), NEW h, NEW v, NEW T, Adds(h, v, T),
         NEW U \in SUBSET (S \cap T), IsFiniteSet(U), \A x \in U : w[x] = v[x]
  PROVE  g[U] = h[U]
  <1>0. /\ g[{}] = 0 /\ \A s \in SUBSET S : s # {} => g[s] = w[Pick(s)] + g[s \ {Pick(s)}]
        /\ h[{}] = 0 /\ \A s \in SUBSET T : s # {} => h[s] = v[Pick(s)] + h[s \ {Pick(s)}]
    BY AddsAt
  <1> DEFINE F == {s \in SUBSET U : g[s] # h[s]}
  <1> SUFFICES ASSUME F # {} PROVE FALSE
    OBVIOUS
  <1>1. PICK s \in F : \A r \in F : r \subseteq s => r = s
    <2>1. F \in SUBSET SUBSET U
      OBVIOUS
    <2> HIDE DEF F
    <2> QED BY <2>1, SmallestSet
  <1>2. s # {}
    BY <1>0
  <1>3. Pick(s) \in s
    BY <1>2, Picked
  <1>4. s \ {Pick(s)} \in SUBSET U /\ s \ {Pick(s)} \notin F
    BY <1>1, <1>3
  <1>5. g[s \ {Pick(s)}] = h[s \ {Pick(s)}]
    BY <1>4
  <1>6. s \in SUBSET S /\ s \in SUBSET T /\ w[Pick(s)] = v[Pick(s)]
    BY <1>3
  <1>7. g[s] = w[Pick(s)] + g[s \ {Pick(s)}]
    BY <1>0, <1>2, <1>6
  <1>8. h[s] = v[Pick(s)] + h[s \ {Pick(s)}]
    BY <1>0, <1>2, <1>6
  <1> QED BY <1>1, <1>5, <1>6, <1>7, <1>8

\* There are such sums.
LEMMA SumsExist ==
  ASSUME NEW w, NEW S, IsFiniteSet(S)
  PROVE  \E g : Adds(g, w, S)
  <1> DEFINE F == {s \in SUBSET S : ~\E g : Adds(g, w, s)}
  <1> SUFFICES ASSUME F # {} PROVE FALSE
    OBVIOUS
  <1>1. PICK U \in F : \A r \in F : r \subseteq U => r = U
    <2>1. F \in SUBSET SUBSET S
      OBVIOUS
    <2> HIDE DEF F
    <2> QED BY <2>1, SmallestSet
  <1>2. ASSUME NEW t \in SUBSET U, t # U
        PROVE  \E g : Adds(g, w, t)
    BY <1>1, <1>2
  <1> DEFINE h == [s \in SUBSET U |->
                     IF s = {} THEN 0 ELSE w[Pick(s)] + SumOf(w, s \ {Pick(s)})]
  <1>3. ASSUME NEW t \in SUBSET U, t # U
        PROVE  h[t] = SumOf(w, t)
    <2>1. PICK g : g = (CHOOSE x : Adds(x, w, t)) /\ Adds(g, w, t)
      BY <1>2, <1>3
    <2>2. SumOf(w, t) = g[t]
      BY <2>1 DEF SumOf
    <2>3. CASE t = {}
      BY <2>1, <2>2, <2>3, AddsAt
    <2>4. CASE t # {}
      <3> DEFINE p == Pick(t)
                 u == t \ {p}
      <3>1. p \in t /\ u \in SUBSET U /\ u # U /\ u \in SUBSET t
        BY <2>4, Picked
      <3>2. PICK e : e = (CHOOSE x : Adds(x, w, u)) /\ Adds(e, w, u)
        BY <1>2, <3>1
      <3>3. IsFiniteSet(u)
        <4>1. u \in SUBSET S
          BY <3>1
        <4> QED BY <4>1, FS_Subset
      <3>4. e[u] = g[u]
        <4>1. u \in SUBSET (u \cap t) /\ \A x \in u : w[x] = w[x]
          BY <3>1
        <4> HIDE DEF u
        <4> QED BY <2>1, <3>2, <3>3, <4>1, SumUnique
      <3>5. SumOf(w, u) = e[u]
        BY <3>2 DEF SumOf
      <3>6. h[t] = w[p] + SumOf(w, u)
        BY <2>4
      <3>7. g[t] = w[p] + g[u]
        BY <2>1, <2>4, AddsAt
      <3> QED BY <2>2, <3>4, <3>5, <3>6, <3>7
    <2> QED BY <2>3, <2>4
  <1>4. ASSUME NEW s \in SUBSET U, s # {}
        PROVE  SumOf(w, s \ {Pick(s)}) = h[s \ {Pick(s)}]
    <2>1. Pick(s) \in s
      BY <1>4, Picked
    <2>2. s \ {Pick(s)} \in SUBSET U /\ s \ {Pick(s)} # U
      BY <2>1
    <2> HIDE DEF h
    <2> QED BY <1>3, <2>2
  <1>5. h = [s \in SUBSET U |-> IF s = {} THEN 0 ELSE w[Pick(s)] + h[s \ {Pick(s)}]]
    BY <1>4
  <1>6. Adds(h, w, U)
    BY <1>5 DEF Adds
  <1> QED BY <1>1, <1>6

\* What a sum is, and that it does not matter which element comes first.
LEMMA SumAdds ==
  ASSUME NEW w, NEW S, IsFiniteSet(S)
  PROVE  \E g : Adds(g, w, S) /\ \A s \in SUBSET S : SumOf(w, s) = g[s]
  <1>1. PICK g : Adds(g, w, S)
    BY SumsExist
  <1>2. ASSUME NEW s \in SUBSET S PROVE SumOf(w, s) = g[s]
    <2>1. IsFiniteSet(s)
      BY FS_Subset
    <2>2. PICK h : h = (CHOOSE x : Adds(x, w, s)) /\ Adds(h, w, s)
      BY <2>1, SumsExist
    <2>3. s \in SUBSET (s \cap S) /\ \A x \in s : w[x] = w[x]
      OBVIOUS
    <2>4. h[s] = g[s]
      BY <1>1, <2>1, <2>2, <2>3, SumUnique
    <2> QED BY <2>2, <2>4 DEF SumOf
  <1> QED BY <1>1, <1>2

LEMMA SumSame ==
  ASSUME NEW w, NEW v, NEW S, IsFiniteSet(S), \A x \in S : w[x] = v[x]
  PROVE  SumOf(w, S) = SumOf(v, S)
  <1>1. PICK g : Adds(g, w, S) /\ SumOf(w, S) = g[S]
    BY SumAdds
  <1>2. PICK h : Adds(h, v, S) /\ SumOf(v, S) = h[S]
    BY SumAdds
  <1>3. S \in SUBSET (S \cap S)
    OBVIOUS
  <1> QED BY <1>1, <1>2, <1>3, SumUnique

LEMMA SumType ==
  ASSUME NEW w, NEW S, IsFiniteSet(S), \A x \in S : w[x] \in Int
  PROVE  SumOf(w, S) \in Int
  <1>0. PICK g : Adds(g, w, S) /\ \A s \in SUBSET S : SumOf(w, s) = g[s]
    BY SumAdds
  <1>1. /\ g[{}] = 0 /\ \A s \in SUBSET S : s # {} => g[s] = w[Pick(s)] + g[s \ {Pick(s)}]
        /\ SumOf(w, S) = g[S]
    <2>1. S \in SUBSET S
      OBVIOUS
    <2> QED BY <1>0, <2>1, AddsAt
  <1> DEFINE F == {s \in SUBSET S : g[s] \notin Int}
  <1> SUFFICES ASSUME F # {} PROVE FALSE
    BY <1>1
  <1>2. PICK s \in F : \A r \in F : r \subseteq s => r = s
    <2>1. F \in SUBSET SUBSET S
      OBVIOUS
    <2> HIDE DEF F
    <2> QED BY <2>1, SmallestSet
  <1>3. s # {}
    <2>1. g[{}] \in Int
      BY <1>1
    <2>2. g[s] \notin Int
      OBVIOUS
    <2> QED BY <2>1, <2>2
  <1>4. Pick(s) \in s
    BY <1>3, Picked
  <1>5. s \ {Pick(s)} \in SUBSET S /\ s \ {Pick(s)} \notin F
    BY <1>2, <1>4
  <1>6. g[s] = w[Pick(s)] + g[s \ {Pick(s)}]
    BY <1>1, <1>3
  <1> QED BY <1>4, <1>5, <1>6

LEMMA SumWithout ==
  ASSUME NEW w, NEW S, IsFiniteSet(S), \A x \in S : w[x] \in Int, NEW x \in S
  PROVE  SumOf(w, S) = w[x] + SumOf(w, S \ {x})
  <1>1. PICK g : Adds(g, w, S) /\ \A s \in SUBSET S : SumOf(w, s) = g[s]
    BY SumAdds
  <1>2. \A s \in SUBSET S : g[s] \in Int
    <2> TAKE s \in SUBSET S
    <2>1. IsFiniteSet(s)
      BY FS_Subset
    <2> QED BY <1>1, <2>1, SumType
  <1> DEFINE F == {s \in SUBSET S : \E y \in s : g[s] # w[y] + g[s \ {y}]}
  <1> SUFFICES ASSUME F # {} PROVE FALSE
    <2>1. S \in SUBSET S /\ S \ {x} \in SUBSET S
      OBVIOUS
    <2>2. SumOf(w, S) = g[S] /\ SumOf(w, S \ {x}) = g[S \ {x}]
      BY <1>1, <2>1
    <2> QED BY <2>1, <2>2
  <1>3. PICK s \in F : \A r \in F : r \subseteq s => r = s
    <2>1. F \in SUBSET SUBSET S
      OBVIOUS
    <2> HIDE DEF F
    <2> QED BY <2>1, SmallestSet
  <1>4. PICK y \in s : g[s] # w[y] + g[s \ {y}]
    BY <1>3
  <1> DEFINE p == Pick(s)
  <1>5. p \in s /\ g[s] = w[p] + g[s \ {p}]
    BY <1>1, <1>4, Picked, AddsAt
  <1>6. y # p
    BY <1>4, <1>5
  <1>7. /\ s \ {p} \in SUBSET S /\ s \ {p} \notin F
        /\ s \ {y} \in SUBSET S /\ s \ {y} \notin F
    BY <1>3, <1>4, <1>5
  <1> HIDE DEF p
  <1>8. /\ g[s \ {p}] = w[y] + g[(s \ {p}) \ {y}]
        /\ g[s \ {y}] = w[p] + g[(s \ {y}) \ {p}]
    BY <1>4, <1>5, <1>6, <1>7
  <1>9. (s \ {p}) \ {y} = (s \ {y}) \ {p} /\ (s \ {y}) \ {p} \in SUBSET S
    OBVIOUS
  <1>10. w[y] \in Int /\ w[p] \in Int /\ g[(s \ {y}) \ {p}] \in Int
    BY <1>2, <1>4, <1>5, <1>9
  <1>11. g[(s \ {p}) \ {y}] = g[(s \ {y}) \ {p}]
    BY <1>9
  <1> QED BY <1>4, <1>5, <1>8, <1>10, <1>11

-----------------------------------------------------------------------------
(* The bytes held *)

Weights == [k \in DOMAIN index.data |-> Size(k, index.data[k].value)]

LEMMA TotalIsSum ==
  ASSUME IsFiniteSet(DOMAIN index.data)
  PROVE  TotalBytes = SumOf(Weights, DOMAIN index.data)
  <1> DEFINE D == DOMAIN index.data
             Step(g) == [s \in SUBSET D |->
                           IF s = {} THEN 0
                           ELSE LET x == CHOOSE x \in s : TRUE
                                IN  Size(x, index.data[x].value) + g[s \ {x}]]
             total == CHOOSE g : g = Step(g)
  <1>1. TotalBytes = total[D]
    BY DEF TotalBytes, MapThenSumSet, MapThenFoldSet
  <1>2. ASSUME NEW g PROVE Adds(g, Weights, D) <=> g = Step(g)
    <2>1. \A s \in SUBSET D : s # {} =>
            Pick(s) \in D /\ Weights[Pick(s)] = Size(Pick(s), index.data[Pick(s)].value)
      BY Picked DEF Weights
    <2>2. [s \in SUBSET D |-> IF s = {} THEN 0 ELSE Weights[Pick(s)] + g[s \ {Pick(s)}]]
            = Step(g)
      BY <2>1 DEF Pick
    <2> QED BY <2>2 DEF Adds
  <1>3. PICK w, S : w = Weights /\ S = D
    OBVIOUS
  <1>4. PICK g : Adds(g, w, S) /\ SumOf(w, S) = g[S]
    BY <1>3, SumAdds
  <1>5. PICK t : t = total
    OBVIOUS
  <1>6. t = Step(t)
    <2> HIDE DEF Step
    <2>1. g = Step(g)
      BY <1>2, <1>3, <1>4
    <2>2. t = CHOOSE x : x = Step(x)
      BY <1>5
    <2> QED BY <2>1, <2>2
  <1>7. Adds(t, w, S)
    BY <1>2, <1>3, <1>6
  <1>8. t[S] = g[S]
    <2>1. S \in SUBSET (S \cap S) /\ \A x \in S : w[x] = w[x]
      OBVIOUS
    <2>2. IsFiniteSet(S)
      BY <1>3
    <2> QED BY <1>4, <1>7, <2>1, <2>2, SumUnique
  <1>9. TotalBytes = t[S]
    BY <1>1, <1>3, <1>5
  <1> QED BY <1>3, <1>4, <1>8, <1>9

LEMMA DataFinite ==
  ASSUME Inv
  PROVE  IsFiniteSet(DOMAIN index.data)
  <1> DEFINE s == index.lru
  <1>1. s \in Seq(Keys) /\ Range(s) = DOMAIN index.data
    BY IndexSound DEF Sound, IsIndex, InStep, LruInStep
  <1>2. Len(s) \in Nat /\ DOMAIN s = 1..Len(s) /\ s \in [1..Len(s) -> Keys]
    BY <1>1, LenProperties
  <1>3. s \in Surjection(1..Len(s), Range(s))
    BY <1>2 DEF Surjection, Range
  <1>4. IsFiniteSet(1..Len(s))
    BY <1>2, FS_Interval
  <1> HIDE DEF s
  <1> QED BY <1>1, <1>3, <1>4, FS_Surjection

\* TotalBytes is a sum of integers over a finite set.
BytesHeld ==
  /\ TotalBytes = SumOf(Weights, DOMAIN index.data)
  /\ IsFiniteSet(DOMAIN index.data)
  /\ \A k \in DOMAIN index.data :
       Weights[k] = Size(k, index.data[k].value) /\ Weights[k] \in Int
  /\ TotalBytes \in Int

LEMMA BytesAreHeld == Inv => BytesHeld
  <1> SUFFICES ASSUME Inv PROVE BytesHeld
    OBVIOUS
  <1>1. IsFiniteSet(DOMAIN index.data)
    BY DataFinite
  <1>2. TotalBytes = SumOf(Weights, DOMAIN index.data)
    BY <1>1, TotalIsSum
  <1>3. \A k \in DOMAIN index.data :
          Weights[k] = Size(k, index.data[k].value) /\ Weights[k] \in Int
    <2> TAKE k \in DOMAIN index.data
    <2>1. k \in Keys /\ index.data[k].value \in Value
      BY EntryType DEF Present, Entry
    <2>2. Size(k, index.data[k].value) \in Nat
      BY <2>1, SizeType
    <2> QED BY <2>2 DEF Weights
  <1>4. SumOf(Weights, DOMAIN index.data) \in Int
    <2>1. PICK w, S : w = Weights /\ S = DOMAIN index.data
      OBVIOUS
    <2>2. IsFiniteSet(S) /\ \A x \in S : w[x] \in Int
      BY <1>1, <1>3, <2>1
    <2> QED BY <2>1, <2>2, SumType
  <1> QED BY <1>1, <1>2, <1>3, <1>4 DEF BytesHeld

LEMMA BytesHeldNext == Inv' => BytesHeld'
  BY BytesAreHeld, PTL

\* An entry takes its bytes with it, ...
LEMMA RemovedBytes ==
  ASSUME Inv, Inv', NEW k, Removed(k)
  PROVE  TotalBytes' =
           TotalBytes - (IF Present(k) THEN Size(k, index.data[k].value) ELSE 0)
  <1>1. PICK w, S, v, T : /\ w = Weights /\ S = DOMAIN index.data
                          /\ v = Weights' /\ T = DOMAIN index'.data
    OBVIOUS
  <1>2. /\ TotalBytes = SumOf(w, S) /\ TotalBytes' = SumOf(v, T)
        /\ TotalBytes \in Int /\ TotalBytes' \in Int
        /\ IsFiniteSet(S) /\ IsFiniteSet(T) /\ \A x \in S : w[x] \in Int
    BY <1>1, BytesAreHeld, BytesHeldNext DEF BytesHeld
  <1>3. T = S \ {k} /\ \A x \in T : v[x] = w[x]
    BY <1>1, BytesAreHeld, BytesHeldNext DEF BytesHeld, Removed
  <1>4. SumOf(v, T) = SumOf(w, T)
    BY <1>2, <1>3, SumSame
  <1>5. CASE k \in S
    <2>1. SumOf(w, S) = w[k] + SumOf(w, S \ {k})
      BY <1>2, <1>5, SumWithout
    <2>2. w[k] = Size(k, index.data[k].value) /\ w[k] \in Int /\ Present(k)
      BY <1>1, <1>5, BytesAreHeld DEF BytesHeld, Present
    <2> QED BY <1>2, <1>3, <1>4, <2>1, <2>2
  <1>6. CASE k \notin S
    <2>1. T = S
      BY <1>3, <1>6
    <2>2. ~Present(k)
      BY <1>1, <1>6 DEF Present
    <2> QED BY <1>2, <1>4, <2>1, <2>2
  <1> QED BY <1>5, <1>6

\* ... one that is bound brings its own, in place of those of its predecessor, ...
LEMMA StoredBytes ==
  ASSUME Inv, Inv', NEW k \in Keys, NEW e, Stored(k, e)
  PROVE  /\ TotalBytes' =
              TotalBytes - (IF Present(k) THEN Size(k, index.data[k].value) ELSE 0)
                + Size(k, e.value)
         /\ Size(k, e.value) \in Int
  <1>1. PICK w, S, v, T : /\ w = Weights /\ S = DOMAIN index.data
                          /\ v = Weights' /\ T = DOMAIN index'.data
    OBVIOUS
  <1>2. /\ TotalBytes = SumOf(w, S) /\ TotalBytes' = SumOf(v, T)
        /\ IsFiniteSet(S) /\ IsFiniteSet(T)
        /\ \A x \in S : w[x] \in Int
        /\ \A x \in T : v[x] \in Int
    BY <1>1, BytesAreHeld, BytesHeldNext DEF BytesHeld
  <1>3. /\ T = S \cup {k} /\ v[k] = Size(k, e.value) /\ v[k] \in Int
        /\ \A x \in S \ {k} : v[x] = w[x]
    BY <1>1, BytesAreHeld, BytesHeldNext DEF BytesHeld, Stored
  <1>4. SumOf(v, T) = v[k] + SumOf(v, T \ {k})
    <2>1. k \in T
      BY <1>3
    <2> QED BY <1>2, <2>1, SumWithout
  <1>5. T \ {k} = S \ {k} /\ IsFiniteSet(S \ {k})
    BY <1>2, <1>3, FS_RemoveElement
  <1>6. SumOf(v, S \ {k}) = SumOf(w, S \ {k})
    BY <1>3, <1>5, SumSame
  <1>7. PICK rest : rest = SumOf(w, S \ {k})
    OBVIOUS
  <1>8. rest \in Int /\ TotalBytes' = v[k] + rest
    <2>1. SumOf(w, S \ {k}) \in Int
      BY <1>2, <1>5, SumType
    <2>2. SumOf(v, T \ {k}) = rest
      BY <1>5, <1>6, <1>7
    <2> QED BY <1>2, <1>4, <1>7, <2>1, <2>2
  <1>9. CASE k \in S
    <2>1. TotalBytes = w[k] + rest
      BY <1>2, <1>7, <1>9, SumWithout
    <2>2. w[k] = Size(k, index.data[k].value) /\ w[k] \in Int /\ Present(k)
      BY <1>1, <1>9, BytesAreHeld DEF BytesHeld, Present
    <2> QED BY <1>3, <1>8, <2>1, <2>2
  <1>10. CASE k \notin S
    <2>1. TotalBytes = rest
      <3>1. S \ {k} = S
        BY <1>10
      <3> QED BY <1>2, <1>7, <3>1
    <2>2. ~Present(k)
      BY <1>1, <1>10 DEF Present
    <2> QED BY <1>3, <1>8, <2>1, <2>2
  <1> QED BY <1>9, <1>10

\* ... a mark is free, and an empty index holds nothing.
LEMMA SameBytes ==
  ASSUME Inv, Inv', DOMAIN index'.data = DOMAIN index.data,
         \A k \in DOMAIN index.data : index'.data[k].value = index.data[k].value
  PROVE  TotalBytes' = TotalBytes
  <1>1. PICK w, S, v : w = Weights /\ S = DOMAIN index.data /\ v = Weights'
    OBVIOUS
  <1>2. /\ TotalBytes = SumOf(w, S) /\ TotalBytes' = SumOf(v, S) /\ IsFiniteSet(S)
        /\ \A x \in S : w[x] = v[x]
    BY <1>1, BytesAreHeld, BytesHeldNext DEF BytesHeld
  <1> QED BY <1>2, SumSame

LEMMA NoBytes == Inv /\ DOMAIN index.data = {} => TotalBytes = 0
  <1> SUFFICES ASSUME Inv, DOMAIN index.data = {} PROVE TotalBytes = 0
    OBVIOUS
  <1>1. PICK v : v = Weights
    OBVIOUS
  <1>2. TotalBytes = SumOf(v, {}) /\ IsFiniteSet({})
    BY <1>1, BytesAreHeld DEF BytesHeld
  <1>3. PICK g : Adds(g, v, {}) /\ SumOf(v, {}) = g[{}]
    BY <1>2, SumAdds
  <1> QED BY <1>2, <1>3, AddsAt

LEMMA NoBytesNext == (Inv /\ DOMAIN index.data = {} => TotalBytes = 0)'
  BY NoBytes, PTL

-----------------------------------------------------------------------------
(* The books *)

\* A store in progress knows by how much it will change the bytes of its key,
\* as long as the key is there; in any case it will add no more than its entry.
GrowKnown ==
  pc = "storing" =>
    /\ Present(job.key) =>
         job.grow = Size(job.key, job.entry.value)
                      - Size(job.key, index.data[job.key].value)
    /\ job.grow <= Size(job.key, job.entry.value)

LEMMA DoSetGrows ==
  ASSUME Inv, NEW op, NEW k \in Keys, NEW v \in Values, NEW ttl, NEW cas,
         DoSet(op, k, v, ttl, cas)
  PROVE  GrowKnown'
  <1>1. PICK old : old = IF Present(k) THEN Size(k, index.data[k].value) ELSE 0
    OBVIOUS
  <1>2. StartStore(op, k, NewEntry(v, clock, ttl), Size(k, v) - old, cas)
    BY <1>1 DEF DoSet
  <1>3. /\ job'.key = k /\ job'.grow = Size(k, v) - old /\ job'.entry.value = v
        /\ index' = index
    BY <1>2 DEF StartStore, NewEntry
  <1>4. old \in Nat /\ Size(k, v) \in Nat
    <2>1. v \in Value
      BY EntriesAssumption
    <2>2. Present(k) => index.data[k].value \in Value
      BY EntryType DEF Entry
    <2> QED BY <1>1, <2>1, <2>2, SizeType
  <1>5. Size(k, v) - old <= Size(k, v)
    BY <1>4
  <1> QED BY <1>1, <1>3, <1>5 DEF GrowKnown, Present, Size

LEMMA AppendPrependGrows ==
  ASSUME Inv, NEW k \in Keys, NEW op, NEW v \in Values, AppendPrepend(op, k, v)
  PROVE  pc' = "storing" => GrowKnown'
  <1> SUFFICES ASSUME pc' = "storing" PROVE GrowKnown'
    OBVIOUS
  <1> DEFINE old == index.data[k].value
             new == IF op = "Prepend" THEN Concat(v, old) ELSE Concat(old, v)
  <1>1. Live(k) /\ StartStore(op, k, [index.data[k] EXCEPT !.value = new], v.len, 0)
    BY DEF AppendPrepend, Refuse, IdleWrite, Idle
  <1>2. index.data[k] \in Entry /\ old \in Value /\ v \in Value
    BY <1>1, EntryType, EntriesAssumption DEF Live, Entry
  <1>3. old.len \in Nat /\ v.len \in Nat /\ KeyLen[k] \in Nat
    BY <1>2, WorkerAssumption DEF Value
  <1>4. new.len = old.len + v.len
    BY <1>3 DEF Concat
  <1>5. [index.data[k] EXCEPT !.value = new].value = new
    BY <1>2 DEF Entry
  <1>6. /\ job'.key = k /\ job'.grow = v.len /\ job'.entry.value = new
        /\ index'.data[k].value = old
    BY <1>1, <1>5 DEF StartStore
  <1> HIDE DEF new, old
  <1>7. v.len = Size(k, new) - Size(k, old) /\ v.len <= Size(k, new)
    BY <1>3, <1>4 DEF Size
  <1> QED BY <1>6, <1>7 DEF GrowKnown, Size

LEMMA RequestGrows ==
  ASSUME Inv, Request
  PROVE  GrowKnown'
  <1> SUFFICES ASSUME pc' = "storing" PROVE GrowKnown'
    BY DEF GrowKnown
  <1>1. PICK k \in Keys :
          \/ Get(k)
          \/ Delete(k)
          \/ \E v \in Values, ttl \in TTLs :
               \/ Set(k, v, ttl)
               \/ Add(k, v, ttl)
               \/ Replace(k, v, ttl)
               \/ \E cas \in CasStart..MaxCas : Cas(k, v, ttl, cas)
          \/ \E ttl \in TTLs : Touch(k, ttl)
          \/ \E delta \in Deltas, op \in {"Incr", "Decr"} : IncrDecr(op, k, delta)
          \/ \E v \in Values, op \in {"Append", "Prepend"} : AppendPrepend(op, k, v)
    BY DEF Request
  <1>2. \A op, err : ~(Idle /\ Refuse(op, k, err))
    BY DEF Refuse, Idle
  <1>3. ~Get(k) /\ ~Delete(k)
    BY <1>2 DEF Get, Delete, Idle
  <1>4. ~\E ttl \in TTLs : Touch(k, ttl)
    BY <1>2 DEF Touch, IdleWrite, Idle, Update
  <1>5. ~\E delta \in Deltas, op \in {"Incr", "Decr"} : IncrDecr(op, k, delta)
    BY <1>2 DEF IncrDecr, IdleWrite, Idle, Update
  <1>6. CASE \E v \in Values, ttl \in TTLs :
               \/ Set(k, v, ttl) \/ Add(k, v, ttl) \/ Replace(k, v, ttl)
               \/ \E cas \in CasStart..MaxCas : Cas(k, v, ttl, cas)
    BY <1>2, <1>6, DoSetGrows DEF Set, Add, Replace, Cas, IdleWrite
  <1>7. CASE \E v \in Values, op \in {"Append", "Prepend"} : AppendPrepend(op, k, v)
    BY <1>7, AppendPrependGrows
  <1> QED BY <1>1, <1>3, <1>4, <1>5, <1>6, <1>7

\* Making room for a store may take its key away, but never changes the entry.
LEMMA StepGrows ==
  ASSUME Inv, GrowKnown, [Next]_vars
  PROVE  GrowKnown'
  <1>1. CASE Request
    BY <1>1, RequestGrows
  <1>2. CASE EvictOldest
    <2>1. PICK k : Removed(k)
      BY <1>2, DeleteKeyRemoves DEF EvictOldest
    <2>2. pc' = pc /\ job' = job
      BY <1>2 DEF EvictOldest
    <2>3. \A j \in DOMAIN index'.data :
            j \in DOMAIN index.data /\ index'.data[j] = index.data[j]
      BY <2>1 DEF Removed
    <2> QED BY <2>2, <2>3 DEF GrowKnown, Present, Size
  <1>3. CASE FlushAll \/ FinishStore \/ Maintenance \/ Tick
    BY <1>3 DEF FlushAll, FinishStore, Maintenance, ExpireKeys, ExpireOne, ExpireDone,
                Tick, Idle, GrowKnown
  <1>4. CASE UNCHANGED vars
    BY <1>4 DEF vars, GrowKnown, Present, Size
  <1> QED BY <1>1, <1>2, <1>3, <1>4 DEF Next

\* A step that leaves the books as they are, ...
LEMMA DriftSame ==
  ASSUME Inv, Inv', index' = index, usedMemory' = usedMemory
  PROVE  Drift' = Drift
  BY SameBytes DEF Drift

\* ... one that takes the bytes it removes off the books, ...
LEMMA DriftRemoved ==
  ASSUME Inv, Inv', NEW k, Present(k), Removed(k),
         usedMemory' = usedMemory - Size(k, index.data[k].value)
  PROVE  Drift' = Drift
  <1>1. /\ usedMemory \in Int /\ TotalBytes \in Int
        /\ Size(k, index.data[k].value) \in Int
    BY BytesAreHeld DEF BytesHeld, Inv, TypeOK, Present
  <1>2. TotalBytes' = TotalBytes - Size(k, index.data[k].value)
    BY RemovedBytes
  <1> QED BY <1>1, <1>2 DEF Drift

\* ... and one that adds to them what an entry has over its predecessor.
LEMMA DriftStored ==
  ASSUME Inv, Inv', NEW k \in Keys, NEW e, Present(k), Stored(k, e),
         usedMemory' = usedMemory + (Size(k, e.value) - Size(k, index.data[k].value))
  PROVE  Drift' = Drift
  <1>1. /\ usedMemory \in Int /\ TotalBytes \in Int
        /\ Size(k, index.data[k].value) \in Int
    BY BytesAreHeld DEF BytesHeld, Inv, TypeOK, Present
  <1>2. /\ TotalBytes' = TotalBytes - Size(k, index.data[k].value) + Size(k, e.value)
        /\ Size(k, e.value) \in Int
    BY StoredBytes
  <1> QED BY <1>1, <1>2 DEF Drift

LEMMA GetDrift ==
  ASSUME Inv, Inv', NEW k \in Keys, Get(k)
  PROVE  Drift' = Drift
  <1>1. CASE ~Present(k)
    BY <1>1, DriftSame DEF Get, Gone, Live, Refuse
  <1>2. CASE Gone(k)
    BY <1>2, DeleteKeyRemoves, DriftRemoved DEF Get, Gone, Live
  <1>3. CASE Live(k)
    <2>1. Marked(k)
      BY <1>3, GetMarks
    <2>2. \A j \in DOMAIN index.data : index'.data[j].value = index.data[j].value
      <3>1. \A j \in DOMAIN index.data : index.data[j] \in Entry
        BY EntryType DEF Present
      <3> QED BY <2>1, <3>1 DEF Marked, Entry
    <2>3. TotalBytes' = TotalBytes
      BY <2>1, <2>2, SameBytes DEF Marked
    <2>4. usedMemory' = usedMemory
      BY <1>3 DEF Get, Live, Refuse
    <2> QED BY <2>3, <2>4 DEF Drift
  <1> QED BY <1>1, <1>2, <1>3 DEF Live

LEMMA UpdateDrift ==
  ASSUME Inv, Inv', NEW op, NEW k \in Keys, Present(k), NEW entry \in Entry, NEW value,
         Update(op, k, entry, value),
         usedMemory' = usedMemory + (entry.value.len - index.data[k].value.len)
  PROVE  Drift' = Drift
  <1> DEFINE e == [entry EXCEPT !.cas = casCounter']
  <1>1. Stored(k, e)
    BY UpdateStores
  <1>2. e.value = entry.value
    BY DEF Entry
  <1>3. KeyLen[k] \in Nat /\ entry.value.len \in Nat /\ index.data[k].value.len \in Nat
    BY EntryType, WorkerAssumption DEF Entry, Value
  <1> HIDE DEF e
  <1>4. entry.value.len - index.data[k].value.len
          = Size(k, e.value) - Size(k, index.data[k].value)
    BY <1>2, <1>3 DEF Size
  <1> QED BY <1>1, <1>4, DriftStored

LEMMA TouchDrift ==
  ASSUME Inv, Inv', NEW k \in Keys, NEW ttl \in TTLs, Touch(k, ttl)
  PROVE  Drift' = Drift
  <1>1. CASE ~Live(k)
    BY <1>1, DriftSame DEF Touch, Refuse
  <1>2. CASE Live(k)
    <2> DEFINE e == [index.data[k] EXCEPT !.soft = SoftExpiry(clock, ttl),
                                          !.hard = HardExpiry(clock, ttl)]
    <2>1. Update("Touch", k, e, NoValue) /\ usedMemory' = usedMemory /\ Present(k)
      BY <1>2 DEF Touch, Live
    <2>2. e \in Entry /\ index.data[k] \in Entry
      BY <2>1, TouchedType, EntryType
    <2>3. e.value = index.data[k].value
      BY <2>2 DEF Entry
    <2> HIDE DEF e
    <2>4. usedMemory \in Int /\ e.value.len \in Nat
      BY <2>2 DEF Entry, Value, Inv, TypeOK
    <2>5. usedMemory' = usedMemory + (e.value.len - index.data[k].value.len)
      BY <2>1, <2>3, <2>4
    <2> QED BY <2>1, <2>2, <2>5, UpdateDrift
  <1> QED BY <1>1, <1>2

LEMMA IncrDecrDrift ==
  ASSUME Inv, Inv', NEW k \in Keys, NEW op, NEW delta \in Deltas, IncrDecr(op, k, delta)
  PROVE  Drift' = Drift
  <1>1. CASE \E err : Refuse(op, k, err)
    BY <1>1, DriftSame DEF Refuse
  <1>2. CASE Live(k) /\ index.data[k].value.num # NotNumeric
    <2> DEFINE v == Counted(op, index.data[k].value.num, delta)
               e == [index.data[k] EXCEPT !.value = v]
    <2>1. CASE Update(op, k, e, v)
               /\ usedMemory' = usedMemory + (v.len - index.data[k].value.len)
      <3>1. Present(k)
        BY <1>2 DEF Live
      <3>2. e \in Entry
        BY <1>2, <3>1, CountedEntryType
      <3>3. e.value = v
        BY <3>1, EntryType DEF Entry
      <3> HIDE DEF e, v
      <3> QED BY <2>1, <3>1, <3>2, <3>3, UpdateDrift
    <2> QED BY <1>1, <1>2, <2>1 DEF IncrDecr
  <1> QED BY <1>1, <1>2 DEF IncrDecr

LEMMA RequestDrift ==
  ASSUME Inv, Inv', Request
  PROVE  Drift' = Drift
  <1>1. PICK k \in Keys :
          \/ Get(k)
          \/ Delete(k)
          \/ \E v \in Values, ttl \in TTLs :
               \/ Set(k, v, ttl)
               \/ Add(k, v, ttl)
               \/ Replace(k, v, ttl)
               \/ \E cas \in CasStart..MaxCas : Cas(k, v, ttl, cas)
          \/ \E ttl \in TTLs : Touch(k, ttl)
          \/ \E delta \in Deltas, op \in {"Incr", "Decr"} : IncrDecr(op, k, delta)
          \/ \E v \in Values, op \in {"Append", "Prepend"} : AppendPrepend(op, k, v)
    BY DEF Request
  <1>2. CASE \/ \E op, err : Refuse(op, k, err)
             \/ \E op, e, grow, cas : StartStore(op, k, e, grow, cas)
    BY <1>2, DriftSame DEF Refuse, StartStore
  <1>3. CASE Get(k)
    BY <1>3, GetDrift
  <1>4. CASE Delete(k)
    <2>1. CASE Present(k)
      BY <1>4, <2>1, DeleteKeyRemoves, DriftRemoved DEF Delete
    <2> QED BY <1>2, <1>4, <2>1 DEF Delete
  <1>5. CASE \E v \in Values, ttl \in TTLs :
               \/ Set(k, v, ttl) \/ Add(k, v, ttl) \/ Replace(k, v, ttl)
               \/ \E cas \in CasStart..MaxCas : Cas(k, v, ttl, cas)
    BY <1>2, <1>5 DEF Set, Add, Replace, Cas, DoSet
  <1>6. CASE \E ttl \in TTLs : Touch(k, ttl)
    BY <1>6, TouchDrift
  <1>7. CASE \E delta \in Deltas, op \in {"Incr", "Decr"} : IncrDecr(op, k, delta)
    BY <1>7, IncrDecrDrift
  <1>8. CASE \E v \in Values, op \in {"Append", "Prepend"} : AppendPrepend(op, k, v)
    BY <1>2, <1>8 DEF AppendPrepend
  <1> QED BY <1>1, <1>3, <1>4, <1>5, <1>6, <1>7, <1>8

\* The tail of a store: right if its key was there to be replaced; else the books
\* gain what was to be added, the entry its whole size.
LEMMA FinishStoreDrift ==
  ASSUME Inv, Inv', GrowKnown, FinishStore
  PROVE  Drift' = Drift \/ /\ job.key \notin DOMAIN index.data
                           /\ Drift' = Drift + (Size(job.key, job.entry.value) - job.grow)
  <1>1. PICK k, e : k = job.key /\ e = [job.entry EXCEPT !.cas = casCounter']
    OBVIOUS
  <1>2. /\ job \in Job /\ k \in Keys /\ Stored(k, e) /\ e.value = job.entry.value
        /\ job.grow \in Int /\ usedMemory' = usedMemory + job.grow /\ pc = "storing"
    BY <1>1, FinishStoreStores DEF FinishStore, Job, Entry
  <1>3. CASE Present(k)
    BY <1>1, <1>2, <1>3, DriftStored DEF GrowKnown
  <1>4. CASE ~Present(k)
    <2>1. usedMemory \in Int /\ TotalBytes \in Int
      BY BytesAreHeld DEF BytesHeld, Inv, TypeOK
    <2>2. TotalBytes' = TotalBytes - 0 + Size(k, e.value) /\ Size(k, e.value) \in Int
      BY <1>2, <1>4, StoredBytes
    <2>3. Drift' = Drift + (Size(k, e.value) - job.grow)
      BY <1>2, <2>1, <2>2 DEF Drift
    <2> QED BY <1>1, <1>2, <1>4, <2>3 DEF Present
  <1> QED BY <1>3, <1>4

LEMMA StepDrift ==
  ASSUME Inv, Inv', GrowKnown, [Next]_vars
  PROVE  \/ Drift' = Drift
         \/ /\ pc = "storing" /\ pc' = "select"
            /\ job.key \notin DOMAIN index.data
            /\ Drift' = Drift + (Size(job.key, job.entry.value) - job.grow)
         \/ DOMAIN index'.data = {} /\ Drift' = 0
  <1>1. CASE Request
    BY <1>1, RequestDrift
  <1>2. CASE FlushAll
    <2>1. DOMAIN index'.data = {} /\ usedMemory' = 0
      BY <1>2 DEF FlushAll, NewIndex, EmptyMap
    <2>2. TotalBytes' = 0
      BY <2>1, NoBytesNext
    <2> QED BY <2>1, <2>2 DEF Drift
  <1>3. CASE EvictOldest
    <2>1. PICK k : k = GetOldest(index)
      OBVIOUS
    <2>2. Present(k)
      BY <1>3, <2>1, IndexSound, OldestPresent DEF EvictOldest, MustEvict, Present
    <2>3. index' = DeleteKey(index, k)
          /\ usedMemory' = usedMemory - Size(k, index.data[k].value)
      BY <1>3, <2>1 DEF EvictOldest
    <2> QED BY <2>2, <2>3, DeleteKeyRemoves, DriftRemoved
  <1>4. CASE FinishStore
    <2>1. pc = "storing" /\ pc' = "select"
      BY <1>4 DEF FinishStore
    <2> QED BY <1>4, <2>1, FinishStoreDrift
  <1>5. CASE ExpireOne
    <2>1. PICK k : /\ index' = DeleteKey(index, k)
                   /\ usedMemory' = IF Present(k)
                                    THEN usedMemory - Size(k, index.data[k].value)
                                    ELSE usedMemory
      BY <1>5 DEF ExpireOne
    <2>2. CASE Present(k)
      BY <2>1, <2>2, DeleteKeyRemoves, DriftRemoved
    <2>3. CASE ~Present(k)
      BY <2>1, <2>3, DriftSame DEF DeleteKey, Present
    <2> QED BY <2>2, <2>3
  <1>6. CASE ExpireKeys \/ ExpireDone \/ Tick \/ UNCHANGED vars
    BY <1>6, DriftSame DEF ExpireKeys, ExpireDone, Tick, vars
  <1> QED BY <1>1, <1>2, <1>3, <1>4, <1>5, <1>6 DEF Next, Maintenance

\* usedMemory follows the bytes held through every path, but for a store that
\* evicts the entry it replaces, which forgets that entry's size until a flush.
THEOREM BooksFollowBytes == Spec => DriftOnlyBySelfEviction
  <1>1. Init => GrowKnown
    BY DEF Init, GrowKnown
  <1>2. Inv /\ GrowKnown /\ [Next]_vars => GrowKnown'
    BY StepGrows
  <1>3. Inv /\ Inv' /\ GrowKnown /\ [Next]_vars =>
          [Drift' # Drift =>
             \/ /\ pc = "storing" /\ pc' = "select"
                /\ job.key \notin DOMAIN index.data
                /\ Drift' = Drift + (Size(job.key, job.entry.value) - job.grow)
             \/ DOMAIN index'.data = {} /\ Drift' = 0]_vars
    BY StepDrift
  <1> QED BY <1>1, <1>2, <1>3, SpecInv, PTL DEF Spec, DriftOnlyBySelfEviction

\* The books err on one side only: they never show more than the worker holds, so
\* that nothing is evicted while there is room.
BooksWithin == usedMemory <= TotalBytes

LEMMA StepWithin ==
  ASSUME Inv, Inv', GrowKnown, BooksWithin, [Next]_vars
  PROVE  BooksWithin'
  <1>1. /\ usedMemory \in Int /\ TotalBytes \in Int
        /\ usedMemory' \in Int /\ TotalBytes' \in Int
    BY BytesAreHeld, BytesHeldNext DEF BytesHeld, Inv, TypeOK
  <1>2. Drift' >= 0
    <2>1. Drift \in Int /\ Drift >= 0
      BY <1>1 DEF Drift, BooksWithin
    <2>2. CASE Drift' = Drift \/ Drift' = 0
      BY <2>1, <2>2
    <2>3. CASE /\ pc = "storing"
               /\ Drift' = Drift + (Size(job.key, job.entry.value) - job.grow)
      <3>1. job.grow \in Int /\ Size(job.key, job.entry.value) \in Nat
        BY <2>3, SizeType DEF Inv, TypeOK, Job, Entry
      <3>2. job.grow <= Size(job.key, job.entry.value)
        BY <2>3 DEF GrowKnown
      <3> QED BY <2>1, <2>3, <3>1, <3>2
    <2> QED BY <2>2, <2>3, StepDrift
  <1>3. TotalBytes' - usedMemory' >= 0
    BY <1>2 DEF Drift
  <1>4. usedMemory' <= TotalBytes'
    <2>1. PICK u, t : u = usedMemory' /\ t = TotalBytes'
      OBVIOUS
    <2>2. u \in Int /\ t \in Int /\ t - u >= 0
      BY <1>1, <1>3, <2>1
    <2>3. u <= t
      BY <2>2
    <2> QED BY <2>1, <2>3
  <1> QED BY <1>4 DEF BooksWithin

THEOREM BooksNeverOverstate == Spec => []BooksWithin
  <1>1. Init => GrowKnown /\ BooksWithin
    <2> SUFFICES ASSUME Init PROVE GrowKnown /\ BooksWithin
      OBVIOUS
    <2>1. Inv /\ usedMemory = 0 /\ DOMAIN index.data = {} /\ pc = "select"
      BY InitInv DEF Init, NewIndex, EmptyMap
    <2>2. TotalBytes = 0
      BY <2>1, NoBytes
    <2> QED BY <2>1, <2>2 DEF GrowKnown, BooksWithin
  <1>2. Inv /\ Inv' /\ GrowKnown /\ BooksWithin /\ [Next]_vars
          => GrowKnown' /\ BooksWithin'
    BY StepGrows, StepWithin
  <1> QED BY <1>1, <1>2, SpecInv, PTL DEF Spec
=============================================================================
