------------------------------- MODULE Worker -------------------------------
(***************************************************************************)
(* One cache worker: pkg/tqmemory/worker.go.                               *)
(*                                                                         *)
(* A worker is a goroutine that owns an index and serves one request, or   *)
(* one tick of its maintenance ticker, at a time.  An operation that       *)
(* changes state in one go is one action.  The two loops of the code, the  *)
(* eviction loop inside a store and the expiry loop of the ticker, take    *)
(* one step per iteration under a program counter; no other operation      *)
(* runs between them, as the goroutine is busy.                            *)
(*                                                                         *)
(* Time passes between handlers, not inside one.                           *)
(***************************************************************************)
EXTENDS Index, Entries

CONSTANTS
  KeyLen,        \* the lengths of the keys in bytes
  MaxMemory,     \* bytes of this worker, 0 for unlimited
  StartClock,    \* wall clock when the worker starts
  CasStart       \* first value of the CAS counter: that clock in nanoseconds

CONSTANTS        \* bounds of the model, none of them in the code
  MaxClock,      \* time stops here
  MaxCas,        \* operations that issue a CAS token stop here
  MaxLen         \* no value grows longer than this by appending

ASSUME WorkerAssumption ==
  /\ KeyLen \in [Keys -> Nat] /\ MaxMemory \in Nat
  /\ StartClock \in Nat /\ CasStart \in Nat
  /\ MaxClock \in Nat /\ MaxCas \in Nat /\ CasStart <= MaxCas /\ MaxLen \in Nat

VARIABLES
  index,         \* Worker.index
  usedMemory,    \* Worker.usedMemory
  casCounter,    \* Worker.casCounter
  evictions,     \* Worker.evictions
  clock,         \* the wall clock
  pc,            \* where the goroutine is: "select", "storing" or "expiring"
  job,           \* the store in progress: the locals of doSet and its kin
  reply          \* the last response the worker sent

vars == <<index, usedMemory, casCounter, evictions, clock, pc, job, reply>>

-----------------------------------------------------------------------------

Job == [op : {"Set", "Add", "Replace", "Cas", "Append", "Prepend"},
        key : Keys, entry : Entry, grow : Int, existingCas : Nat]
NoJob == [op |-> "none"]

Size(k, v) == KeyLen[k] + v.len

Present(k) == k \in DOMAIN index.data
Gone(k) == Present(k) /\ HardExpired(index.data[k], clock)
Live(k) == Present(k) /\ ~Gone(k)

-----------------------------------------------------------------------------
(* Steps shared by the handlers *)

\* A worker is at its select and takes a request; requests that will issue a
\* token stop at the bound.
Idle == pc = "select"
IdleWrite == Idle /\ casCounter < MaxCas

Answer(op, k, err) == reply' = [NoReply EXCEPT !.op = op, !.key = k, !.err = err]

\* A response that changes nothing.
Refuse(op, k, err) ==
  /\ Answer(op, k, err)
  /\ UNCHANGED <<index, usedMemory, casCounter, evictions, clock, pc, job>>

\* The head of doSet and doAppendPrepend, up to the eviction loop.
StartStore(op, k, entry, grow, existingCas) ==
  /\ pc' = "storing"
  /\ job' = [op |-> op, key |-> k, entry |-> entry, grow |-> grow,
             existingCas |-> existingCas]
  /\ UNCHANGED <<index, usedMemory, casCounter, evictions, clock, reply>>

\* doSet: the new size is compared with that of the entry it replaces, also
\* of one that has expired.
DoSet(op, k, v, ttl, existingCas) ==
  LET oldSize == IF Present(k) THEN Size(k, index.data[k].value) ELSE 0
  IN StartStore(op, k, NewEntry(v, clock, ttl), Size(k, v) - oldSize, existingCas)

\* Mutant: eviction starts only once the limit has been passed.
MustEvictLate ==
  /\ MaxMemory > 0 /\ job.grow > 0
  /\ usedMemory > MaxMemory
  /\ index.lru # <<>>

\* The condition of the loop in evictLRU.
MustEvict ==
  /\ MaxMemory > 0 /\ job.grow > 0
  /\ usedMemory + job.grow > MaxMemory
  /\ index.lru # <<>>

EvictOldest ==
  /\ pc = "storing" /\ MustEvict
  /\ LET k == GetOldest(index)
     IN /\ usedMemory' = usedMemory - Size(k, index.data[k].value)
        /\ index' = DeleteKey(index, k)
  /\ evictions' = evictions + 1
  /\ UNCHANGED <<casCounter, clock, pc, job, reply>>

\* The tail of doSet and doAppendPrepend, after the eviction loop.
FinishStore ==
  /\ pc = "storing" /\ ~MustEvict
  /\ casCounter' = casCounter + 1
  /\ index' = SetEntry(index, job.key, [job.entry EXCEPT !.cas = casCounter'])
  /\ usedMemory' = usedMemory + job.grow
  /\ reply' = [NoReply EXCEPT !.op = job.op, !.key = job.key, !.cas = casCounter']
  /\ pc' = "select" /\ job' = NoJob
  /\ UNCHANGED <<evictions, clock>>

-----------------------------------------------------------------------------
(* The handlers *)

Get(k) ==
  /\ Idle
  /\ \/ ~Present(k) /\ Refuse("Get", k, "ErrKeyNotFound")
     \/ /\ Gone(k)
        /\ usedMemory' = usedMemory - Size(k, index.data[k].value)
        /\ index' = DeleteKey(index, k)
        /\ Answer("Get", k, "ErrKeyNotFound")
        /\ UNCHANGED <<casCounter, evictions, clock, pc, job>>
     \/ /\ Live(k)
        /\ LET e == index.data[k]
               flags == Flags(e, clock)
               seen == [index EXCEPT !.data[k].refreshing = @ \/ flags = 3]
           IN /\ index' = TouchKey(seen, k)
              /\ reply' = [op |-> "Get", key |-> k, err |-> "ok",
                           value |-> e.value, cas |-> e.cas, flags |-> flags]
        /\ UNCHANGED <<usedMemory, casCounter, evictions, clock, pc, job>>

Set(k, v, ttl) == IdleWrite /\ DoSet("Set", k, v, ttl, 0)

\* Mutant: the soft expiry is looked at where the hard one decides.
AddOverStale(k, v, ttl) ==
  LET kept == Present(k) /\ ~SoftExpired(index.data[k], clock)
  IN /\ IdleWrite
     /\ \/ kept /\ Refuse("Add", k, "ErrKeyExists")
        \/ ~kept /\ DoSet("Add", k, v, ttl, 0)

Add(k, v, ttl) ==
  /\ IdleWrite
  /\ \/ Live(k) /\ Refuse("Add", k, "ErrKeyExists")
     \/ ~Live(k) /\ DoSet("Add", k, v, ttl, 0)

Replace(k, v, ttl) ==
  /\ IdleWrite
  /\ \/ ~Live(k) /\ Refuse("Replace", k, "ErrKeyNotFound")
     \/ Live(k) /\ DoSet("Replace", k, v, ttl, 0)

\* Mutant: the token is not compared.
CasUnchecked(k, v, ttl, cas) ==
  /\ IdleWrite
  /\ \/ ~Live(k) /\ Refuse("Cas", k, "ErrKeyNotFound")
     \/ Live(k) /\ DoSet("Cas", k, v, ttl, cas)

Cas(k, v, ttl, cas) ==
  /\ IdleWrite
  /\ \/ ~Live(k) /\ Refuse("Cas", k, "ErrKeyNotFound")
     \/ /\ Live(k) /\ index.data[k].cas # cas
        /\ Refuse("Cas", k, "ErrCasMismatch")
     \/ Live(k) /\ index.data[k].cas = cas /\ DoSet("Cas", k, v, ttl, cas)

Delete(k) ==
  /\ Idle
  /\ \/ ~Present(k) /\ Refuse("Delete", k, "ErrKeyNotFound")
     \/ /\ Present(k)
        /\ usedMemory' = usedMemory - Size(k, index.data[k].value)
        /\ index' = DeleteKey(index, k)
        /\ Answer("Delete", k, "ok")
        /\ UNCHANGED <<casCounter, evictions, clock, pc, job>>

\* Mutant: the entry is built anew and forgets that a refresh was asked for.
UpdateAnew(op, k, entry, value) ==
  /\ casCounter' = casCounter + 1
  /\ index' = SetEntry(index, k, [entry EXCEPT !.cas = casCounter',
                                              !.refreshing = FALSE])
  /\ reply' = [NoReply EXCEPT !.op = op, !.key = k, !.value = value,
                              !.cas = casCounter']
  /\ UNCHANGED <<evictions, clock, pc, job>>

\* An update in place: a new token, the entry bound again, its key most recent.
Update(op, k, entry, value) ==
  /\ casCounter' = casCounter + 1
  /\ index' = TouchKey(SetEntry(index, k, [entry EXCEPT !.cas = casCounter']), k)
  /\ reply' = [NoReply EXCEPT !.op = op, !.key = k, !.value = value,
                              !.cas = casCounter']
  /\ UNCHANGED <<evictions, clock, pc, job>>

Touch(k, ttl) ==
  /\ IdleWrite
  /\ \/ ~Live(k) /\ Refuse("Touch", k, "ErrKeyNotFound")
     \/ /\ Live(k)
        /\ Update("Touch", k, [index.data[k] EXCEPT !.soft = SoftExpiry(clock, ttl),
                                                    !.hard = HardExpiry(clock, ttl)],
                  NoValue)
        /\ UNCHANGED usedMemory

IncrDecr(op, k, delta) ==
  /\ IdleWrite
  /\ \/ ~Live(k) /\ Refuse(op, k, "ErrKeyNotFound")
     \/ /\ Live(k) /\ index.data[k].value.num = NotNumeric
        /\ Refuse(op, k, "ErrNotNumeric")
     \/ /\ Live(k) /\ index.data[k].value.num # NotNumeric
        /\ LET e == index.data[k]
               v == Counted(op, e.value.num, delta)
           IN /\ Update(op, k, [e EXCEPT !.value = v], v)
              /\ usedMemory' = usedMemory + (v.len - e.value.len)

AppendPrepend(op, k, v) ==
  /\ IdleWrite
  /\ \/ ~Live(k) /\ Refuse(op, k, "ErrKeyNotFound")
     \/ /\ Live(k) /\ index.data[k].value.len + v.len <= MaxLen
        /\ LET old == index.data[k].value
               new == IF op = "Prepend" THEN Concat(v, old) ELSE Concat(old, v)
           IN StartStore(op, k, [index.data[k] EXCEPT !.value = new], v.len, 0)

\* Mutant: flushing leaves the memory accounting as it is.
FlushAllKeepsBooks ==
  /\ Idle
  /\ index' = NewIndex
  /\ Answer("FlushAll", NoKey, "ok")
  /\ UNCHANGED <<usedMemory, casCounter, evictions, clock, pc, job>>

\* Mutant: flushing starts the tokens again.
FlushAllResetsTokens ==
  /\ Idle
  /\ index' = NewIndex
  /\ usedMemory' = 0 /\ casCounter' = CasStart
  /\ Answer("FlushAll", NoKey, "ok")
  /\ UNCHANGED <<evictions, clock, pc, job>>

FlushAll ==
  /\ Idle
  /\ index' = NewIndex
  /\ usedMemory' = 0
  /\ Answer("FlushAll", NoKey, "ok")
  /\ UNCHANGED <<casCounter, evictions, clock, pc, job>>

-----------------------------------------------------------------------------
(* The ticker *)

Due == {k \in DOMAIN index.heap : index.heap[k] <= UnixMilli(clock)}

\* expireKeys; a tick that finds nothing due changes nothing.
ExpireKeys ==
  /\ Idle /\ Due # {}
  /\ pc' = "expiring"
  /\ UNCHANGED <<index, usedMemory, casCounter, evictions, clock, job, reply>>

\* Mutant: an expired entry's bytes are not given back.
ExpireOneKeepsBooks ==
  /\ pc = "expiring"
  /\ \E k \in PeekMin(index) \cap Due : index' = DeleteKey(index, k)
  /\ UNCHANGED <<usedMemory, casCounter, evictions, clock, pc, job, reply>>

\* One iteration of its loop.
ExpireOne ==
  /\ pc = "expiring"
  /\ \E k \in PeekMin(index) \cap Due :
       /\ index' = DeleteKey(index, k)
       /\ usedMemory' = IF Present(k)
                        THEN usedMemory - Size(k, index.data[k].value)
                        ELSE usedMemory
  /\ UNCHANGED <<casCounter, evictions, clock, pc, job, reply>>

ExpireDone ==
  /\ pc = "expiring" /\ PeekMin(index) \cap Due = {}
  /\ pc' = "select"
  /\ UNCHANGED <<index, usedMemory, casCounter, evictions, clock, job, reply>>

\* Time passes between handlers.
Tick ==
  /\ Idle /\ clock < MaxClock
  /\ clock' = clock + 1
  /\ UNCHANGED <<index, usedMemory, casCounter, evictions, pc, job, reply>>

-----------------------------------------------------------------------------

\* NewWorker
Init ==
  /\ index = NewIndex
  /\ usedMemory = 0 /\ casCounter = CasStart /\ evictions = 0
  /\ clock = StartClock
  /\ pc = "select" /\ job = NoJob /\ reply = NoReply

Request ==
  \E k \in Keys :
    \/ Get(k)
    \/ Delete(k)
    \/ \E v \in Values, ttl \in TTLs :
         \/ Set(k, v, ttl)
         \/ Add(k, v, ttl)
         \/ Replace(k, v, ttl)
         \/ \E cas \in CasStart..MaxCas : Cas(k, v, ttl, cas)
    \/ \E ttl \in TTLs : Touch(k, ttl)
    \/ \E delta \in Deltas, op \in {"Incr", "Decr"} : IncrDecr(op, k, delta)
    \/ \E v \in Values, op \in {"Append", "Prepend"} : AppendPrepend(op, k, v)

Maintenance == ExpireKeys \/ ExpireOne \/ ExpireDone

Next == Request \/ FlushAll \/ EvictOldest \/ FinishStore \/ Maintenance \/ Tick

Spec == Init /\ [][Next]_vars

\* The goroutine never stops in the middle of a handler, time goes on, and
\* Go's select, which picks at random among the ready cases, does not pass
\* over the ticker for ever: strong fairness, as the worker leaves the select
\* between two of its visits.
FairSpec ==
  /\ Spec
  /\ WF_vars(Tick)
  /\ WF_vars(EvictOldest \/ FinishStore \/ ExpireOne \/ ExpireDone)
  /\ SF_vars(ExpireKeys)
-----------------------------------------------------------------------------
(* Properties *)

\* The variables keep their types; in particular the counter never issues a
\* token beyond the bound and a number never leaves 64 bits.
TypeOK ==
  /\ IsIndex(index, Keys, Entry)
  /\ usedMemory \in Int
  /\ casCounter \in CasStart..MaxCas
  /\ pc = "storing" => casCounter < MaxCas
  /\ evictions \in Nat
  /\ clock \in Nat
  /\ pc \in {"select", "storing", "expiring"}
  /\ IF pc = "storing" THEN job \in Job ELSE job = NoJob
  /\ reply \in Reply

\* The map, the expiry heap and the recency list agree between any two steps
\* of the goroutine.  The expiry loop relies on it to terminate, eviction to
\* find what it must evict.
IndexInStep == InStep(index)

\* Bytes really held, and how far usedMemory (the figure eviction works with)
\* falls short of them.
TotalBytes ==
  MapThenSumSet(LAMBDA k : Size(k, index.data[k].value), DOMAIN index.data)
Drift == TotalBytes - usedMemory

\* usedMemory follows the bytes really held through every path that adds,
\* replaces, resizes, deletes, evicts or expires an entry, with one exception:
\* a store that evicts the very entry it is about to replace or extend loses
\* the old entry's size, which nothing but flush_all brings back.
DriftOnlyBySelfEviction ==
  [][Drift' # Drift =>
       \/ /\ pc = "storing" /\ pc' = "select"
          /\ job.key \notin DOMAIN index.data
          /\ Drift' = Drift + (Size(job.key, job.entry.value) - job.grow)
       \/ DOMAIN index'.data = {} /\ Drift' = 0]_vars

\* When a store that needs room completes, either the worker's books are within
\* its limit or everything else has been evicted for it.
EvictionHonoursLimit ==
  [][pc = "storing" /\ pc' = "select" /\ job.grow > 0 /\ MaxMemory > 0 =>
       \/ usedMemory' <= MaxMemory
       \/ DOMAIN index'.data = {job.key}]_vars

\* Key k is bound to a content with a token of this step, or to the same content
\* as before.
FreshToken(k) ==
  LET e == index'.data[k]
  IN \/ casCounter < e.cas /\ e.cas <= casCounter'
     \/ /\ Present(k)
        /\ [e EXCEPT !.refreshing = FALSE]
             = [index.data[k] EXCEPT !.refreshing = FALSE]

\* A CAS token identifies one content of one key for ever: whenever a key
\* appears, or its value or its expiry changes, its token is larger than every
\* token issued before, also across deletion, eviction, expiry and flush_all.
FreshTokens ==
  [][/\ casCounter' >= casCounter
     /\ \A k \in DOMAIN index'.data : FreshToken(k)]_vars

\* "Each worker tracks usedMemory in bytes": the figure is the bytes of the
\* entries the worker holds, whenever it is not in the middle of a store.
MemoryTracked == pc = "select" => usedMemory = TotalBytes

\* "When memory limit is exceeded, evicts least recently used items": a worker
\* that holds more than one entry is not over its limit between requests.
LimitRespected ==
  pc = "select" /\ MaxMemory > 0 /\ Cardinality(DOMAIN index.data) > 1 =>
    usedMemory <= MaxMemory

\* An entry past its hard expiry is reclaimed by the ticker (or replaced), if
\* nobody ever asks for it again.
ExpiredReclaimed ==
  \A k \in Keys : Gone(k) ~> ~Gone(k)

\* Every handler returns to the select: neither the eviction loop nor the
\* expiry loop spins.
HandlersReturn == pc # "select" ~> pc = "select"
=============================================================================
