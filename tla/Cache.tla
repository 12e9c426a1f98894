------------------------------- MODULE Cache -------------------------------
(***************************************************************************)
(* What a worker promises its clients, whatever its index, its expiry heap *)
(* and its memory accounting look like inside: a map of the entries that   *)
(* have not expired.  Requests are served one at a time; a store commits   *)
(* in a second step, and may lose other entries, and the one it replaces,  *)
(* in between.                                                             *)
(*                                                                         *)
(* This is the contract of pkg/tqmemory/interface.go as worker.go keeps    *)
(* it; Worker implements it (WorkerRefinement).                            *)
(***************************************************************************)
EXTENDS Entries

CONSTANTS
  MayEvict,      \* whether entries may be lost to make room
  FirstClock,    \* when the service starts
  FirstCas       \* the token before the first one it issues

VARIABLES store, lastCas, pending, clock, reply

vars == <<store, lastCas, pending, clock, reply>>

Nothing == [op |-> "none"]

Has(k) == k \in DOMAIN store

Keep(S) == store' = [k \in S |-> store[k]]

\* An entry whose TTL is below the resolution of the expiries may have expired
\* already: it replaces the one before it and is not seen itself.
Put(k, e) ==
  LET seen == {j \in DOMAIN store \cup {k} : j = k => ~HardExpired(e, clock)}
  IN store' = [j \in seen |-> IF j = k THEN e ELSE store[j]]

Answer(op, k, err) == reply' = [NoReply EXCEPT !.op = op, !.key = k, !.err = err]

-----------------------------------------------------------------------------

Init ==
  /\ store = [k \in {} |-> 0] /\ lastCas = FirstCas
  /\ pending = Nothing /\ clock = FirstClock /\ reply = NoReply

Refuse(op, k, err) ==
  /\ pending = Nothing
  /\ Answer(op, k, err)
  /\ UNCHANGED <<store, lastCas, pending, clock>>

\* A refused operation names its reason truthfully.
Refusal ==
  \E k \in Keys :
    \/ \E op \in {"Get", "Replace", "Cas", "Delete", "Touch", "Incr", "Decr",
                  "Append", "Prepend"} :
         ~Has(k) /\ Refuse(op, k, "ErrKeyNotFound")
    \/ Has(k) /\ Refuse("Add", k, "ErrKeyExists")
    \/ Has(k) /\ Refuse("Cas", k, "ErrCasMismatch")
    \/ /\ Has(k) /\ store[k].value.num = NotNumeric
       /\ \E op \in {"Incr", "Decr"} : Refuse(op, k, "ErrNotNumeric")

\* The first get of a stale entry is told to refresh it.
Get(k) ==
  /\ pending = Nothing /\ Has(k)
  /\ LET flags == Flags(store[k], clock)
     IN /\ reply' = [op |-> "Get", key |-> k, err |-> "ok", cas |-> store[k].cas,
                     value |-> store[k].value, flags |-> flags]
        /\ store' = [store EXCEPT ![k].refreshing = @ \/ flags = 3]
  /\ UNCHANGED <<lastCas, pending, clock>>

\* A store is accepted under its operation's condition, ...
Accept(op, k, e, cas) ==
  /\ pending = Nothing
  /\ pending' = [op |-> op, key |-> k, entry |-> e, existingCas |-> cas]
  /\ UNCHANGED <<store, lastCas, clock, reply>>

Store(k) ==
  \/ \E v \in Values, ttl \in TTLs :
       \/ Accept("Set", k, NewEntry(v, clock, ttl), 0)
       \/ ~Has(k) /\ Accept("Add", k, NewEntry(v, clock, ttl), 0)
       \/ Has(k) /\ Accept("Replace", k, NewEntry(v, clock, ttl), 0)
       \/ Has(k) /\ Accept("Cas", k, NewEntry(v, clock, ttl), store[k].cas)
  \/ /\ Has(k)
     /\ \E v \in Values, op \in {"Append", "Prepend"} :
          LET new == IF op = "Append" THEN Concat(store[k].value, v)
                                      ELSE Concat(v, store[k].value)
          IN Accept(op, k, [store[k] EXCEPT !.value = new], 0)

\* ... may push entries out, ...
Evict ==
  /\ MayEvict /\ pending # Nothing
  /\ \E k \in DOMAIN store : Keep(DOMAIN store \ {k})
  /\ UNCHANGED <<lastCas, pending, clock, reply>>

\* ... and takes effect under a token of its own.
Commit ==
  /\ pending # Nothing
  /\ lastCas' = lastCas + 1
  /\ Put(pending.key, [pending.entry EXCEPT !.cas = lastCas'])
  /\ reply' = [NoReply EXCEPT !.op = pending.op, !.key = pending.key,
                              !.cas = lastCas']
  /\ pending' = Nothing /\ UNCHANGED clock

\* An update in place keeps every other entry.
Update(op, k, e, value) ==
  /\ pending = Nothing /\ Has(k)
  /\ lastCas' = lastCas + 1
  /\ reply' = [NoReply EXCEPT !.op = op, !.key = k, !.cas = lastCas',
                              !.value = value]
  /\ Put(k, [e EXCEPT !.cas = lastCas'])
  /\ UNCHANGED <<pending, clock>>

Touch(k) ==
  \E ttl \in TTLs :
    Update("Touch", k, [store[k] EXCEPT !.soft = SoftExpiry(clock, ttl),
                                        !.hard = HardExpiry(clock, ttl)], NoValue)

Count(k) ==
  /\ Has(k) /\ store[k].value.num # NotNumeric
  /\ \E delta \in Deltas, op \in {"Incr", "Decr"} :
       LET v == Counted(op, store[k].value.num, delta)
       IN Update(op, k, [store[k] EXCEPT !.value = v], v)

\* A deletion answers ok for an entry it removes.  It may also answer ok for
\* one that has expired already: the code looks at what it still holds.
Delete(k) ==
  /\ pending = Nothing
  /\ Keep(DOMAIN store \ {k}) /\ Answer("Delete", k, "ok")
  /\ UNCHANGED <<lastCas, pending, clock>>

FlushAll ==
  /\ pending = Nothing
  /\ Keep({}) /\ Answer("FlushAll", NoKey, "ok")
  /\ UNCHANGED <<lastCas, pending, clock>>

\* Time takes away exactly the entries it expires.
Tick ==
  /\ pending = Nothing
  /\ clock' = clock + 1
  /\ Keep({k \in DOMAIN store : ~HardExpired(store[k], clock')})
  /\ UNCHANGED <<lastCas, pending, reply>>

Next ==
  \/ Refusal \/ Evict \/ Commit \/ FlushAll \/ Tick
  \/ \E k \in Keys : Get(k) \/ Store(k) \/ Touch(k) \/ Count(k) \/ Delete(k)

Spec == Init /\ [][Next]_vars
=============================================================================
