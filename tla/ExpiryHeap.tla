----------------------------- MODULE ExpiryHeap -----------------------------
(***************************************************************************)
(* The expiry heap of pkg/tqmemory/index.go: a binary heap with a map from *)
(* keys to positions, driven through container/heap.  Its loops are taken  *)
(* one iteration at a time.  Positions count from 1, so that the children  *)
(* of position i are 2i and 2i + 1.  The index field of an entry repeats   *)
(* keyIndex and is never read.                                             *)
(***************************************************************************)
EXTENDS Index

CONSTANTS Keys, Expiries

ASSUME ExpiryAssumption == Expiries \subseteq Nat \ {0}

VARIABLES
  entries,   \* the heap: a sequence of keys with their expiries
  keyIndex,  \* from keys to their positions
  pc,        \* "idle", or the loop that runs: "down" or "up"
  at,        \* i in down, j in up
  start,     \* i0 of down
  limit,     \* n of down: the entry beyond it is the one being removed
  call       \* the arguments of the last call, the expiry 0 for Remove

locals == <<at, start, limit>>
vars == <<entries, keyIndex, pc, locals, call>>

NoCall == [key |-> {}, expiry |-> 0]

ExpiryEntry == [key : Keys, expiry : Expiries]

Less(i, j) == entries[i].expiry < entries[j].expiry

\* Mutant: the map learns only one of the two new positions.
SwapForgets(i, j) ==
  /\ entries' = [entries EXCEPT ![i] = entries[j], ![j] = entries[i]]
  /\ keyIndex' = [keyIndex EXCEPT ![entries[j].key] = i]

Swap(i, j) ==
  /\ entries' = [entries EXCEPT ![i] = entries[j], ![j] = entries[i]]
  /\ keyIndex' = [keyIndex EXCEPT ![entries[j].key] = i, ![entries[i].key] = j]

\* Push, without the sift that follows.
Push(e) ==
  /\ entries' = Append(entries, e)
  /\ keyIndex' = Bind(keyIndex, e.key, Len(entries) + 1)

\* Mutant: a removed key keeps its position.
PopKeepsKey == entries' = Front(entries) /\ UNCHANGED keyIndex

Pop ==
  /\ entries' = Front(entries)
  /\ keyIndex' = Unbind(keyIndex, Last(entries).key)

Sift(loop, i, n) == pc' = loop /\ at' = i /\ start' = i /\ limit' = n

-----------------------------------------------------------------------------
(* Insert and Remove up to the loops of container/heap *)

\* Mutant: an entry whose expiry changes only ever moves up.
FixUp(k, expiry) ==
  /\ entries' = [entries EXCEPT ![keyIndex[k]].expiry = expiry]
  /\ Sift("up", keyIndex[k], Len(entries))
  /\ UNCHANGED keyIndex

\* heap.Fix of an entry that is there.
Fix(k, expiry) ==
  /\ entries' = [entries EXCEPT ![keyIndex[k]].expiry = expiry]
  /\ Sift("down", keyIndex[k], Len(entries))
  /\ UNCHANGED keyIndex

InsertKey(k, expiry) ==
  /\ pc = "idle"
  /\ \/ k \in DOMAIN keyIndex /\ Fix(k, expiry)
     \/ /\ k \notin DOMAIN keyIndex
        /\ Push([key |-> k, expiry |-> expiry])
        /\ Sift("up", Len(entries) + 1, Len(entries) + 1)
  /\ call' = [key |-> k, expiry |-> expiry]

\* Mutant: the last entry is removed in place of the one asked for.
RemoveKeyLast(k) ==
  /\ pc = "idle" /\ k \in DOMAIN keyIndex
  /\ Pop /\ UNCHANGED <<pc, locals>>
  /\ call' = [key |-> k, expiry |-> 0]

\* heap.Remove: unless the entry is the last, it changes places with the last
\* one, which then finds its own.
RemoveKey(k) ==
  /\ pc = "idle"
  /\ \/ k \notin DOMAIN keyIndex /\ UNCHANGED <<entries, keyIndex, pc, locals>>
     \/ /\ k \in DOMAIN keyIndex /\ keyIndex[k] = Len(entries)
        /\ Pop /\ UNCHANGED <<pc, locals>>
     \/ /\ k \in DOMAIN keyIndex /\ keyIndex[k] # Len(entries)
        /\ Swap(keyIndex[k], Len(entries))
        /\ Sift("down", keyIndex[k], Len(entries) - 1)
  /\ call' = [key |-> k, expiry |-> 0]

-----------------------------------------------------------------------------
(* container/heap *)

\* heap.Remove ends with Pop, Fix and Push do not.
Finish ==
  /\ IF limit < Len(entries) THEN Pop ELSE UNCHANGED <<entries, keyIndex>>
  /\ pc' = "idle" /\ at' = 0 /\ start' = 0 /\ limit' = 0
  /\ UNCHANGED call

Parent(i) == i \div 2

\* The lesser child of position i, the left one of two equal ones.
LesserChild(i) ==
  IF 2 * i + 1 <= limit /\ Less(2 * i + 1, 2 * i) THEN 2 * i + 1 ELSE 2 * i

Sinks == 2 * at <= limit /\ Less(LesserChild(at), at)
Rises == at > 1 /\ Less(at, Parent(at))

Down ==
  /\ pc = "down" /\ Sinks
  /\ Swap(at, LesserChild(at))
  /\ at' = LesserChild(at)
  /\ UNCHANGED <<pc, start, limit, call>>

\* Mutant: the entry that takes the place of a removed one can only sink.
DownDoneOnRemoval ==
  /\ pc = "down" /\ ~Sinks
  /\ \/ (at > start \/ limit < Len(entries)) /\ Finish
     \/ /\ at = start /\ limit = Len(entries)
        /\ pc' = "up" /\ UNCHANGED <<entries, keyIndex, locals, call>>

DownDone ==
  /\ pc = "down" /\ ~Sinks
  /\ \/ at > start /\ Finish
     \/ at = start /\ pc' = "up" /\ UNCHANGED <<entries, keyIndex, locals, call>>

Up ==
  /\ pc = "up" /\ Rises
  /\ Swap(Parent(at), at)
  /\ at' = Parent(at)
  /\ UNCHANGED <<pc, start, limit, call>>

UpDone == pc = "up" /\ ~Rises /\ Finish

-----------------------------------------------------------------------------

\* NewExpiryHeap
Init ==
  /\ entries = <<>> /\ keyIndex = EmptyMap
  /\ pc = "idle" /\ at = 0 /\ start = 0 /\ limit = 0
  /\ call = NoCall

Next ==
  \/ \E k \in Keys : RemoveKey(k) \/ \E expiry \in Expiries : InsertKey(k, expiry)
  \/ Down \/ DownDone \/ Up \/ UpDone

Spec == Init /\ [][Next]_vars

-----------------------------------------------------------------------------
(* Properties *)

\* The variables keep their types, and a loop stays within the heap.
TypeOK ==
  /\ entries \in Seq(ExpiryEntry)
  /\ IsPartialMap(keyIndex, Keys, 1..Len(entries))
  /\ pc \in {"idle", "down", "up"}
  /\ IF pc = "idle" THEN at = 0 /\ start = 0 /\ limit = 0
     ELSE /\ at \in 1..limit /\ start \in 1..limit
          /\ limit \in {Len(entries), Len(entries) - 1}
  /\ call \in [key : Keys, expiry : Expiries \cup {0}] \cup {NoCall}

\* The map from keys to positions is exact after every swap: neither an update
\* nor a removal ever strikes another key's entry, and no key has two.
KeyIndexExact ==
  /\ \A i \in 1..Len(entries) :
       entries[i].key \in DOMAIN keyIndex /\ keyIndex[entries[i].key] = i
  /\ \A k \in DOMAIN keyIndex : entries[keyIndex[k]].key = k

\* Between two calls no entry expires before its parent.
HeapOrdered ==
  pc = "idle" => \A i \in 2..Len(entries) : ~Less(i, Parent(i))

\* The scheduled expiries: while an entry is being removed it is the last one.
Scheduled == IF pc = "idle" THEN Len(entries) ELSE limit
Contents ==
  [k \in {entries[i].key : i \in 1..Scheduled} |-> entries[keyIndex[k]].expiry]

\* PeekMin, on which expireKeys relies to find every entry that is due, is an
\* entry with the earliest expiry.
RootIsEarliest ==
  pc = "idle" /\ entries # <<>> =>
    entries[1].key \in PeekMin([NewIndex EXCEPT !.heap = Contents])

\* Whatever the loops do to the order of the entries, the heap is the map from
\* keys to expiries that Index works with.
Abstract == INSTANCE ExpiryMap WITH expiries <- Contents
ImplementsExpiryMap == Abstract!Spec
=============================================================================
