------------------------------- MODULE Index -------------------------------
(***************************************************************************)
(* The in-memory index of one worker: pkg/tqmemory/index.go.               *)
(*                                                                         *)
(* An index is a record of the three structures the Go type keeps in step: *)
(*   data  the map from keys to entries                                    *)
(*   heap  the expiry heap, seen as the map from the keys it holds to      *)
(*         their expiry (the binary heap yields one of its minimal keys)   *)
(*   lru   the recency list, oldest key first                              *)
(* Every operator below is one method of Index: it takes an index and      *)
(* returns the next one.                                                   *)
(***************************************************************************)
EXTENDS Integers, Sequences, Functions, SequencesExt

EmptyMap == [k \in {} |-> 0]

Bind(f, k, v) == [j \in DOMAIN f \cup {k} |-> IF j = k THEN v ELSE f[j]]

Unbind(f, k) == Restrict(f, DOMAIN f \ {k})

NewIndex == [data |-> EmptyMap, heap |-> EmptyMap, lru |-> <<>>]

\* lruElem: where the list holds key k.
LruElem(lru, k) == CHOOSE i \in DOMAIN lru : lru[i] = k

\* list.List.Remove and list.List.MoveToBack of that element.
Unlist(lru, k) == RemoveAt(lru, LruElem(lru, k))
MoveToBack(lru, k) == Append(Unlist(lru, k), k)

\* Mutant: an entry that no longer expires keeps its place in the heap.
ScheduleOnly(heap, k, expiry) ==
  IF expiry > 0 THEN Bind(heap, k, expiry) ELSE heap

\* ExpiryHeap.Insert for an entry that expires, ExpiryHeap.Remove for one
\* that does not.
Schedule(heap, k, expiry) ==
  IF expiry > 0 THEN Bind(heap, k, expiry) ELSE Unbind(heap, k)

\* Mutant: the expiry of an entry is scheduled only when it is new.
SetEntryKeepsExpiry(x, k, e) ==
  [data |-> Bind(x.data, k, e),
   heap |-> IF k \in DOMAIN x.data THEN x.heap ELSE Schedule(x.heap, k, e.hard),
   lru  |-> IF k \in DOMAIN x.data THEN MoveToBack(x.lru, k)
                                   ELSE Append(x.lru, k)]

\* Index.Set: bind the entry, (un)schedule its expiry, make it most recent.
SetEntry(x, k, e) ==
  [data |-> Bind(x.data, k, e),
   heap |-> Schedule(x.heap, k, e.hard),
   lru  |-> IF k \in DOMAIN x.data THEN MoveToBack(x.lru, k)
                                   ELSE Append(x.lru, k)]

\* Mutant: deletion leaves the key in the expiry heap.
DeleteKeyKeepsExpiry(x, k) ==
  IF k \in DOMAIN x.data
  THEN [x EXCEPT !.data = Unbind(@, k), !.lru = Unlist(@, k)]
  ELSE x

\* Index.Delete: of an absent key it leaves the index, its heap included,
\* as it is.
DeleteKey(x, k) ==
  IF k \in DOMAIN x.data
  THEN [data |-> Unbind(x.data, k),
        heap |-> Unbind(x.heap, k),
        lru  |-> Unlist(x.lru, k)]
  ELSE x

\* Mutant: an access does not count as a use.
TouchKeyForgets(x, k) == x

\* Index.Touch
TouchKey(x, k) ==
  IF k \in DOMAIN x.data THEN [x EXCEPT !.lru = MoveToBack(@, k)] ELSE x

\* ExpiryHeap.PeekMin: the keys that may stand at the root of the heap.
PeekMin(x) ==
  {k \in DOMAIN x.heap : \A j \in DOMAIN x.heap : x.heap[k] <= x.heap[j]}

\* Index.GetOldest
GetOldest(x) == Head(x.lru)

-----------------------------------------------------------------------------
\* An index over keys K and entries E.
IsPartialMap(m, K, E) == DOMAIN m \subseteq K /\ m \in [DOMAIN m -> E]

IsIndex(x, K, E) ==
  /\ x = [data |-> x.data, heap |-> x.heap, lru |-> x.lru]
  /\ IsPartialMap(x.data, K, E) /\ IsPartialMap(x.heap, K, Nat)
  /\ x.lru \in Seq(K)

\* What keeps the three structures in step: the heap holds exactly the
\* entries that expire, at their hard expiry, and the list enumerates the
\* keys of the map without repetition.
HeapInStep(x) ==
  x.heap = [k \in {j \in DOMAIN x.data : x.data[j].hard > 0} |-> x.data[k].hard]

LruInStep(x) ==
  /\ Range(x.lru) = DOMAIN x.data
  /\ \A i, j \in DOMAIN x.lru : x.lru[i] = x.lru[j] => i = j

InStep(x) == HeapInStep(x) /\ LruInStep(x)
=============================================================================
