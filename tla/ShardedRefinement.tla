-------------------------- MODULE ShardedRefinement --------------------------
(***************************************************************************)
(* The sharded cache implements AtomicCache.  A call takes effect when its *)
(* worker handles it; from then on its response is on its way.             *)
(***************************************************************************)
EXTENDS ShardedCache

\* The response of client c's current request, where it has got to.
OnItsWay(c) == {w \in Workers : sending[w] # Nothing /\ sending[w].ch = held[c]}
Arrived(c) == buffer[held[c]] # <<>>

Performed(c) ==
  \/ pc[c] = "put"
  \/ pc[c] = "wait" /\ (OnItsWay(c) # {} \/ Arrived(c))

Reply(c) ==
  IF pc[c] # "wait" \/ ~Performed(c) THEN answer[c]
  ELSE IF Arrived(c) THEN Head(buffer[held[c]])
  ELSE sending[CHOOSE w \in OnItsWay(c) : TRUE].resp

Phase(c) ==
  IF pc[c] = "idle" THEN "idle"
  ELSE IF Performed(c) /\ LastWorker(asked[c], turn[c]) THEN "answered"
  ELSE "asked"

\* A flush whose turn has been performed is about to go to the next worker.
At(c) ==
  IF Performed(c) /\ ~LastWorker(asked[c], turn[c]) THEN turn[c] + 1 ELSE turn[c]

CallOf(c) == [phase |-> Phase(c), req |-> asked[c], at |-> At(c), reply |-> Reply(c)]

Atomic == INSTANCE AtomicCache WITH
  call <- [c \in Clients |-> CallOf(c)], down <- stopped

\* Pooled channels, queues and the order in which the goroutines run never
\* show: every answer a call returns is what its own request yielded on the
\* contents of its shard at one instant while the call was in progress.
ImplementsAtomicCache == Atomic!Spec
=============================================================================
