-------------------------- MODULE WorkerRefinement --------------------------
(***************************************************************************)
(* A worker implements Cache.  What its clients see of the index are the   *)
(* entries that have not expired: whether the others are still there, in   *)
(* what order they would be evicted and what they weigh is its own         *)
(* business.                                                               *)
(***************************************************************************)
EXTENDS Worker

LiveEntries == [k \in {j \in Keys : Live(j)} |-> index.data[k]]

\* A store in progress, without its accounting.
Accepted ==
  IF pc # "storing" THEN NoJob
  ELSE [op |-> job.op, key |-> job.key, entry |-> job.entry,
        existingCas |-> job.existingCas]

Abstract == INSTANCE Cache WITH
  store <- LiveEntries, lastCas <- casCounter, pending <- Accepted,
  MayEvict <- MaxMemory > 0, FirstClock <- StartClock, FirstCas <- CasStart

\* Every behaviour of the worker, with its lazy and its periodic expiry, its
\* eviction loop and its bookkeeping, is one of the cache its clients believe
\* in: entries disappear exactly when they expire, are deleted or flushed, or
\* make room for a store; what is served is what was last stored; every
\* refusal is truthful.
ImplementsCache == Abstract!Spec
=============================================================================
