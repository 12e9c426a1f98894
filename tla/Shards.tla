------------------------------- MODULE Shards -------------------------------
(***************************************************************************)
(* What the sharded cache knows of its workers: how many there are, which  *)
(* one a request is routed to and, as constants, what a worker's request   *)
(* handler and its maintenance do to a shard.  The plumbing between        *)
(* callers and workers is the same whatever these do; Worker says what     *)
(* they do in this program.                                                *)
(***************************************************************************)
EXTENDS Naturals

CONSTANTS
  Clients,        \* the goroutines that call the cache
  WorkerCount,    \* len(ShardedCache.workers)
  Requests,       \* the single-key requests
  FlushAll,       \* the request a flush sends to every worker
  WorkerFor,      \* the worker of each single-key request
  States,         \* the contents of a shard
  NewShard,       \* those of a new one
  Replies,        \* the workers' responses
  Handle(_, _),   \* what handling a request may yield: a set of outcomes
  Upkeep(_)       \* the contents a tick of the maintenance ticker may leave

Workers == 0 .. (WorkerCount - 1)

Outcome == [state : States, reply : Replies]

ASSUME ShardsAssumption ==
  /\ WorkerCount \in Nat \ {0}
  /\ FlushAll \notin Requests
  /\ WorkerFor \in [Requests -> Workers]
  /\ NewShard \in States
  /\ \A s \in States :
       /\ Upkeep(s) \subseteq States
       /\ \A r \in Requests \cup {FlushAll} : Handle(s, r) \subseteq Outcome

\* The worker a call addresses first: FlushAll visits them all, in order.
FirstWorker(r) == IF r = FlushAll THEN 0 ELSE WorkerFor[r]

\* Mutants: the loop of FlushAll runs one worker too far, or one too few.
LastWorkerLate(r, w) == r # FlushAll \/ w = WorkerCount
LastWorkerEarly(r, w) == r # FlushAll \/ w + 2 >= WorkerCount

\* Whether a call is over once worker w has answered it.
LastWorker(r, w) == r # FlushAll \/ w + 1 = WorkerCount
=============================================================================
