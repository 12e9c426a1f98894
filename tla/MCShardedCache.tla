--------------------------- MODULE MCShardedCache ---------------------------
(***************************************************************************)
(* Small instances of ShardedCache for TLC: shards of which only the keys  *)
(* they hold matter, one key per worker.                                   *)
(***************************************************************************)
EXTENDS ShardedRefinement, Routing, TLC

CONSTANT KeyOps  \* those of "Get", "Set" and "Delete" that clients use

KeyRequests == [op : KeyOps, key : Keys]
KeySets == SUBSET Keys
KeyReplies == {"ok", "ErrKeyNotFound"}
RouteByKey == [r \in KeyRequests |-> WorkerOf(r.key)]
HighHashes == [k \in Keys |-> HashSize - 1 - k]
Empty == {}

\* Entries come and go with requests; the ticker may take any that is there.
HandleKeys(s, r) ==
  IF r = FlushAll THEN {[state |-> {}, reply |-> "ok"]}
  ELSE IF r.op = "Set" THEN {[state |-> s \cup {r.key}, reply |-> "ok"]}
  ELSE {[state |-> IF r.op = "Delete" THEN s \ {r.key} ELSE s,
         reply |-> IF r.key \in s THEN "ok" ELSE "ErrKeyNotFound"]}

ExpireKeys(s) == SUBSET s

Symmetry == Permutations(Clients) \cup Permutations(Channels)
=============================================================================
