--------------------------- MODULE WorkerHistory ---------------------------
(***************************************************************************)
(* A worker with two history variables that observe its answers, for the   *)
(* promises that span several requests.  They follow what clients were     *)
(* told, not how the worker keeps its index.                               *)
(***************************************************************************)
EXTENDS WorkerRefinement

VARIABLES
  recency,       \* the pairs of keys whose second was accessed successfully
                 \* since the first was
  refreshes      \* per key, the gets told to refresh it (flags 3) since a
                 \* store or touch last set its expiry, counted up to 2

hvars == <<vars, recency, refreshes>>

Accesses == {"Get", "Set", "Add", "Replace", "Cas", "Touch", "Incr", "Decr",
             "Append", "Prepend"}
SetExpiry == {"Set", "Add", "Replace", "Cas", "Touch"}

\* The step answers a request that needs no store; other steps that leave the
\* last answer as it was are told apart by the clock and the program counter.
Served == pc = "select" /\ pc' = "select" /\ clock' = clock

\* Key k is the one accessed last.
Accessed(r, k) ==
  {p \in r : k \notin {p[1], p[2]}} \cup (Keys \ {k}) \X {k}

HInit == Init /\ recency = {} /\ refreshes = [k \in Keys |-> 0]

HNext ==
  /\ Next
  /\ recency' = IF reply'.op \in Accesses /\ reply'.err = "ok"
                THEN Accessed(recency, reply'.key)
                ELSE recency
  /\ refreshes' =
       [k \in Keys |->
          IF k # reply'.key \/ reply'.err # "ok" THEN refreshes[k]
          ELSE IF reply'.op \in SetExpiry THEN 0
          ELSE IF Served /\ reply'.op = "Get" /\ reply'.flags = 3 /\ refreshes[k] < 2
          THEN refreshes[k] + 1
          ELSE refreshes[k]]

HSpec == HInit /\ [][HNext]_hvars

-----------------------------------------------------------------------------

\* The recency list is the order in which clients last successfully used the
\* keys that are present, so that eviction takes the least recently used one.
\* Refused requests do not count as a use, and an entry that was evicted to
\* make room for itself counts as used when it is back.
LruIsRecency ==
  \A i, j \in DOMAIN index.lru :
    i < j => <<index.lru[i], index.lru[j]>> \in recency

\* Single flight: once the expiry of an entry is set, at most one get is told
\* to refresh it, whatever increments, appends and other keys' traffic come in
\* between.
RefreshOnce == \A k \in Keys : refreshes[k] <= 1

\* The other half of it: a get is told that the value is merely stale only if
\* another get has been told to refresh it in this stale period.
StaleOnlyAfterRefresh ==
  reply.op = "Get" /\ reply.flags = 1 => refreshes[reply.key] > 0
=============================================================================
