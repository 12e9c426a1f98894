--------------------------- MODULE ShardedHistory ---------------------------
(***************************************************************************)
(* The sharded cache with shards seen through their CAS tokens, and        *)
(* history variables for the promises that span the calls of several       *)
(* callers.  A value is the token it was stored with; entries that expire  *)
(* or are evicted may go at any tick.                                      *)
(***************************************************************************)
EXTENDS ShardedRefinement, Routing

CONSTANT MaxCalls  \* bound of the model: the calls all callers make together

Tokens == 1..MaxCalls   \* every call issues at most one

TokenRequests ==
  [op : {"Get", "Set", "Delete"}, key : Keys] \cup
  [op : {"Cas"}, key : Keys, cas : Tokens]
Route == [r \in TokenRequests |-> WorkerOf(r.key)]

\* The token of each key of a worker, 0 if absent, and the last one issued.
TokenShards == [cas : [Keys -> Tokens \cup {0}], last : Tokens \cup {0}]
NoTokens == [cas |-> [k \in Keys |-> 0], last |-> 0]
TokenReplies ==
  [err : {"ok", "ErrKeyNotFound", "ErrCasMismatch"}, cas : Tokens \cup {0}]

\* The bound on calls keeps stores within the tokens.
Stored(s, k) ==
  {[state |-> [cas |-> [s.cas EXCEPT ![k] = t], last |-> t],
    reply |-> [err |-> "ok", cas |-> t]] : t \in {s.last + 1} \cap Tokens}
Answered(s, err, cas) == [state |-> s, reply |-> [err |-> err, cas |-> cas]]

\* Mutant: the token is not compared.
HandleTokensUnchecked(s, r) ==
  IF r = FlushAll THEN {Answered([s EXCEPT !.cas = [k \in Keys |-> 0]], "ok", 0)}
  ELSE IF r.op = "Set" THEN Stored(s, r.key)
  ELSE IF s.cas[r.key] = 0 THEN {Answered(s, "ErrKeyNotFound", 0)}
  ELSE IF r.op = "Get" THEN {Answered(s, "ok", s.cas[r.key])}
  ELSE IF r.op = "Delete" THEN {Answered([s EXCEPT !.cas[r.key] = 0], "ok", 0)}
  ELSE Stored(s, r.key)

HandleTokens(s, r) ==
  IF r = FlushAll THEN {Answered([s EXCEPT !.cas = [k \in Keys |-> 0]], "ok", 0)}
  ELSE IF r.op = "Set" THEN Stored(s, r.key)
  ELSE IF s.cas[r.key] = 0 THEN {Answered(s, "ErrKeyNotFound", 0)}
  ELSE IF r.op = "Get" THEN {Answered(s, "ok", s.cas[r.key])}
  ELSE IF r.op = "Delete" THEN {Answered([s EXCEPT !.cas[r.key] = 0], "ok", 0)}
  ELSE IF s.cas[r.key] # r.cas THEN {Answered(s, "ErrCasMismatch", 0)}
  ELSE Stored(s, r.key)

LoseTokens(s) ==
  {[s EXCEPT !.cas = [k \in Keys |-> IF k \in lost THEN 0 ELSE @[k]]] :
     lost \in SUBSET Keys}

\* The constants of Shards stand for these shards.
ShardsOfTokens ==
  /\ MaxCalls \in Nat
  /\ Requests = TokenRequests /\ WorkerFor = Route /\ Replies = TokenReplies
  /\ States = TokenShards /\ NewShard = NoTokens
  /\ \A s \in States :
       /\ Upkeep(s) = LoseTokens(s)
       /\ \A r \in Requests \cup {FlushAll} : Handle(s, r) = HandleTokens(s, r)

-----------------------------------------------------------------------------

VARIABLES
  calls,    \* how many calls have been made
  wins,     \* per key and token, the calls told that their cas succeeded, up to 2
  before,   \* per caller and worker, the last token issued when it called FlushAll
  flushed,  \* per worker, the tokens up to this one were issued before a call of
            \* FlushAll that has returned
  floor     \* per caller, flushed at the time of its call

hvars == <<vars, calls, wins, before, flushed, floor>>

LastTokens == [w \in Workers |-> shard[w].last]
Zeros == [w \in Workers |-> 0]

HInit ==
  /\ Init
  /\ calls = 0
  /\ wins = [kt \in Keys \X Tokens |-> 0]
  /\ before = [c \in Clients |-> Zeros]
  /\ flushed = Zeros /\ floor = [c \in Clients |-> Zeros]

Calling(c) == pc[c] = "idle" /\ pc'[c] = "get"
Returning(c) == pc[c] = "put" /\ pc'[c] = "idle"

\* The cas that caller c is just told has succeeded.
Won(c) ==
  IF /\ pc[c] = "wait" /\ pc'[c] = "put" /\ asked[c] # FlushAll
     /\ asked[c].op = "Cas" /\ answer'[c].err = "ok"
  THEN {<<asked[c].key, asked[c].cas>>} ELSE {}

HNext ==
  /\ Next
  /\ calls' = calls + Cardinality({c \in Clients : Calling(c)})
  /\ calls' <= MaxCalls
  /\ wins' = [kt \in Keys \X Tokens |->
                IF wins[kt] < 2 /\ \E c \in Clients : kt \in Won(c)
                THEN wins[kt] + 1 ELSE wins[kt]]
  /\ before' = [c \in Clients |->
                  IF Calling(c) /\ asked'[c] = FlushAll THEN LastTokens
                  ELSE IF Returning(c) THEN Zeros ELSE before[c]]
  /\ flushed' = [w \in Workers |->
                   Max({flushed[w]} \cup
                       {before[c][w] : c \in {d \in Clients : Returning(d)}})]
  /\ floor' = [c \in Clients |->
                 IF Calling(c) /\ asked'[c] # FlushAll THEN flushed
                 ELSE IF Returning(c) THEN Zeros ELSE floor[c]]

HSpec == HInit /\ [][HNext]_hvars

-----------------------------------------------------------------------------

\* No lost update: of all calls that present the same token of a key, whoever
\* makes them and however they interleave, at most one is told it succeeded.
CasWonOnce == \A kt \in Keys \X Tokens : wins[kt] <= 1

\* A flush hides what was stored before it: a get that starts after a flush
\* has returned never answers an entry that was stored, on any worker, before
\* that flush was called, although the flush visits one worker at a time.
FlushHides ==
  \A c \in Clients :
    pc[c] = "put" /\ asked[c] # FlushAll =>
      (asked[c].op = "Get" /\ answer[c].err = "ok" =>
         answer[c].cas > floor[c][turn[c]])
=============================================================================
