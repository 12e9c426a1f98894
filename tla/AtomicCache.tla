----------------------------- MODULE AtomicCache -----------------------------
(***************************************************************************)
(* What callers may rely on: a call of the cache takes effect on its shard *)
(* at one instant between the call and its return, and its answer is the   *)
(* one that instant produced.  A flush takes effect on one shard after the *)
(* other.  A shard that is down takes no effect any more, and calls to it  *)
(* may never return.                                                       *)
(***************************************************************************)
EXTENDS Shards

CONSTANT NoAnswer

VARIABLES
  shard,   \* the contents of each shard
  call,    \* per client, its current or last call
  down     \* per shard, whether its worker has been stopped

avars == <<shard, call, down>>

Calls == Requests \cup {FlushAll}

\* at is the shard on which an asked call takes effect next.
Call == [phase : {"idle", "asked", "answered"}, req : Calls \cup {NoAnswer},
         at : Workers, reply : Replies \cup {NoAnswer}]

Init ==
  /\ shard = [w \in Workers |-> NewShard]
  /\ call = [c \in Clients |-> [phase |-> "idle", req |-> NoAnswer, at |-> 0,
                                reply |-> NoAnswer]]
  /\ down = [w \in Workers |-> FALSE]

Ask(c, r) ==
  /\ call[c].phase = "idle"
  /\ call' = [call EXCEPT ![c] = [phase |-> "asked", req |-> r,
                                  at |-> FirstWorker(r), reply |-> NoAnswer]]
  /\ UNCHANGED <<shard, down>>

Perform(c) ==
  LET r == call[c].req
      w == call[c].at
  IN /\ call[c].phase = "asked" /\ ~down[w]
     /\ \E o \in Handle(shard[w], r) :
          /\ shard' = [shard EXCEPT ![w] = o.state]
          /\ call' = [call EXCEPT ![c] =
                        [phase |-> IF LastWorker(r, w) THEN "answered" ELSE "asked",
                         req |-> r,
                         at |-> IF LastWorker(r, w) THEN w ELSE w + 1,
                         reply |-> o.reply]]
     /\ UNCHANGED down

Return(c) ==
  /\ call[c].phase = "answered"
  /\ call' = [call EXCEPT ![c] = [phase |-> "idle", req |-> NoAnswer, at |-> 0,
                                  reply |-> @.reply]]
  /\ UNCHANGED <<shard, down>>

Maintain(w) ==
  /\ ~down[w]
  /\ \E s \in Upkeep(shard[w]) : shard' = [shard EXCEPT ![w] = s]
  /\ UNCHANGED <<call, down>>

GoDown(w) ==
  /\ down' = [down EXCEPT ![w] = TRUE]
  /\ UNCHANGED <<shard, call>>

Next ==
  \/ \E c \in Clients :
       \/ \E r \in Calls : Ask(c, r)
       \/ Perform(c)
       \/ Return(c)
  \/ \E w \in Workers : Maintain(w) \/ GoDown(w)

Spec == Init /\ [][Next]_avars
=============================================================================
