------------------------------ MODULE Entries ------------------------------
(***************************************************************************)
(* What a cache entry is and how the operations compute a new one: the     *)
(* values, the expiries and the responses of pkg/tqmemory.                 *)
(*                                                                         *)
(* Time is counted in ticks, TicksPerMs of which make a millisecond, the   *)
(* unit of the expiries.                                                   *)
(***************************************************************************)
EXTENDS Bytes

CONSTANTS
  Keys,          \* the keys clients use
  Values,        \* the values clients send
  TTLs,          \* the TTLs clients send: 0 for none, negative never expires
  Deltas,        \* the amounts clients increment and decrement by
  DefaultTTL,    \* Config.DefaultTTL, 0 for none
  StalePercent,  \* 100 * Config.StaleMultiplier, 0 for disabled
  TicksPerMs     \* resolution of the clock over that of the expiries

ASSUME EntriesAssumption ==
  /\ Values \subseteq Value
  /\ TTLs \subseteq Int /\ Deltas \subseteq 0..MaxUint
  /\ DefaultTTL \in Nat /\ StalePercent \in Nat
  /\ TicksPerMs \in Nat \ {0}

Entry == [value : Value, soft : Nat, hard : Nat, cas : Nat,
          refreshing : BOOLEAN]

\* The operations, and the response of their handlers.
Ops == {"Get", "Set", "Add", "Replace", "Cas", "Delete", "Touch", "Incr",
        "Decr", "Append", "Prepend", "FlushAll"}
NoKey == "none"
Status == {"ok", "ErrKeyNotFound", "ErrKeyExists", "ErrCasMismatch",
           "ErrNotNumeric"}
Reply == [op : Ops \cup {"none"}, key : Keys \cup {NoKey}, err : Status,
          value : Value, cas : Nat, flags : {0, 1, 3}]
NoReply == [op |-> "none", key |-> NoKey, err |-> "ok", value |-> NoValue,
            cas |-> 0, flags |-> 0]

-----------------------------------------------------------------------------
(* Expiries *)

UnixMilli(t) == t \div TicksPerMs

\* The TTL a store or a touch applies.
Effective(ttl) == IF ttl = 0 THEN DefaultTTL ELSE ttl

SoftExpiry(now, ttl) ==
  IF Effective(ttl) > 0 THEN UnixMilli(now + Effective(ttl)) ELSE 0

HardExpiry(now, ttl) ==
  IF Effective(ttl) > 0 /\ StalePercent > 0
  THEN UnixMilli(now + (Effective(ttl) * StalePercent) \div 100)
  ELSE SoftExpiry(now, ttl)

\* Past the hard expiry an entry is gone, past the soft one it is stale.
HardExpired(e, now) == e.hard > 0 /\ e.hard <= UnixMilli(now)
SoftExpired(e, now) == e.soft > 0 /\ e.soft <= UnixMilli(now)

\* The flags of a get: 0 fresh, 3 for the first get of a stale entry, 1 after.
Flags(e, now) ==
  IF ~SoftExpired(e, now) THEN 0 ELSE IF e.refreshing THEN 1 ELSE 3

\* The entry a store builds, before it has its token.
NewEntry(v, now, ttl) ==
  [value |-> v, soft |-> SoftExpiry(now, ttl), hard |-> HardExpiry(now, ttl),
   cas |-> 0, refreshing |-> FALSE]
=============================================================================
