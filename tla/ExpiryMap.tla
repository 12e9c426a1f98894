----------------------------- MODULE ExpiryMap -----------------------------
(***************************************************************************)
(* What an expiry heap promises its callers: a map from keys to expiries   *)
(* which every call changes at the key it names, as Schedule says.         *)
(***************************************************************************)
EXTENDS Index

CONSTANTS Keys, Expiries

VARIABLES
  expiries,
  call       \* the arguments of the last call, the expiry 0 for Remove

NoCall == [key |-> {}, expiry |-> 0]

Init == expiries = EmptyMap /\ call = NoCall

Step(k, expiry) ==
  /\ expiries' = Schedule(expiries, k, expiry)
  /\ call' = [key |-> k, expiry |-> expiry]

Next == \E k \in Keys, expiry \in Expiries \cup {0} : Step(k, expiry)

Spec == Init /\ [][Next]_<<expiries, call>>
=============================================================================
