------------------------------ MODULE Routing ------------------------------
(***************************************************************************)
(* How NewSharded sets up its workers and workerFor finds the one of a key. *)
(* The integers have widths: a hash is one of HashSize numbers (2^32), an  *)
(* int one of IntSize numbers, half of them negative (2^64, or 2^32 where  *)
(* int has 32 bits).  Nothing depends on which hash a key has.             *)
(***************************************************************************)
EXTENDS Shards, Integers

CONSTANTS
  Keys, Hash,          \* the keys, and the FNV-1a hash of each
  HashSize, IntSize,
  DefaultThreadCount

ASSUME RoutingAssumption ==
  /\ HashSize \in Nat \ {0} /\ IntSize \in Nat \ {0} /\ HashSize <= IntSize
  /\ Hash \in [Keys -> 0..(HashSize - 1)]
  /\ DefaultThreadCount \in Nat \ {0}

\* Go's division truncates towards zero, the remainder has the dividend's sign.
Quotient(a, b) == IF a >= 0 THEN a \div b ELSE -((-a) \div b)
Remainder(a, b) == a - b * Quotient(a, b)

\* The conversion int(hash) keeps the bits.
AsInt(hash) == IF 2 * hash < IntSize THEN hash ELSE hash - IntSize

WorkerOf(k) == Remainder(AsInt(Hash[k]), WorkerCount)

\* How many workers there are, and how much memory each may use.
Workforce(workerCount) == IF workerCount <= 0 THEN DefaultThreadCount ELSE workerCount
MaxMemoryPerWorker(maxMemory, workerCount) == Quotient(maxMemory, Workforce(workerCount))
=============================================================================
