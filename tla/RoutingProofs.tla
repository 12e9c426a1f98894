--------------------------- MODULE RoutingProofs ---------------------------
(***************************************************************************)
(* What holds of the workers' numbers and shares, for any hash function,   *)
(* any number of workers and any limit; and where it ends.                 *)
(***************************************************************************)
EXTENDS Routing, TLAPS

\* Division with remainder, for what Go's agrees with.
LEMMA QuotientOfNat ==
  ASSUME NEW a \in Nat, NEW b \in Nat \ {0}
  PROVE  /\ Quotient(a, b) \in Nat
         /\ Remainder(a, b) = a % b
         /\ a % b \in 0..(b - 1)
         /\ a = b * Quotient(a, b) + (a % b)
  <1>1. a = b * (a \div b) + (a % b) /\ a % b \in 0..(b - 1) /\ a \div b \in Nat
    OBVIOUS
  <1>2. Quotient(a, b) = a \div b
    BY DEF Quotient
  <1> HIDE DEF Quotient
  <1> QED BY <1>1, <1>2 DEF Remainder

\* Where int is wider than the hash, workerFor always names a worker: the slice
\* index is in range, and each key has one worker (a function of its hash).
THEOREM RoutedInRange ==
  ASSUME 2 * HashSize <= IntSize
  PROVE  \A k \in Keys : WorkerOf(k) \in Workers
  <1> SUFFICES ASSUME NEW k \in Keys PROVE WorkerOf(k) \in Workers
    OBVIOUS
  <1>1. WorkerCount \in Nat \ {0} /\ Hash[k] \in Nat /\ Hash[k] < HashSize
    BY ShardsAssumption, RoutingAssumption
  <1>2. AsInt(Hash[k]) = Hash[k]
    BY <1>1, RoutingAssumption DEF AsInt
  <1> QED BY <1>1, <1>2, QuotientOfNat DEF WorkerOf, Workers

\* Where int is as narrow as the hash, a key whose hash has the top bit set gets
\* no positive number: it must be worker 0, or the index is out of range.
THEOREM NarrowIntNotPositive ==
  ASSUME NEW k \in Keys, IntSize = HashSize, 2 * Hash[k] >= IntSize
  PROVE  WorkerOf(k) <= 0
  <1> DEFINE a == IntSize - Hash[k]
  <1>1. a \in Nat /\ WorkerCount \in Nat \ {0} /\ a > 0
    BY ShardsAssumption, RoutingAssumption
  <1>2. AsInt(Hash[k]) = -a
    BY RoutingAssumption DEF AsInt
  <1>3. a = WorkerCount * (a \div WorkerCount) + (a % WorkerCount)
        /\ a % WorkerCount \in 0..(WorkerCount - 1) /\ a \div WorkerCount \in Nat
    BY <1>1
  <1>4. Quotient(-a, WorkerCount) = -(a \div WorkerCount)
    BY <1>1 DEF Quotient
  <1> HIDE DEF a
  <1>5. Remainder(-a, WorkerCount) = -(a % WorkerCount)
    <2> DEFINE q == a \div WorkerCount
    <2>1. q \in Nat /\ a = WorkerCount * q + (a % WorkerCount)
      BY <1>3
    <2>2. Remainder(-a, WorkerCount) = -a - WorkerCount * (-q)
      BY <1>4 DEF Remainder
    <2> HIDE DEF q
    <2> QED BY <1>1, <1>3, <2>1, <2>2
  <1> QED BY <1>1, <1>2, <1>3, <1>5 DEF WorkerOf

\* The shares of the workers never add up to more than the limit, and lose less
\* than a byte per worker.
THEOREM SharesFitLimit ==
  ASSUME NEW maxMemory \in Nat, NEW workerCount \in Int
  PROVE  LET n == Workforce(workerCount)
             share == MaxMemoryPerWorker(maxMemory, workerCount)
         IN n * share <= maxMemory /\ maxMemory < n * share + n
  <1> DEFINE n == Workforce(workerCount)
             share == MaxMemoryPerWorker(maxMemory, workerCount)
  <1>1. n \in Nat \ {0}
    BY RoutingAssumption DEF Workforce
  <1>2. share = Quotient(maxMemory, n)
    BY DEF MaxMemoryPerWorker
  <1> HIDE DEF n, share
  <1>3. /\ share \in Nat /\ maxMemory % n \in 0..(n - 1)
        /\ maxMemory = n * share + (maxMemory % n)
    BY <1>1, <1>2, QuotientOfNat
  <1>4. n * share <= maxMemory /\ maxMemory < n * share + n
    BY <1>1, <1>3
  <1> QED BY <1>4 DEF n, share

\* A worker takes a share of 0 for no limit: a limited cache has an unlimited
\* worker exactly if its limit is below a byte per worker.
THEOREM ShareLostWhenTiny ==
  ASSUME NEW maxMemory \in Nat, NEW workerCount \in Int
  PROVE  MaxMemoryPerWorker(maxMemory, workerCount) = 0
           <=> maxMemory < Workforce(workerCount)
  <1> DEFINE n == Workforce(workerCount)
             share == MaxMemoryPerWorker(maxMemory, workerCount)
  <1>1. n \in Nat \ {0}
    BY RoutingAssumption DEF Workforce
  <1>2. share = Quotient(maxMemory, n)
    BY DEF MaxMemoryPerWorker
  <1> SUFFICES share = 0 <=> maxMemory < n
    OBVIOUS
  <1> HIDE DEF n, share
  <1>3. /\ share \in Nat /\ maxMemory % n \in 0..(n - 1)
        /\ maxMemory = n * share + (maxMemory % n)
    BY <1>1, <1>2, QuotientOfNat
  <1>4. CASE share = 0
    BY <1>1, <1>3, <1>4
  <1>5. CASE share >= 1
    <2>1. n * share >= n
      BY <1>1, <1>3, <1>5
    <2> QED BY <1>1, <1>3, <1>5, <2>1
  <1> QED BY <1>3, <1>4, <1>5
=============================================================================
