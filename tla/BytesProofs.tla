---------------------------- MODULE BytesProofs ----------------------------
(***************************************************************************)
(* What appending and counting make of values, for every width of the      *)
(* counters.                                                               *)
(***************************************************************************)
EXTENDS Bytes, FiniteSetTheorems, TLAPS

\* Concatenation yields a number only when it fits 64 bits.
LEMMA ConcatType ==
  ASSUME NEW v \in Value, NEW w \in Value
  PROVE  Concat(v, w) \in Value
  BY DEF Concat, Value

\* Counting stays within 64 bits, in both directions.
LEMMA CountedType ==
  ASSUME NEW op, NEW n \in 0..MaxUint, NEW delta \in 0..MaxUint
  PROVE  Counted(op, n, delta) \in Value
  <1> DEFINE new == IF op = "Incr" THEN (n + delta) % (MaxUint + 1)
                    ELSE IF delta > n THEN 0 ELSE n - delta
  <1>1. MaxUint \in Nat
    BY BytesAssumption
  <1>2. new \in 0..MaxUint
    <2>1. (n + delta) % (MaxUint + 1) \in 0..MaxUint
      BY <1>1
    <2> QED BY <1>1, <2>1
  <1>3. Digits(new) \in Nat
    <2> DEFINE D == {d \in 1..(UintDigits - 1) : 10 ^ d <= new}
    <2>1. IsFiniteSet(D)
      <3>1. 0 \in Int /\ 1 \in Int /\ UintDigits - 1 \in Int
        BY BytesAssumption
      <3>2. IsFiniteSet(1..(UintDigits - 1))
        BY <3>1, FS_Interval
      <3>3. D \subseteq 1..(UintDigits - 1)
        OBVIOUS
      <3> HIDE DEF D
      <3> QED BY <3>2, <3>3, FS_Subset
    <2>2. Cardinality(D) \in Nat
      BY <2>1, FS_CardinalityType
    <2> QED BY <2>2 DEF Digits
  <1>4. Counted(op, n, delta) = [len |-> Digits(new), num |-> new]
    BY DEF Counted
  <1> QED BY <1>2, <1>3, <1>4 DEF Value
=============================================================================
