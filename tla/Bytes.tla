------------------------------- MODULE Bytes -------------------------------
(***************************************************************************)
(* Byte slices as the cache uses them.  A value is a record of its length  *)
(* and of the number that strconv.ParseUint reads from it, or NotNumeric.  *)
(***************************************************************************)
EXTENDS Integers, FiniteSets

CONSTANTS
  MaxUint,       \* the largest uint64
  UintDigits     \* how many decimal digits it has

ASSUME BytesAssumption == MaxUint \in Nat /\ UintDigits \in Nat \ {0}

NotNumeric == -1
Value == [len : Nat, num : 0..MaxUint \cup {NotNumeric}]
NoValue == [len |-> 0, num |-> NotNumeric]

\* The two byte slices one after the other; an empty string and a number
\* beyond 64 bits do not parse.
Concat(v, w) ==
  LET n == v.num * 10 ^ w.len + w.num
  IN [len |-> v.len + w.len,
      num |-> IF v.len = 0 THEN w.num
              ELSE IF w.len = 0 THEN v.num
              ELSE IF NotNumeric \notin {v.num, w.num} /\ n \in 0..MaxUint
              THEN n ELSE NotNumeric]

\* strconv.FormatUint: how many digits n has.
Digits(n) == 1 + Cardinality({d \in 1..(UintDigits - 1) : 10 ^ d <= n})

\* Mutant: a counter that grows beyond 64 bits.
CountedUnbounded(op, n, delta) ==
  LET new == IF op = "Incr" THEN n + delta
             ELSE IF delta > n THEN 0 ELSE n - delta
  IN [len |-> Digits(new), num |-> new]

\* Addition wraps around 64 bits, subtraction stops at 0.
Counted(op, n, delta) ==
  LET new == IF op = "Incr" THEN (n + delta) % (MaxUint + 1)
             ELSE IF delta > n THEN 0 ELSE n - delta
  IN [len |-> Digits(new), num |-> new]
=============================================================================
