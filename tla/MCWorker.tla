------------------------------ MODULE MCWorker ------------------------------
(***************************************************************************)
(* Small instances of Worker for TLC: keys of one byte, decimal numbers up *)
(* to 11 for uint64.                                                       *)
(***************************************************************************)
EXTENDS Worker

OneByteKeys == [k \in Keys |-> 1]

Nine == [len |-> 1, num |-> 9]
Ten == [len |-> 2, num |-> 10]
Text == [len |-> 3, num |-> NotNumeric]

NumberAndText == {Nine, Text}
TwoNumbers == {Nine, Ten}
OneNumber == {Nine}

\* A TTL below the resolution of the clock, one above it, and one that has
\* already passed when the binary protocol subtracts the time of day.
SomeTTLs == {-1, 0, 1, 3}

KeySymmetry == Permutations(Keys)
=============================================================================
