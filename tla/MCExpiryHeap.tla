---------------------------- MODULE MCExpiryHeap ----------------------------
EXTENDS ExpiryHeap, TLC

KeySymmetry == Permutations(Keys)
=============================================================================
