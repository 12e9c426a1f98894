CONSTANTS
  Keys = {k1, k2, k3, k4, k5, k6}
  Expiries = {1, 2, 3}
SYMMETRY KeySymmetry
SPECIFICATION Spec
INVARIANTS TypeOK KeyIndexExact RootIsEarliest HeapOrdered
PROPERTY ImplementsExpiryMap
