CONSTANTS
  Keys = {k1, k2, k3}
  KeyLen <- OneByteKeys
  Values <- OneNumber
  TTLs = {0, 1}
  Deltas = {3}
  DefaultTTL = 0
  StalePercent = 300
  MaxMemory = 4
  MaxUint = 11
  UintDigits = 2
  TicksPerMs = 1
  StartClock = 1
  CasStart = 1
  MaxClock = 3
  MaxCas = 5
  MaxLen = 2
SYMMETRY KeySymmetry
SPECIFICATION HSpec
INVARIANT StaleOnlyAfterRefresh
