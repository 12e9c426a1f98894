CONSTANTS
  Keys = {k1, k2, k3}
  KeyLen <- OneByteKeys
  Values <- NumberAndText
  TTLs = {0}
  Deltas = {2, 3}
  DefaultTTL = 0
  StalePercent = 200
  MaxMemory = 7
  MaxUint = 11
  UintDigits = 2
  TicksPerMs = 1
  StartClock = 1
  CasStart = 1
  MaxClock = 1
  MaxCas = 5
  MaxLen = 6
SYMMETRY KeySymmetry
SPECIFICATION Spec
INVARIANT MemoryTracked
