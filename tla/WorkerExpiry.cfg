CONSTANTS
  Keys = {k1, k2}
  KeyLen <- OneByteKeys
  Values <- OneNumber
  TTLs <- SomeTTLs
  Deltas = {3}
  DefaultTTL = 0
  StalePercent = 150
  MaxMemory = 4
  MaxUint = 11
  UintDigits = 2
  TicksPerMs = 2
  StartClock = 2
  CasStart = 1
  MaxClock = 9
  MaxCas = 4
  MaxLen = 3
SYMMETRY KeySymmetry
SPECIFICATION HSpec
INVARIANTS IndexInStep RefreshOnce
PROPERTIES DriftOnlyBySelfEviction ImplementsCache
