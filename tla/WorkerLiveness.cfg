CONSTANTS
  Keys = {k1, k2}
  KeyLen <- OneByteKeys
  Values <- OneNumber
  TTLs = {0, 2}
  Deltas = {3}
  DefaultTTL = 1
  StalePercent = 0
  MaxMemory = 3
  MaxUint = 11
  UintDigits = 2
  TicksPerMs = 1
  StartClock = 1
  CasStart = 1
  MaxClock = 3
  MaxCas = 4
  MaxLen = 2
SPECIFICATION FairSpec
PROPERTIES ExpiredReclaimed HandlersReturn
