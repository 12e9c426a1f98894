CONSTANTS
  Clients = {c1, c2}
  Channels = {r1, r2}
  NoChannel = NoChannel
  NoAnswer = NoAnswer
  WorkerCount = 2
  Capacity = 0
  Closing = FALSE
  Keys = {k1, k2}
  Hash <- TwoHashes
  HashSize = 8
  IntSize = 16
  DefaultThreadCount = 2
  MaxCalls = 4
  Requests <- TokenRequests
  FlushAll = FlushAll
  WorkerFor <- Route
  States <- TokenShards
  NewShard <- NoTokens
  Replies <- TokenReplies
  Handle <- HandleTokens
  Upkeep <- LoseTokens
SYMMETRY Symmetry
SPECIFICATION HSpec
INVARIANTS CasWonOnce FlushHides
PROPERTY ImplementsAtomicCache
CHECK_DEADLOCK FALSE
