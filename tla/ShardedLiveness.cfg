CONSTANTS
  Clients = {c1, c2}
  Channels = {r1, r2}
  NoChannel = NoChannel
  NoAnswer = NoAnswer
  WorkerCount = 2
  Capacity = 1
  Closing = TRUE
  Keys = {0, 1}
  Hash <- HighHashes
  HashSize = 8
  IntSize = 16
  DefaultThreadCount = 2
  KeyOps = {"Set"}
  Requests <- KeyRequests
  FlushAll = FlushAll
  WorkerFor <- RouteByKey
  States <- KeySets
  NewShard <- Empty
  Replies <- KeyReplies
  Handle <- HandleKeys
  Upkeep <- ExpireKeys
SPECIFICATION FairSpec
INVARIANTS TypeOK ChannelsExclusive WorkersNeverBlock
PROPERTIES CallsReturn CloseReturns
CHECK_DEADLOCK FALSE
