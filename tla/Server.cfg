CONSTANTS
  Conns = {c1, c2, c3}
  MaxConnections = 2
  NoConn = NoConn
SPECIFICATION FairSpec
INVARIANTS TypeOK LimitHolds CounterExact
PROPERTIES DialsAnswered PlacesComeBack
