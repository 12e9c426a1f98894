SPECIFICATION Spec
CONSTANTS
  t = t
  b = b
  d = d
  x = x
  y = y
  k1 = k1
  Conns = {t, b, d}
  BinaryConns = {b, d}
  Keys = {k1}
  Sessions <- MCAlone
  Now = 10
  TicksPerSecond = 2
  Month = 3
  Texts <- MCTexts
  LinesIn <- MCLinesIn
  Fragments <- MCFragments
  Buffers = {x, y}
  NoBuffer = NoBuffer
  NoCommand = NoCommand
  MaxUint = 11
  UintDigits = 2
INVARIANTS GatsTokenCurrent
CHECK_DEADLOCK FALSE
