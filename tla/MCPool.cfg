CONSTANTS
  Thread = {h1, h2}
  Conn = {c1, c2}
  NoConn = NoConn
  PoolId = {p1, p2}
  NoPool = NoPool
  SeesEnd = TRUE
  MaxEnded = 1
SPECIFICATION SafeSpec
INVARIANTS
  OnePlace
  ListedIsFree
  AttachedIsExact
  NoUseAfterFree
PROPERTIES
  BorrowedIsUsable
CHECK_DEADLOCK FALSE
