CONSTANTS
  Thread = {h1, h2}
  Conn = {c1, c2}
  NoConn = NoConn
  PoolId = {p1}
  NoPool = NoPool
  SeesEnd = TRUE
  MaxEnded = 2
SPECIFICATION Spec
PROPERTY CallsReturn
CHECK_DEADLOCK FALSE
