CONSTANTS
  Tx = {t1, t2, t3}
  NoTx = NoTx
  OutOfOrder = FALSE
  Object = {o1, o2}
  Oid = {i1, i2}
  MaxFd = 3
SPECIFICATION LargeObjectSpec
SYMMETRY Symmetry
INVARIANTS
  ObjectsMayOutlive
CHECK_DEADLOCK FALSE
