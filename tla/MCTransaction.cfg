CONSTANTS
  Tx = {t1, t2, t3}
  NoTx = NoTx
  Addr = {a1, a2}
  NoAddr = NoAddr
  OutOfOrder = FALSE
  Asynchronous = TRUE
SPECIFICATION Spec
SYMMETRY Symmetry
INVARIANTS
  SavepointIsOwn
  DurableWasCommitted
  AcknowledgedIsDurable
  FreeMeansIdle
PROPERTIES
  RollbackDiscardsOwn
CHECK_DEADLOCK FALSE
