CONSTANTS
  Tx = {t1, t2, t3}
  NoTx = NoTx
  OutOfOrder = FALSE
  MaxRows = 2
  CallbacksThrow = TRUE
SPECIFICATION Spec
SYMMETRY Symmetry
INVARIANTS
  TypeOK
  CopyIsOwn
  WriterIsAllOrNothing
  ReaderIsComplete
  GetResultEndsCopy
  ReturnLeavesReady
  UnreachableIsNot
CHECK_DEADLOCK FALSE
