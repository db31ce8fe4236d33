CONSTANTS
  Tx = {t1, t2, t3, t4}
  NoTx = NoTx
  OutOfOrder = FALSE
SPECIFICATION RegistrySpec
INVARIANTS
  RegistryTypeOK
  CurrentIsTop
  PointersAlive
PROPERTIES
  ImplementsTransactionOrder
  DroppedHandlesFreeConnection
CHECK_DEADLOCK TRUE
