CONSTANTS
  Tx = {t1, t2, t3, t4}
  NoTx = NoTx
  OutOfOrder = TRUE
SPECIFICATION RegistrySafeSpec
INVARIANT NeverCrashes
CHECK_DEADLOCK FALSE
