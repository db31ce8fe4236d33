CONSTANTS
  Tx = {t1, t2, t3}
  NoTx = NoTx
  Addr = {a1, a2}
  NoAddr = NoAddr
  OutOfOrder = FALSE
  Asynchronous = TRUE
SPECIFICATION Spec
SYMMETRY Symmetry
INVARIANT DestructorRollsBack
CHECK_DEADLOCK FALSE
