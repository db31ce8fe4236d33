--------------------------- MODULE MCBulkTransfer ---------------------------
(***************************************************************************)
(* BulkTransfer with three objects and up to two rows: a direct            *)
(* transaction, a reader or writer on it, and another one in its place, on *)
(* top of it, or refused.  Objects are reused.                             *)
(***************************************************************************)
EXTENDS BulkTransfer, TLC

Symmetry == Permutations(Tx)
=============================================================================
