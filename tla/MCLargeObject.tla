--------------------------- MODULE MCLargeObject ----------------------------
(***************************************************************************)
(* LargeObject with three transactions, two objects and two large objects: *)
(* a nested transaction inside another, a number that is reused for        *)
(* another large object, and a third number for one that was left open.    *)
(***************************************************************************)
EXTENDS LargeObject, TLC

Symmetry == Permutations(Tx) \cup Permutations(Object) \cup Permutations(Oid)
=============================================================================
