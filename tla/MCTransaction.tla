--------------------------- MODULE MCTransaction ----------------------------
(***************************************************************************)
(* Transaction with three objects, each used once, and two addresses:      *)
(* three levels of nesting, an address reused by a later sibling, and      *)
(* outermost transactions one after the other.                             *)
(***************************************************************************)
EXTENDS Transaction, TLC

Symmetry == Permutations(Tx) \cup Permutations(Addr)
=============================================================================
