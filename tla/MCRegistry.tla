----------------------------- MODULE MCRegistry -----------------------------
(***************************************************************************)
(* Registry with four objects: enough for an outermost transaction, two    *)
(* nested objects and a handle the program keeps to an object that is      *)
(* already finished.  Objects are reused after their destruction, so the   *)
(* behaviours are unbounded.                                               *)
(***************************************************************************)
EXTENDS Registry
=============================================================================
