------------------------------- MODULE MCPool -------------------------------
(***************************************************************************)
(* Pool for its two configurations: MCPool has two threads, two pools      *)
(* and two connections that are opened again after they were closed;       *)
(* MCPoolCalls has one pool.                                               *)
(***************************************************************************)
EXTENDS Pool
=============================================================================
