-------------------------- MODULE TransactionOrder --------------------------
(***************************************************************************)
(* What doc/Transaction.md ("Transaction Ordering") promises of one        *)
(* connection: the transactions whose logical lifetime has not ended form  *)
(* a stack, only its top (the single active transaction) may be used, a    *)
(* new transaction goes on top, and the logical lifetimes end from the     *)
(* top down.  Registry implements this with one raw pointer in the         *)
(* connection and one shared pointer per transaction object.               *)
(***************************************************************************)
EXTENDS Naturals, Sequences

CONSTANT Tx         \* the transaction objects

VARIABLE active     \* the stack, outermost transaction first

Init == active = <<>>

\* A new transaction becomes the active one.
Begin(t) ==
  /\ \A i \in 1 .. Len(active) : active[i] # t
  /\ active' = Append(active, t)

\* The logical lifetime of the active transaction ends.
End ==
  /\ active # <<>>
  /\ active' = SubSeq(active, 1, Len(active) - 1)

Next == End \/ \E t \in Tx : Begin(t)

Spec == Init /\ [][Next]_active
=============================================================================
