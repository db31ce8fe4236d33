------------------------------ MODULE Registry ------------------------------
(***************************************************************************)
(* The registration of transaction objects in one connection object.       *)
(*                                                                         *)
(* connection::m_current_transaction is a raw pointer to the innermost     *)
(* registered object.  Every object but an outermost one owns a            *)
(* shared_ptr, m_previous, to the object that was current when it was      *)
(* constructed; table_reader, table_writer and pipeline take part with a   *)
(* transaction_guard and with the pipeline object itself.  commit(),       *)
(* rollback(), finish() and the destructors write the raw pointer back.    *)
(*                                                                         *)
(* A call of the program is one step, except that the destructors run one  *)
(* object per step: destroying an object releases its m_previous, which    *)
(* may destroy the next one.  A connection is used by one thread at a      *)
(* time, so nothing else runs while dying # NoTx.                          *)
(*                                                                         *)
(* What the objects do on the server is left to the modules that extend    *)
(* this one.  A constructor that throws has no effect here: the            *)
(* destructors of the bases it has already run restore the raw pointer.    *)
(***************************************************************************)
EXTENDS Naturals, Sequences

CONSTANTS
  Tx,           \* the transaction objects (their memory may be reused)
  NoTx,         \* the null pointer
  OutOfOrder    \* may the program finish a transaction that is not the
                \* active one, or copy through one that is finished?

ASSUME NoTxAssumption == NoTx \notin Tx
ASSUME OutOfOrderAssumption == OutOfOrder \in BOOLEAN

VARIABLES
  alive,        \* the objects that are constructed and not destroyed
  kind,         \* the class of each object
  reg,          \* m_connection is set (pipeline: m_previous is set)
  prev,         \* m_previous
  held,         \* the program owns a shared_ptr (a guard: the table_reader
                \* or table_writer that owns it is alive)
  current,      \* connection::m_current_transaction
  dying,        \* the object whose destructor runs next
  crashed,      \* a null pointer was dereferenced
  active        \* history: the documented stack, see TransactionOrder

registryVars ==
  << alive, kind, reg, prev, held, current, dying, crashed, active >>

TransactionKinds == {"direct", "top", "sub", "nested"}
Kinds == TransactionKinds \cup {"pipeline", "guard"}

RegistryTypeOK ==
  /\ alive \in SUBSET Tx
  /\ kind \in [Tx -> Kinds \cup {"none"}]
  /\ reg \in [Tx -> BOOLEAN]
  /\ prev \in [Tx -> Tx \cup {NoTx}]
  /\ held \in [Tx -> BOOLEAN]
  /\ current \in Tx \cup {NoTx}
  /\ dying \in Tx \cup {NoTx}
  /\ crashed \in BOOLEAN
  /\ active \in Seq(Tx)

RegistryInit ==
  /\ alive = {}
  /\ kind = [t \in Tx |-> "none"]
  /\ reg = [t \in Tx |-> FALSE]
  /\ prev = [t \in Tx |-> NoTx]
  /\ held = [t \in Tx |-> FALSE]
  /\ current = NoTx
  /\ dying = NoTx
  /\ crashed = FALSE
  /\ active = <<>>

-----------------------------------------------------------------------------
\* The program is running, not a destructor.
Running == dying = NoTx /\ ~crashed

\* check_current_transaction() does not throw.
IsCurrent(t) == reg[t] /\ current = t

\* Does a shared_ptr to p remain once u has given up its own?
Unowned(p, u) ==
  /\ p # NoTx
  /\ ~held[p]
  /\ \A v \in Tx \ {u} : prev[v] # p

Top == active[Len(active)]

\* The stack when the logical lifetime of t ends, wherever t is in it
Ended(t) ==
  LET k == CHOOSE i \in 1 .. Len(active) : active[i] = t
  IN  [ i \in 1 .. Len(active) - 1 |-> IF i < k THEN active[i] ELSE active[i + 1] ]

\* Mistake: m_previous is not set (or does not own its object).
ConstructUnowned(t, k) ==
  /\ t \notin alive
  /\ alive' = alive \cup {t}
  /\ kind' = [kind EXCEPT ![t] = k]
  /\ reg' = [reg EXCEPT ![t] = TRUE]
  /\ held' = [held EXCEPT ![t] = TRUE]
  /\ current' = t
  /\ active' = Append(active, t)
  /\ UNCHANGED << prev, dying, crashed >>

\* The constructor bodies: remember the current transaction in m_previous,
\* become the current one, and hand the only shared_ptr to the program.
Construct(t, k) ==
  /\ t \notin alive
  /\ alive' = alive \cup {t}
  /\ kind' = [kind EXCEPT ![t] = k]
  /\ reg' = [reg EXCEPT ![t] = TRUE]
  /\ prev' = [prev EXCEPT ![t] = current]
  /\ held' = [held EXCEPT ![t] = TRUE]
  /\ current' = t
  /\ active' = Append(active, t)
  /\ UNCHANGED << dying, crashed >>

\* current_transaction() on a null m_connection, or a null or dangling
\* m_current_transaction, is dereferenced.
Crash ==
  /\ crashed' = TRUE
  /\ UNCHANGED << alive, kind, reg, prev, held, current, dying, active >>

\* connection::direct() and connection::transaction()
Begin(t, k) ==
  /\ Running
  /\ current = NoTx
  /\ k \in {"direct", "top"}
  /\ Construct(t, k)

\* Mistake: a savepoint inside a savepoint is an object of no known class.
SubKindUnknown(p) == CASE kind[p] = "direct" -> "sub" [] kind[p] = "top" -> "nested" [] OTHER -> "savepoint"

\* transaction::subtransaction()
SubKind(p) == IF kind[p] = "direct" THEN "sub" ELSE "nested"

Subtransaction(p, t) ==
  /\ Running
  /\ held[p] /\ kind[p] \in TransactionKinds /\ IsCurrent(p)
  /\ Construct(t, SubKind(p))

\* transaction::pipeline()
Pipeline(p, t) ==
  /\ Running
  /\ held[p] /\ kind[p] \in TransactionKinds /\ IsCurrent(p)
  /\ Construct(t, "pipeline")

\* The guard of a table_reader or table_writer on p: nothing checks that p is
\* the current transaction, the guard goes on top of whichever is.  The
\* shared_ptr to p that the reader or writer has besides is left out: p is
\* below the guard in the stack, and so owned through it.
Guard(p, t) ==
  /\ Running
  /\ held[p] /\ kind[p] \in TransactionKinds
  /\ OutOfOrder \/ reg[p]
  /\ IF reg[p] /\ current \in alive THEN Construct(t, "guard") ELSE Crash

\* Mistake: every v_reset() leaves the connection without a transaction, as
\* the one of an outermost transaction does.
ResetToNull(t) ==
  /\ reg' = [reg EXCEPT ![t] = FALSE]
  /\ current' = NoTx
  /\ active' = Ended(t)

\* v_reset(), after commit() or rollback() has succeeded or thrown.
Reset(t) ==
  /\ reg' = [reg EXCEPT ![t] = FALSE]
  /\ current' = prev[t]
  /\ active' = Ended(t)

\* transaction::commit() and transaction::rollback().  When the transaction
\* is not the current one they throw, but only after v_reset(); and v_reset()
\* follows m_connection without looking at it.
Finish(t) ==
  /\ Running
  /\ held[t] /\ kind[t] \in TransactionKinds
  /\ OutOfOrder \/ current = t
  /\ IF reg[t]
       THEN Reset(t) /\ UNCHANGED << alive, kind, prev, held, dying, crashed >>
       ELSE Crash

\* pipeline::finish(); m_previous is released on the way out, also when
\* leaving pipeline mode throws.
FinishPipeline(t) ==
  /\ Running
  /\ held[t] /\ kind[t] = "pipeline" /\ reg[t]
  /\ OutOfOrder \/ current = t
  /\ Reset(t)
  /\ prev' = [prev EXCEPT ![t] = NoTx]
  /\ dying' = IF Unowned(prev[t], t) THEN prev[t] ELSE NoTx
  /\ UNCHANGED << alive, kind, held, crashed >>

\* Mistake: the handle deletes the object, inner objects or not.
DropDeletes(t) ==
  /\ Running
  /\ held[t]
  /\ held' = [held EXCEPT ![t] = FALSE]
  /\ dying' = t
  /\ UNCHANGED << alive, kind, reg, prev, current, crashed, active >>

\* The program gives up its last shared_ptr to t; for a guard this is the end
\* of the table_reader or table_writer, or of its COPY.
Drop(t) ==
  /\ Running
  /\ held[t]
  /\ held' = [held EXCEPT ![t] = FALSE]
  /\ dying' = IF \E u \in Tx : prev[u] = t THEN NoTx ELSE t
  /\ UNCHANGED << alive, kind, reg, prev, current, crashed, active >>

\* Mistake: the destructor does not write m_previous back.
DestroyQuietly(t) ==
  /\ dying = t /\ ~crashed
  /\ alive' = alive \ {t}
  /\ kind' = [kind EXCEPT ![t] = "none"]
  /\ prev' = [prev EXCEPT ![t] = NoTx]
  /\ reg' = [reg EXCEPT ![t] = FALSE]
  /\ dying' = IF Unowned(prev[t], t) THEN prev[t] ELSE NoTx
  /\ UNCHANGED << held, current, crashed, active >>

\* The destructor of t.  Whether or not it rolled back, a t that was still
\* registered has written m_previous to the raw pointer, current or not.
Destroy(t) ==
  /\ dying = t /\ ~crashed
  /\ alive' = alive \ {t}
  /\ kind' = [kind EXCEPT ![t] = "none"]
  /\ prev' = [prev EXCEPT ![t] = NoTx]
  /\ dying' = IF Unowned(prev[t], t) THEN prev[t] ELSE NoTx
  /\ IF reg[t] THEN Reset(t) ELSE UNCHANGED << reg, current, active >>
  /\ UNCHANGED << held, crashed >>

RegistryNext ==
  \/ \E t \in Tx : \E k \in {"direct", "top"} : Begin(t, k)
  \/ \E p, t \in Tx : Subtransaction(p, t)
  \/ \E p, t \in Tx : Pipeline(p, t)
  \/ \E p, t \in Tx : Guard(p, t)
  \/ \E t \in Tx : Finish(t)
  \/ \E t \in Tx : FinishPipeline(t)
  \/ \E t \in Tx : Drop(t)
  \/ \E t \in Tx : Destroy(t)

RegistrySafeSpec == RegistryInit /\ [][RegistryNext]_registryVars

\* A destructor that has begun runs to its end; the program owes nothing.
RegistrySpec == RegistrySafeSpec /\ WF_registryVars(\E t \in Tx : Destroy(t))

-----------------------------------------------------------------------------
\* The raw pointer and the m_previous pointers describe the documented stack:
\* the current transaction is its top, each member remembers the one below
\* it, and an object has its m_connection exactly while it is in the stack.
CurrentIsTop ==
  /\ current = IF active = <<>> THEN NoTx ELSE Top
  /\ \A i \in 1 .. Len(active) :
       prev[active[i]] = IF i = 1 THEN NoTx ELSE active[i - 1]
  /\ \A t \in Tx : reg[t] <=> \E i \in 1 .. Len(active) : active[i] = t

\* m_current_transaction and the m_previous pointers never dangle, and an
\* object lives exactly as long as a shared_ptr to it does.
PointersAlive ==
  /\ current \in alive \cup {NoTx}
  /\ \A t \in Tx : prev[t] \in alive \cup {NoTx}
  /\ \A t \in Tx \ {dying} :
       t \in alive <=> held[t] \/ \E u \in Tx : prev[u] = t

\* The documentation has taoPQ notice every use in the wrong order and throw;
\* it never dereferences a null m_connection or m_current_transaction.
NeverCrashes == ~crashed

\* Once the program holds no transaction, table_reader, table_writer or
\* pipeline any more, the connection is free for a new transaction: the chain
\* of destructors deregisters every object, in any order of the releases.
DroppedHandlesFreeConnection ==
  (\A t \in Tx : ~held[t]) ~> (current = NoTx /\ alive = {})

\* The objects implement the documented stack discipline: however the program
\* drops its handles, the destructors too end lifetimes from the top down.
Order == INSTANCE TransactionOrder
ImplementsTransactionOrder == Order!Spec
=============================================================================
