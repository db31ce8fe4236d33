---------------------------- MODULE Transaction -----------------------------
(***************************************************************************)
(* Direct, top-level and nested transactions on one connection: Registry   *)
(* composed with the statements the objects execute and with the server's  *)
(* session (Postgres).                                                     *)
(*                                                                         *)
(* A method of a transaction is one step.  The statement it executes is    *)
(* answered, refused by libpq because an earlier result was not read,      *)
(* lost together with the connection (a timeout closes the connection as   *)
(* well), or its answer is cut short by an exception out of a poll         *)
(* callback or a notification handler.                                     *)
(***************************************************************************)
EXTENDS Registry, Postgres

CONSTANTS
  Addr,         \* the addresses nested transactions are allocated at
  NoAddr,
  Asynchronous  \* does the program use send() and get_result(), and may its
                \* poll callback or notification handlers throw?

ASSUME NoAddrAssumption == NoAddr \notin Addr
ASSUME AsynchronousAssumption == Asynchronous \in BOOLEAN

VARIABLES
  addr,         \* the address of each nested transaction: its savepoint's name
  session,      \* the server's session
  open,         \* the connection's status is connection_status::ok
  unread,       \* what libpq still holds of the last statement: "none", its
                \* result ("full"), or only the null that ends it ("tail")
  durable,      \* history: the objects whose writes the server made durable
  wrote,        \* history: the objects one of whose writes succeeded
  fate,         \* history: how the logical lifetime of each object ended
  lineage       \* history: the object and its enclosing non-direct ones

serverVars == << session, open, unread, durable >>
historyVars == << addr, wrote, fate, lineage >>
vars == << registryVars, serverVars, historyVars >>

Fates ==
  { "unborn", "open",
    "ended",            \* a direct transaction
    "committed",        \* commit() returned
    "discarded",        \* commit() returned, the server had given up before
    "commit_failed",    \* commit() threw: an error, or the connection is lost
    "rolled_back",      \* rollback() returned, or the destructor rolled back
    "rollback_failed",  \* the same, with an error or the connection lost
    "unfinished",       \* the last statement was refused or cut short
    "abandoned",        \* the destructor did not try to roll back
    "stillborn" }       \* the constructor threw

\* What the variables range over.
TypeOK ==
  /\ RegistryTypeOK
  /\ addr \in [Tx -> Addr \cup {NoAddr}]
  /\ session \in Sessions(Addr \cup {NoAddr}, Tx)
  /\ open \in BOOLEAN
  /\ unread \in {"none", "full", "tail"}
  /\ durable \in SUBSET Tx
  /\ wrote \in SUBSET Tx
  /\ fate \in [Tx -> Fates]
  /\ lineage \in [Tx -> SUBSET Tx]

Init ==
  /\ RegistryInit
  /\ addr = [t \in Tx |-> NoAddr]
  /\ session = Idle
  /\ open = TRUE
  /\ unread = "none"
  /\ durable = {}
  /\ wrote = {}
  /\ fate = [t \in Tx |-> "unborn"]
  /\ lineage = [t \in Tx |-> {}]

-----------------------------------------------------------------------------
(* The statements.                                                         *)

\* PQtransactionStatus()
TransactionStatus ==
  CASE ~open            -> "unknown"
    [] unread # "none"  -> "active"
    [] OTHER            -> session.xact

AttemptRollback == TransactionStatus \notin {"idle", "active"}

\* libpq takes a new statement.
Ready == open /\ unread = "none"

\* The server executes c.  Beyond what it must refuse, a write may fail, and
\* so may START (a mode the server does not allow) and COMMIT (deferred
\* constraints, serialization).
Succeed(c) ==
  /\ Accepts(session, c)
  /\ session' = Apply(session, c)
  /\ durable' = durable \cup Hardens(session, c)

Err(c) ==
  /\ ~Accepts(session, c) \/ c.op \in {"write", "start", "commit"}
  /\ session' = Fail(session, c)
  /\ UNCHANGED durable

\* The session ends; when it dies after a statement reached the server, the
\* statement may or may not have been executed.
Lose(hardened) ==
  /\ open' = FALSE
  /\ session' = Idle
  /\ unread' = "none"
  /\ durable' \in {durable, durable \cup hardened}

\* transaction::execute(): send_params() and get_result().  It returns only
\* with the outcome "done" and throws with every other.
Outcomes == {"done", "error", "refused", "lost", "interrupted"}

Execute(c, outcome) ==
  \/ /\ outcome = "done" /\ Ready
     /\ Succeed(c)
     /\ UNCHANGED << open, unread >>
  \/ /\ outcome = "error" /\ Ready
     /\ Err(c)
     /\ UNCHANGED << open, unread >>
  \/ /\ outcome = "refused" /\ ~Ready
     /\ UNCHANGED serverVars
  \/ /\ outcome = "lost" /\ Ready
     /\ Lose(IF Accepts(session, c) THEN Hardens(session, c) ELSE {})
  \/ /\ outcome = "interrupted" /\ Ready /\ Asynchronous
     /\ Succeed(c) \/ Err(c)
     /\ unread' \in {"none", "full", "tail"}
     /\ UNCHANGED open

\* What becomes of an object when its last statement had this outcome: with
\* the connection gone nothing is left to be finished.
Unfinished(outcome) == outcome = "interrupted" \/ (outcome = "refused" /\ open)

CommitFate(outcome) ==
  CASE outcome = "done"     -> IF session.xact = "in_transaction" THEN "committed" ELSE "discarded"
    [] Unfinished(outcome)  -> "unfinished"
    [] OTHER                -> "commit_failed"

RollbackFate(outcome) ==
  CASE outcome = "done"     -> "rolled_back"
    [] Unfinished(outcome)  -> "unfinished"
    [] OTHER                -> "rollback_failed"

BirthFate(outcome) ==
  CASE outcome = "done"     -> "open"
    [] Unfinished(outcome)  -> "unfinished"
    [] OTHER                -> "stillborn"

Becomes(t, f) == fate' = [fate EXCEPT ![t] = f]

-----------------------------------------------------------------------------
(* The operations.                                                         *)

\* connection::direct()
BeginDirect(t) ==
  /\ fate[t] = "unborn"
  /\ Begin(t, "direct")
  /\ Becomes(t, "open")
  /\ UNCHANGED << serverVars, addr, wrote, lineage >>

\* connection::transaction() and, on a direct transaction, subtransaction():
\* the constructor executes START TRANSACTION.
Started(t, outcome, Registration) ==
  /\ Execute(Command("start", t, NoAddr), outcome)
  /\ IF outcome = "done" THEN Registration ELSE UNCHANGED registryVars
  /\ Becomes(t, BirthFate(outcome))
  /\ lineage' = [lineage EXCEPT ![t] = {t}]
  /\ UNCHANGED << addr, wrote >>

BeginTop(t) ==
  /\ fate[t] = "unborn"
  /\ Running /\ current = NoTx
  /\ \E outcome \in Outcomes : Started(t, outcome, Begin(t, "top"))

BeginSub(p, t) ==
  /\ fate[t] = "unborn"
  /\ Running /\ held[p] /\ kind[p] = "direct" /\ IsCurrent(p)
  /\ \E outcome \in Outcomes : Started(t, outcome, Subtransaction(p, t))

\* subtransaction() on any other transaction: the constructor executes
\* SAVEPOINT, named after the address of the new object.
BeginNested(p, t) ==
  /\ fate[t] = "unborn"
  /\ Running /\ held[p] /\ kind[p] \in TransactionKinds \ {"direct"} /\ IsCurrent(p)
  /\ \E a \in Addr \ { addr[u] : u \in alive }, outcome \in Outcomes :
       /\ Execute(Command("savepoint", t, a), outcome)
       /\ IF outcome = "done"
            THEN Subtransaction(p, t) /\ addr' = [addr EXCEPT ![t] = a]
            ELSE UNCHANGED << registryVars, addr >>
       /\ Becomes(t, BirthFate(outcome))
  /\ lineage' = [lineage EXCEPT ![t] = {t} \cup lineage[p]]
  /\ UNCHANGED wrote

Usable(t) == Running /\ held[t] /\ kind[t] \in TransactionKinds /\ IsCurrent(t)

\* execute() of a statement that writes
Write(t) ==
  /\ Usable(t)
  /\ \E outcome \in Outcomes :
       /\ Execute(Command("write", t, NoAddr), outcome)
       /\ wrote' = IF outcome = "done" THEN wrote \cup {t} ELSE wrote
  /\ UNCHANGED << registryVars, addr, fate, lineage >>

\* send() of a statement that writes; its result is left unread.
Send(t) ==
  /\ Asynchronous
  /\ Usable(t) /\ Ready
  /\ LET c == Command("write", t, NoAddr) IN Succeed(c) \/ Err(c)
  /\ unread' = "full"
  /\ UNCHANGED << registryVars, historyVars, open >>

\* get_result()
GetResult(t) ==
  /\ Usable(t) /\ unread # "none"
  /\ \/ unread' = "none" /\ UNCHANGED << session, open, durable >>
     \/ unread = "full" /\ unread' = "tail" /\ UNCHANGED << session, open, durable >>
     \/ Lose({})
  /\ UNCHANGED << registryVars, historyVars >>

\* Mistakes: a nested commit() rolls back; a subtransaction of a direct
\* transaction is taken for a nested one.
CommitCommandReturns(t) ==
  IF kind[t] = "nested" THEN Command("rollback_to", t, addr[t]) ELSE Command("commit", t, NoAddr)

CommitCommandNested(t) ==
  IF kind[t] \in {"nested", "sub"} THEN Command("release", t, addr[t]) ELSE Command("commit", t, NoAddr)

CommitCommand(t) ==
  IF kind[t] = "nested" THEN Command("release", t, addr[t]) ELSE Command("commit", t, NoAddr)

\* Mistakes: a nested rollback() keeps the changes; it rolls back everything.
RollbackCommandReleases(t) ==
  IF kind[t] = "nested" THEN Command("release", t, addr[t]) ELSE Command("rollback", t, NoAddr)

RollbackCommandFull(t) == Command("rollback", t, NoAddr)

RollbackCommand(t) ==
  IF kind[t] = "nested" THEN Command("rollback_to", t, addr[t]) ELSE Command("rollback", t, NoAddr)

\* commit() and rollback().  Out of order nothing is executed.
Commit(t) ==
  /\ Finish(t)
  /\ IF IsCurrent(t) /\ kind[t] # "direct"
       THEN \E outcome \in Outcomes :
              Execute(CommitCommand(t), outcome) /\ Becomes(t, CommitFate(outcome))
       ELSE UNCHANGED serverVars /\ Becomes(t, "ended")
  /\ UNCHANGED << addr, wrote, lineage >>

Rollback(t) ==
  /\ Finish(t)
  /\ IF IsCurrent(t) /\ kind[t] # "direct"
       THEN \E outcome \in Outcomes :
              Execute(RollbackCommand(t), outcome) /\ Becomes(t, RollbackFate(outcome))
       ELSE UNCHANGED serverVars /\ Becomes(t, "ended")
  /\ UNCHANGED << addr, wrote, lineage >>

\* The last shared_ptr the program has goes.
Release(t) == Drop(t) /\ UNCHANGED << serverVars, historyVars >>

\* The destructors.  An unfinished transaction rolls back, unless the
\* connection reports that there is nothing to roll back or that it is busy.
Destruct(t) ==
  /\ Destroy(t)
  /\ CASE reg[t] /\ kind[t] # "direct" /\ AttemptRollback /\ IsCurrent(t) ->
            \E outcome \in Outcomes :
              Execute(RollbackCommand(t), outcome) /\ Becomes(t, RollbackFate(outcome))
       [] reg[t] /\ kind[t] # "direct" /\ ~(AttemptRollback /\ IsCurrent(t)) ->
            UNCHANGED serverVars /\ Becomes(t, "abandoned")
       [] reg[t] /\ kind[t] = "direct" ->
            UNCHANGED serverVars /\ Becomes(t, "ended")
       [] OTHER -> UNCHANGED << serverVars, fate >>
  /\ UNCHANGED << addr, wrote, lineage >>

Next ==
  \/ \E t \in Tx : BeginDirect(t)
  \/ \E t \in Tx : BeginTop(t)
  \/ \E p, t \in Tx : BeginSub(p, t)
  \/ \E p, t \in Tx : BeginNested(p, t)
  \/ \E t \in Tx : Write(t)
  \/ \E t \in Tx : Send(t)
  \/ \E t \in Tx : GetResult(t)
  \/ \E t \in Tx : Commit(t)
  \/ \E t \in Tx : Rollback(t)
  \/ \E t \in Tx : Release(t)
  \/ \E t \in Tx : Destruct(t)

Spec == Init /\ [][Next]_vars

-----------------------------------------------------------------------------
(* What must hold.                                                         *)

\* While a nested transaction is usable, the newest savepoint of its name is
\* the one its constructor made, so RELEASE and ROLLBACK TO mean that one.
\* Addresses are reused, and ROLLBACK TO leaves a savepoint behind.
SavepointIsOwn ==
  \A t \in Tx :
    kind[t] = "nested" /\ reg[t] /\ open =>
      /\ Named(session, addr[t]) # {}
      /\ session.levels[Newest(session, addr[t])].by = t

\* Nothing of a transaction that is still open or that was rolled back, and
\* nothing of what it encloses, is ever durable; commit() was at least tried
\* at each level, or the rollback could not be sent.
DurableWasCommitted ==
  \A t \in durable : \A v \in lineage[t] :
    fate[v] \in {"committed", "commit_failed", "unfinished", "abandoned"}

\* No transaction ended without the server being told.
NothingLeftOpen == \A t \in Tx : fate[t] \notin {"unfinished", "abandoned"}

\* A write that succeeded, under transactions whose commit() returned before
\* any statement had failed in them, is durable; a direct one at once.
AcknowledgedIsDurable ==
  \A t \in wrote :
    /\ (lineage[t] # {} /\ \A v \in lineage[t] : fate[v] = "committed") => t \in durable
    /\ (lineage[t] = {} /\ NothingLeftOpen) => t \in durable

\* With nothing registered the server has no transaction open either: the
\* next user of the connection starts from scratch.
FreeMeansIdle ==
  current = NoTx /\ open /\ NothingLeftOpen => session.xact = "idle"

\* A step discards a pending write only if it ends, other than by a commit
\* that returned, the transaction of the write or one that encloses it; a
\* nested rollback leaves its siblings and parents alone.
RollbackDiscardsOwn ==
  [][ open' =>
        \A u \in Pending(session) \ (Pending(session)' \cup durable') :
          lineage[u] # {} =>
            \E v \in lineage[u] : fate'[v] \notin {"open", "committed"} ]_vars

\* doc/Transaction.md: the destructor performs a rollback if the lifetime was
\* not ended explicitly, so nothing of a destroyed transaction is durable.
DestructorRollsBack ==
  \A t \in durable : \A v \in lineage[t] : fate[v] # "abandoned"

=============================================================================
