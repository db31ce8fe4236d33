---------------------------- MODULE LargeObject -----------------------------
(***************************************************************************)
(* Large objects: Registry composed with the large_object objects of the   *)
(* program and with the descriptors of the server's session.               *)
(*                                                                         *)
(* A large_object has a number, m_fd, that means something to the server   *)
(* only, and a shared_ptr to the transaction it was opened on, through     *)
(* which it finds the connection.  The server (external) gives out the     *)
(* lowest free number; a descriptor belongs to the innermost savepoint     *)
(* level at the time, moves to the enclosing level on RELEASE, and is      *)
(* closed when its level is rolled back, or fails, and at the latest with  *)
(* the transaction block.                                                  *)
(*                                                                         *)
(* Objects are opened in a transaction block, as large objects have to be; *)
(* but through any transaction of the connection, as the constructor does  *)
(* not look whether it is the current one.  COPY and pipeline mode, where  *)
(* libpq refuses every call, are left out, and so is the loss of the       *)
(* connection; commit() and rollback() fail only in a failed block.        *)
(***************************************************************************)
EXTENDS Registry, FiniteSets

CONSTANTS
  Object,       \* the large_object objects
  Oid,          \* the large objects in the database
  MaxFd         \* bound: the highest number of a descriptor

VARIABLES
  handle,       \* the transactions the program has a variable for
  trans,        \* m_transaction; NoTx also if the object does not exist
  fd,           \* m_fd
  opened,       \* history: the oid that m_fd was opened for
  slot,         \* the server's descriptors: for each number its oid and level
  failed,       \* the transaction block, at its innermost level, has failed
  leftOpen,     \* history: numbers that are open, but whose object was destroyed
                \* in a failed block, has lost its transaction, or is strayed
  strayed       \* history: objects opened through a transaction that was not
                \* the current one, or whose number was closed by such an object

objectVars == << handle, trans, fd, opened, strayed >>
descriptorVars == << slot, failed, leftOpen >>
loVars == << registryVars, objectVars, descriptorVars >>

Closed == [oid |-> 0, level |-> NoTx]
Fds == 1 .. MaxFd

LargeObjectInit ==
  /\ RegistryInit
  /\ handle = {}
  /\ trans = [o \in Object |-> NoTx]
  /\ fd = [o \in Object |-> 0]
  /\ opened = [o \in Object |-> 0]
  /\ slot = [f \in Fds |-> Closed]
  /\ failed = FALSE
  /\ leftOpen = {}
  /\ strayed = {}

-----------------------------------------------------------------------------
(* The server                                                              *)

CloseWhere(Gone(_)) == slot' = [f \in Fds |-> IF Gone(f) THEN Closed ELSE slot[f]]

\* The current transaction is in a transaction block.
InBlock == current # NoTx /\ kind[current] # "direct"

\* A call fails: the descriptors of the innermost level are gone at once.
CallFails ==
  /\ failed' = (failed \/ InBlock)
  /\ IF failed THEN UNCHANGED slot ELSE CloseWhere(LAMBDA f : slot[f].level = current)

CloseSucceeds(f) ==
  /\ ~failed /\ slot[f] # Closed
  /\ slot' = [slot EXCEPT ![f] = Closed]
  /\ UNCHANGED failed

CloseFails(f) == (failed \/ slot[f] = Closed) /\ CallFails

\* The levels that remain when t is rolled back: one whose own transaction
\* could not be committed, because the block had failed, goes with t.
Below(t) == { u \in Tx \ {t} : reg[u] }

\* COMMIT, RELEASE, ROLLBACK and ROLLBACK TO, sent by t
LevelEnds(t, commit) ==
  /\ CASE kind[t] = "direct" -> UNCHANGED << slot, failed >>
       [] kind[t] \in {"top", "sub"} -> CloseWhere(LAMBDA f : TRUE) /\ failed' = FALSE
       [] kind[t] = "nested" /\ commit /\ ~failed ->
            /\ slot' = [f \in Fds |->
                          IF slot[f].level = t THEN [slot[f] EXCEPT !.level = prev[t]] ELSE slot[f]]
            /\ UNCHANGED failed
       [] kind[t] = "nested" /\ commit /\ failed -> UNCHANGED << slot, failed >>
       [] kind[t] = "nested" /\ ~commit ->
            CloseWhere(LAMBDA f : slot[f].level \notin Below(t)) /\ failed' = FALSE
  /\ LET own == { fd[o] : o \in { u \in Object \ strayed : trans[u] = t } }
     IN  leftOpen' = { f \in leftOpen \cup own : slot'[f] # Closed }

-----------------------------------------------------------------------------
(* The transactions                                                        *)

BeginTransaction(t, k) ==
  /\ Begin(t, k)
  /\ handle' = handle \cup {t}
  /\ UNCHANGED << trans, fd, opened, strayed, descriptorVars >>

BeginSubtransaction(p, t) ==
  /\ p \in handle /\ ~failed
  /\ Subtransaction(p, t)
  /\ handle' = handle \cup {t}
  /\ UNCHANGED << trans, fd, opened, strayed, descriptorVars >>

\* commit() and rollback() of the current transaction
EndTransaction(t, commit) ==
  /\ t \in handle
  /\ Finish(t)
  /\ LevelEnds(t, commit)
  /\ UNCHANGED objectVars

\* The destructor rolls back what was not ended.
DestroyTransaction(t) ==
  /\ Destroy(t)
  /\ IF reg[t] THEN LevelEnds(t, FALSE) ELSE UNCHANGED descriptorVars
  /\ UNCHANGED objectVars

\* A shared_ptr to t goes: the last one takes t with it.
Releases(t) ==
  IF t \notin handle' /\ \A o \in Object : trans'[o] # t
    THEN Drop(t)
    ELSE UNCHANGED registryVars

DropHandle(t) ==
  /\ Running
  /\ t \in handle
  /\ handle' = handle \ {t}
  /\ UNCHANGED << trans, fd, opened, strayed, descriptorVars >>
  /\ Releases(t)

-----------------------------------------------------------------------------
(* The large objects                                                       *)

\* strayed, when the number of o is closed: an object that has it too, since
\* that of o was closed and given out again, has lost it.
AfterClose(o) ==
  (strayed \ {o}) \cup { u \in Object \ {o} : o \in strayed /\ trans[u] # NoTx /\ fd[u] = fd[o] }

\* and when what is in from goes to o
AfterMove(S, o, from) == (S \ {from}) \cup { u \in {o} : from \in S }

\* lo_open() takes the lowest free number, at the current level.
Opens(o, t, oid) ==
  /\ InBlock /\ ~failed
  /\ \E f \in Fds :
       /\ slot[f] = Closed /\ \A g \in 1 .. f - 1 : slot[g] # Closed
       /\ slot' = [slot EXCEPT ![f] = [oid |-> oid, level |-> current]]
       /\ fd' = [fd EXCEPT ![o] = f]
       /\ leftOpen' = IF IsCurrent(t) THEN leftOpen ELSE leftOpen \cup {f}
  /\ trans' = [trans EXCEPT ![o] = t]
  /\ opened' = [opened EXCEPT ![o] = oid]
  /\ strayed' = IF IsCurrent(t) THEN strayed ELSE strayed \cup {o}
  /\ UNCHANGED << handle, failed >>

\* The constructor.  m_transaction->connection() is null once t has ended; or
\* lo_open() fails, for one because there is no such large object.
OpenObject(o, t, oid) ==
  /\ Running
  /\ trans[o] = NoTx /\ t \in handle
  /\ \/ ~reg[t] /\ Crash /\ UNCHANGED << objectVars, descriptorVars >>
     \/ reg[t] /\ Opens(o, t, oid) /\ UNCHANGED registryVars
     \/ reg[t] /\ CallFails /\ UNCHANGED << registryVars, objectVars, leftOpen >>

\* m_transaction->connection() is null once the transaction has ended.
Dereferences(o) ==
  IF reg[trans[o]] THEN FALSE ELSE Crash /\ UNCHANGED << objectVars, descriptorVars >>

\* lo_close() succeeds; the number is not left any more, if it was.
Closes(o) ==
  /\ CloseSucceeds(fd[o])
  /\ leftOpen' = leftOpen \ {fd[o]}

\* close(): an object that could not be closed stays as it is.
CloseObject(o) ==
  /\ Running
  /\ trans[o] # NoTx
  /\ \/ Dereferences(o)
     \/ /\ reg[trans[o]]
        /\ Closes(o) /\ strayed' = AfterClose(o)
        /\ trans' = [trans EXCEPT ![o] = NoTx]
        /\ UNCHANGED << handle, fd, opened >>
        /\ Releases(trans[o])
     \/ /\ reg[trans[o]]
        /\ CloseFails(fd[o])
        /\ UNCHANGED << registryVars, objectVars, leftOpen >>

\* Mistake: the destructor leaves the closing to the server.
DestroyObjectOpen(o) ==
  /\ Running
  /\ trans[o] # NoTx
  /\ trans' = [trans EXCEPT ![o] = NoTx]
  /\ strayed' = strayed \ {o}
  /\ UNCHANGED << handle, fd, opened, descriptorVars >>
  /\ Releases(trans[o])

\* The destructor: close(), and what it throws is caught.
DestroyObject(o) ==
  /\ Running
  /\ trans[o] # NoTx
  /\ \/ Dereferences(o)
     \/ /\ reg[trans[o]]
        /\ \/ Closes(o) /\ strayed' = AfterClose(o)
           \/ /\ CloseFails(fd[o])
              /\ leftOpen' = leftOpen \cup ({fd[o]} \cap {f \in Fds : o \notin strayed /\ slot'[f] # Closed})
              /\ strayed' = strayed \ {o}
        /\ trans' = [trans EXCEPT ![o] = NoTx]
        /\ UNCHANGED << handle, fd, opened >>
        /\ Releases(trans[o])

\* read(), write(), resize(), seek(), tell()
UseObject(o, ok) ==
  /\ Running
  /\ trans[o] # NoTx
  /\ \/ Dereferences(o)
     \/ /\ reg[trans[o]]
        /\ IF ok
             THEN ~failed /\ slot[fd[o]] # Closed /\ UNCHANGED << slot, failed >>
             ELSE CallFails
        /\ UNCHANGED << registryVars, objectVars, leftOpen >>

\* Mistake: both objects close the descriptor.
MoveObjectCopies(o, from) ==
  /\ trans' = [trans EXCEPT ![o] = trans[from]]
  /\ fd' = [fd EXCEPT ![o] = fd[from]]
  /\ opened' = [opened EXCEPT ![o] = opened[from]]

MoveObject(o, from) ==
  /\ trans' = [trans EXCEPT ![o] = trans[from], ![from] = NoTx]
  /\ fd' = [fd EXCEPT ![o] = fd[from]]
  /\ opened' = [opened EXCEPT ![o] = opened[from]]

\* The move constructor, and move assignment to an object that is closed
MoveToClosed(o, from) ==
  /\ Running
  /\ trans[o] = NoTx /\ trans[from] # NoTx
  /\ MoveObject(o, from)
  /\ strayed' = AfterMove(strayed, o, from)
  /\ UNCHANGED << registryVars, handle, descriptorVars >>

\* Move assignment closes the old descriptor first; if that throws, nothing
\* is moved.
MoveToOpen(o, from) ==
  /\ Running
  /\ o # from /\ trans[o] # NoTx /\ trans[from] # NoTx
  /\ \/ Dereferences(o)
     \/ /\ reg[trans[o]]
        /\ Closes(o)
        /\ MoveObject(o, from)
        /\ strayed' = AfterMove(AfterClose(o), o, from)
        /\ UNCHANGED handle
        /\ Releases(trans[o])
     \/ /\ reg[trans[o]]
        /\ CloseFails(fd[o])
        /\ UNCHANGED << registryVars, objectVars, leftOpen >>

LargeObjectNext ==
  \/ \E t \in Tx : \E k \in {"direct", "top"} : BeginTransaction(t, k)
  \/ \E p, t \in Tx : BeginSubtransaction(p, t)
  \/ \E t \in Tx : \E commit \in BOOLEAN : EndTransaction(t, commit)
  \/ \E t \in Tx : DestroyTransaction(t)
  \/ \E t \in Tx : DropHandle(t)
  \/ \E o \in Object : DestroyObject(o)
  \/ \E o \in Object : \E t \in Tx : \E oid \in Oid : OpenObject(o, t, oid)
  \/ \E o \in Object : CloseObject(o)
  \/ \E o \in Object : \E ok \in BOOLEAN : UseObject(o, ok)
  \/ \E o, from \in Object : MoveToClosed(o, from)
  \/ \E o, from \in Object : MoveToOpen(o, from)

LargeObjectSpec == LargeObjectInit /\ [][LargeObjectNext]_loVars

-----------------------------------------------------------------------------
\* The number in an object always means the large object it was opened for,
\* although the server reuses numbers and closes descriptors on its own: as
\* long as the object's transaction has not ended, and unless the block has
\* failed.  A read or write never goes to another large object.  Excepted are
\* objects opened through a transaction that was not the current one, and those
\* whose number such an object has closed.
DescriptorIsOwn ==
  \A o \in Object \ strayed :
    trans[o] # NoTx /\ reg[trans[o]] /\ ~crashed /\ ~failed =>
      slot[fd[o]].oid = opened[o]

\* Every descriptor that is open in the session is held by exactly one object
\* that can close it, through moves, failed closes and nested transactions;
\* except those whose object was destroyed while the block had failed, was
\* still there when its nested transaction was committed, or was opened
\* through a transaction that was not the current one.
DescriptorIsHeldOnce ==
  \A f \in Fds :
    slot[f] # Closed =>
      Cardinality({ o \in Object \ strayed : trans[o] # NoTx /\ reg[trans[o]] /\ fd[o] = f })
        = (IF f \in leftOpen THEN 0 ELSE 1)

\* doc/Large-Object.md: "The destructor will take care of closing the large
\* object descriptor", so it may run at any time, and does not end the program.
ObjectsMayOutlive ==
  \A o \in Object : trans[o] # NoTx /\ ~reg[trans[o]] => ~crashed
=============================================================================
