------------------------- MODULE LargeObjectProofs --------------------------
(***************************************************************************)
(* Large objects and descriptors, for any number of transactions, objects  *)
(* and descriptors: while the transactions are ended in order, the number  *)
(* in an object means the large object it was opened for, and every        *)
(* descriptor has one object that can close it, or is known to be left.    *)
(* The program may also open objects through a transaction that is not the *)
(* current one; these are strayed, and the others are proper.              *)
(*                                                                         *)
(* The registry is in the state of RegistryProofs until an object whose    *)
(* transaction has ended is used; then the program is over, and the rest   *)
(* of the invariant stays as it was.  The heart of it is that a proper     *)
(* object's descriptor is at the level of the object's own transaction:    *)
(* what a failure or a rollback takes away is then at the current level,   *)
(* and so belongs to objects that cannot be used any longer, or is left.   *)
(* A strayed object closes whatever its number means by then; what it      *)
(* takes away in that way makes the object that had it a strayed one.      *)
(***************************************************************************)
EXTENDS LargeObject, RegistryProofs, FiniteSetTheorems

Blocks == {"top", "sub", "nested"}

\* The object may be used: its transaction has not ended.
Usable(o) == trans[o] # NoTx /\ reg[trans[o]]

Proper(o) == o \notin strayed /\ Usable(o)

Slots == [oid : Oid \cup {0}, level : Tx \cup {NoTx}]

ObjectsTyped ==
  /\ handle \in SUBSET Tx
  /\ trans \in [Object -> Tx \cup {NoTx}]
  /\ fd \in [Object -> Fds \cup {0}]
  /\ opened \in [Object -> Oid \cup {0}]
  /\ slot \in [Fds -> Slots]
  /\ failed \in BOOLEAN
  /\ leftOpen \in SUBSET Fds
  /\ strayed \in SUBSET Object
  /\ \A o \in Object : IF trans[o] # NoTx THEN fd[o] \in Fds ELSE o \notin strayed

\* What may be on top of what, and that a savepoint is in a block.
Nesting ==
  /\ \A t \in Tx : reg[t] =>
       /\ kind[t] \in TransactionKinds
       /\ kind[t] \in {"direct", "top"} => prev[t] = NoTx
       /\ kind[t] = "sub" => prev[t] # NoTx /\ kind[prev[t]] = "direct"
       /\ kind[t] = "nested" => prev[t] # NoTx /\ kind[prev[t]] \in Blocks
  /\ (\E t \in Tx : reg[t] /\ kind[t] \in Blocks) =>
       \E t \in Tx : reg[t] /\ kind[t] \in {"top", "sub"}

\* The shared pointers of the program and of its objects
References ==
  /\ \A t \in handle : held[t]
  /\ \A o \in Object :
       trans[o] # NoTx =>
         /\ held[trans[o]]
         /\ o \notin strayed /\ reg[trans[o]] => kind[trans[o]] \in Blocks

\* A proper object has a descriptor to itself, at the level of its
\* transaction; only a failure at that level, the current one, takes it away.
Descriptors ==
  \A o \in Object :
    Proper(o) =>
      /\ fd[o] \in Fds
      /\ \/ slot[fd[o]] = [oid |-> opened[o], level |-> trans[o]]
         \/ failed /\ trans[o] = current /\ slot[fd[o]] = Closed
      /\ \A u \in Object : Proper(u) /\ fd[u] = fd[o] => u = o

\* An open descriptor either is left, or has a proper object.
Holders ==
  \A f \in Fds :
    /\ slot[f] # Closed => (f \notin leftOpen <=> \E o \in Object : Proper(o) /\ fd[o] = f)
    /\ f \in leftOpen => slot[f] # Closed \/ failed

\* The descriptors are at levels that the program can still end, except for
\* those of transactions that could not be committed in a failed block.
Levels ==
  /\ failed => \E t \in Tx : reg[t] /\ kind[t] \in {"top", "sub"}
  /\ \A f \in Fds :
       slot[f] # Closed =>
         /\ slot[f].level \in Tx
         /\ reg[slot[f].level] => kind[slot[f].level] \in Blocks
         /\ failed \/ reg[slot[f].level]

ObjectsInv == ObjectsTyped /\ Nesting /\ References /\ Descriptors /\ Holders /\ Levels

LargeObjectInv == (crashed \/ IInv) /\ ObjectsInv

-----------------------------------------------------------------------------
(* The stack of transactions.                                              *)

\* Under the bottom of the stack there is nothing, and under a subtransaction
\* only the direct transaction it was made from.
LEMMA Alone ==
  ASSUME IInv, NEW t \in Tx, reg[t], current = t
  PROVE  /\ prev[t] = NoTx => \A u \in Tx : reg[u] => u = t
         /\ prev[t] # NoTx /\ prev[prev[t]] = NoTx => \A u \in Tx : reg[u] => u = t \/ u = prev[t]
<1> DEFINE n == Len(active)
<1>1. n \in Nat \ {0} /\ active[n] = t /\ active \in Seq(Tx)
  BY TopFacts, NoTxAssumption DEF IInv, RegistryTypeOK
<1>2. \A i \in 1 .. n : active[i] \in Tx /\ prev[active[i]] = IF i = 1 THEN NoTx ELSE active[i - 1]
  BY <1>1 DEF IInv, CurrentIsTop
<1>3. \A u \in Tx : reg[u] => \E i \in 1 .. n : active[i] = u
  BY DEF IInv, CurrentIsTop
<1> HIDE DEF n
<1>4. CASE n = 1
  <2>1. \A u \in Tx : reg[u] => u = t
    BY <1>1, <1>3, <1>4
  <2>2. QED BY <2>1
<1>5. CASE n # 1
  <2>1. n - 1 \in 1 .. n /\ n \in 1 .. n
    BY <1>1, <1>5
  <2>2. prev[t] = active[n - 1] /\ active[n - 1] \in Tx
    BY <1>1, <1>2, <1>5, <2>1
  <2>3. prev[t] # NoTx
    BY <2>2, NoTxAssumption
  <2>4. CASE n = 2
    <3>1. \A i \in 1 .. n : i = n \/ i = n - 1
      BY <1>1, <2>4
    <3>2. \A u \in Tx : reg[u] => u = t \/ u = prev[t]
      BY <1>1, <1>3, <2>2, <3>1
    <3>3. QED BY <2>3, <3>2
  <2>5. CASE n # 2
    <3>1. n - 2 \in 1 .. n /\ n - 1 # 1 /\ (n - 1) - 1 = n - 2
      BY <1>1, <1>5, <2>5
    <3>2. prev[prev[t]] = active[n - 2] /\ active[n - 2] \in Tx
      BY <1>2, <2>1, <2>2, <3>1
    <3>3. prev[prev[t]] # NoTx
      BY <3>2, NoTxAssumption
    <3>4. QED BY <2>3, <3>3
  <2>6. QED BY <2>4, <2>5
<1>6. QED BY <1>4, <1>5

\* The step of the registry, if it is one, is a step of Registry.
LEMMA RegistryStep ==
  ASSUME ~OutOfOrder, IInv,
         \/ \E t \in Tx : \E k \in {"direct", "top"} : Begin(t, k)
         \/ \E p, t \in Tx : Subtransaction(p, t)
         \/ \E t \in Tx : Finish(t)
         \/ \E t \in Tx : Drop(t)
         \/ \E t \in Tx : Destroy(t)
         \/ UNCHANGED registryVars
  PROVE  IInv'
BY NextIInv, StutterIInv DEF RegistryNext

LEMMA ClosedSlot == Closed \in Slots /\ Closed.level = NoTx
BY DEF Closed, Slots

\* A slot with a level is open.
LEMMA OpenSlot ==
  ASSUME NEW oid, NEW level \in Tx
  PROVE  [oid |-> oid, level |-> level] # Closed
<1>1. [oid |-> oid, level |-> level].level # NoTx
  BY NoTxAssumption
<1>2. QED BY <1>1 DEF Closed

-----------------------------------------------------------------------------
(* A transaction begins.                                                   *)

LEMMA BeginsKeeps ==
  ASSUME IInv, ObjectsInv, NEW t \in Tx, NEW k \in TransactionKinds, Construct(t, k), ~failed,
         k \in {"direct", "top"} => current = NoTx,
         k = "sub" => current # NoTx /\ reg[current] /\ kind[current] = "direct",
         k = "nested" => current # NoTx /\ reg[current] /\ kind[current] \in Blocks,
         handle' = handle \cup {t},
         UNCHANGED << trans, fd, opened, strayed, descriptorVars >>
  PROVE  ObjectsInv'
<1>1. /\ t \notin alive /\ current \in alive \cup {NoTx} /\ alive \subseteq Tx
      /\ kind' = [kind EXCEPT ![t] = k] /\ reg' = [reg EXCEPT ![t] = TRUE]
      /\ prev' = [prev EXCEPT ![t] = current] /\ held' = [held EXCEPT ![t] = TRUE]
      /\ current' = t
  BY TopFacts DEF Construct, IInv, RegistryTypeOK
<1>2. /\ \A u \in Tx : u # t => /\ kind'[u] = kind[u] /\ reg'[u] = reg[u]
                                 /\ prev'[u] = prev[u] /\ held'[u] = held[u]
      /\ kind'[t] = k /\ reg'[t] = TRUE /\ prev'[t] = current /\ held'[t] = TRUE
  BY <1>1 DEF IInv, RegistryTypeOK
<1>3. /\ \A u \in Tx : reg[u] => u \in alive
      /\ \A u \in Tx : held[u] => u \in alive
      /\ \A u \in Tx : prev[u] \in alive \cup {NoTx}
  BY DEF IInv, Owned
<1>4. /\ fd' = fd /\ opened' = opened /\ trans' = trans /\ slot' = slot
      /\ failed' = failed /\ leftOpen' = leftOpen /\ strayed' = strayed
  BY DEF descriptorVars
<1>5. ObjectsTyped'
  BY <1>4 DEF ObjectsInv, ObjectsTyped
<1>6. \A o \in Object : trans[o] # NoTx => trans[o] \in Tx /\ trans[o] \in alive /\ trans[o] # t
  BY <1>1, <1>3 DEF ObjectsInv, ObjectsTyped, References
<1>7. \A o \in Object : Proper(o)' <=> Proper(o)
  BY <1>2, <1>4, <1>6 DEF Usable, Proper
<1>8. Nesting'
  <2>1. ASSUME NEW u \in Tx, reg'[u]
        PROVE  /\ kind'[u] \in TransactionKinds
               /\ kind'[u] \in {"direct", "top"} => prev'[u] = NoTx
               /\ kind'[u] = "sub" => prev'[u] # NoTx /\ kind'[prev'[u]] = "direct"
               /\ kind'[u] = "nested" => prev'[u] # NoTx /\ kind'[prev'[u]] \in Blocks
    <3>1. CASE u = t
      BY <1>1, <1>2, <3>1 DEF TransactionKinds
    <3>2. CASE u # t
      <4>1. /\ kind'[u] = kind[u] /\ reg[u] /\ prev'[u] = prev[u]
            /\ prev[u] # NoTx => kind'[prev[u]] = kind[prev[u]]
        BY <1>1, <1>2, <1>3, <2>1, <3>2
      <4>2. QED BY <4>1 DEF ObjectsInv, Nesting
    <3>3. QED BY <3>1, <3>2
  <2>2. ASSUME \E u \in Tx : reg'[u] /\ kind'[u] \in Blocks
        PROVE  \E u \in Tx : reg'[u] /\ kind'[u] \in {"top", "sub"}
    <3>1. CASE k \in {"top", "sub"}
      BY <1>2, <3>1
    <3>2. CASE k \in {"direct", "nested"}
      <4>1. \E u \in Tx : reg[u] /\ kind[u] \in Blocks
        BY <1>1, <1>2, <2>2, <3>2 DEF Blocks
      <4>2. PICK u \in Tx : reg[u] /\ kind[u] \in {"top", "sub"}
        BY <4>1 DEF ObjectsInv, Nesting
      <4>3. QED BY <1>1, <1>2, <1>3, <4>2
    <3>3. QED BY <3>1, <3>2 DEF TransactionKinds
  <2>3. QED BY <2>1, <2>2 DEF Nesting
<1>9. References'
  <2>1. \A u \in handle' : held'[u]
    BY <1>2 DEF ObjectsInv, ObjectsTyped, References
  <2>2. \A o \in Object : trans'[o] # NoTx =>
          /\ held'[trans'[o]]
          /\ o \notin strayed' /\ reg'[trans'[o]] => kind'[trans'[o]] \in Blocks
    BY <1>2, <1>4, <1>6 DEF ObjectsInv, References
  <2>3. QED BY <2>1, <2>2 DEF References
<1>10. Descriptors'
  BY <1>4, <1>7 DEF ObjectsInv, Descriptors
<1>11. Holders'
  BY <1>4, <1>7 DEF ObjectsInv, Holders
<1>12. Levels'
  BY <1>1, <1>2, <1>3, <1>4 DEF ObjectsInv, Levels
<1>13. QED BY <1>5, <1>8, <1>9, <1>10, <1>11, <1>12 DEF ObjectsInv

LEMMA BeginStep ==
  ASSUME ~OutOfOrder, IInv, ObjectsInv,
         \/ \E t \in Tx : \E k \in {"direct", "top"} : BeginTransaction(t, k)
         \/ \E p, t \in Tx : BeginSubtransaction(p, t)
  PROVE  IInv' /\ ObjectsInv'
<1>1. ASSUME NEW t \in Tx, NEW k \in {"direct", "top"}, BeginTransaction(t, k)
      PROVE  IInv' /\ ObjectsInv'
  <2>1. Begin(t, k) /\ Construct(t, k) /\ current = NoTx /\ k \in TransactionKinds
    BY <1>1 DEF BeginTransaction, Begin, TransactionKinds
  <2>2. handle' = handle \cup {t} /\ UNCHANGED << trans, fd, opened, strayed, descriptorVars >>
    BY <1>1 DEF BeginTransaction
  <2>3. active = << >>
    BY <2>1, TopFacts
  <2>4. \A u \in Tx : ~reg[u]
    BY <2>3 DEF IInv, CurrentIsTop
  <2>5. failed = FALSE
    BY <2>4 DEF ObjectsInv, ObjectsTyped, Levels
  <2>6. ObjectsInv'
    BY <2>1, <2>2, <2>5, BeginsKeeps
  <2>7. QED BY <2>1, <2>6, RegistryStep
<1>2. ASSUME NEW p \in Tx, NEW t \in Tx, BeginSubtransaction(p, t)
      PROVE  IInv' /\ ObjectsInv'
  <2>1. /\ Subtransaction(p, t) /\ Construct(t, SubKind(p)) /\ current = p /\ reg[p]
        /\ SubKind(p) \in TransactionKinds /\ ~failed
    BY <1>2 DEF BeginSubtransaction, Subtransaction, IsCurrent, SubKind, TransactionKinds
  <2>2. handle' = handle \cup {t} /\ UNCHANGED << trans, fd, opened, strayed, descriptorVars >>
    BY <1>2 DEF BeginSubtransaction
  <2>3. kind[p] \in TransactionKinds /\ p # NoTx
    BY <2>1, NoTxAssumption DEF ObjectsInv, Nesting
  <2>4. /\ SubKind(p) \notin {"direct", "top"}
        /\ SubKind(p) = "sub" => kind[p] = "direct"
        /\ SubKind(p) = "nested" => kind[p] \in Blocks
    BY <2>3 DEF SubKind, TransactionKinds, Blocks
  <2>5. ObjectsInv'
    BY <2>1, <2>2, <2>3, <2>4, BeginsKeeps
  <2>6. QED BY <2>1, <2>5, RegistryStep
<1>3. QED BY <1>1, <1>2

-----------------------------------------------------------------------------
(* A transaction ends.                                                     *)

\* What the server does with the descriptors, by the class of t.
LEMMA LevelEndsFacts ==
  ASSUME ObjectsInv, NEW t \in Tx, reg[t], NEW commit \in BOOLEAN, LevelEnds(t, commit)
  PROVE  /\ kind[t] = "direct" => slot' = slot /\ failed' = failed
         /\ kind[t] \in {"top", "sub"} => slot' = [f \in Fds |-> Closed] /\ failed' = FALSE
         /\ kind[t] = "nested" /\ commit /\ ~failed =>
              /\ slot' = [f \in Fds |->
                            IF slot[f].level = t THEN [slot[f] EXCEPT !.level = prev[t]] ELSE slot[f]]
              /\ failed' = failed
         /\ kind[t] = "nested" /\ commit /\ failed => slot' = slot /\ failed' = failed
         /\ kind[t] = "nested" /\ ~commit =>
              /\ slot' = [f \in Fds |-> IF slot[f].level \notin Below(t) THEN Closed ELSE slot[f]]
              /\ failed' = FALSE
BY DEF LevelEnds, CloseWhere

\* The m_previous of the current transaction is in the stack below it.
LEMMA PreviousIsRegistered ==
  ASSUME IInv, NEW t \in Tx, reg[t], current = t, prev[t] # NoTx
  PROVE  prev[t] \in Tx /\ reg[prev[t]] /\ prev[t] # t
<1>1. Len(active) \in Nat \ {0} /\ active[Len(active)] = t /\ active \in Seq(Tx)
  BY TopFacts, NoTxAssumption DEF IInv, RegistryTypeOK
<1>2. Len(active) \in 1 .. Len(active)
  BY <1>1
<1>3. prev[t] = IF Len(active) = 1 THEN NoTx ELSE active[Len(active) - 1]
  BY <1>1, <1>2 DEF IInv, CurrentIsTop
<1>4. Len(active) # 1
  BY <1>3
<1>5. Len(active) - 1 \in 1 .. Len(active) /\ prev[t] = active[Len(active) - 1]
  <2>1. Len(active) \in Nat \ {0}
    BY <1>1
  <2>2. Len(active) - 1 \in 1 .. Len(active)
    <3>1. \A n \in Nat \ {0} : n # 1 => n - 1 \in 1 .. n
      OBVIOUS
    <3>2. QED BY <1>4, <2>1, <3>1
  <2>3. prev[t] = active[Len(active) - 1]
    BY <1>4, <1>3
  <2>4. QED BY <2>2, <2>3
<1>6. prev[t] \in Tx
  BY <1>1, <1>5
<1>7. reg[prev[t]]
  BY <1>5, <1>6 DEF IInv, CurrentIsTop
<1>8. prev[t] # t
  BY <1>1, <1>2, <1>5 DEF IInv, Distinct
<1>9. QED BY <1>6, <1>7, <1>8

\* A transaction block is the only one, a subtransaction at its start too.
LEMMA OnlyBlock ==
  ASSUME IInv, ObjectsInv, NEW t \in Tx, reg[t], current = t, kind[t] \in {"top", "sub"}
  PROVE  \A u \in Tx : reg[u] /\ u # t => kind[u] \notin Blocks
<1>1. CASE kind[t] = "top"
  BY <1>1, Alone DEF ObjectsInv, Nesting
<1>2. CASE kind[t] = "sub"
  <2>1. prev[t] # NoTx /\ kind[prev[t]] = "direct" /\ prev[t] \in Tx
    BY <1>2 DEF ObjectsInv, Nesting, IInv, RegistryTypeOK
  <2>2. reg[prev[t]]
    BY <2>1, PreviousIsRegistered
  <2>3. prev[prev[t]] = NoTx
    BY <2>1, <2>2 DEF ObjectsInv, Nesting
  <2>4. \A u \in Tx : reg[u] => u = t \/ u = prev[t]
    BY <2>1, <2>3, Alone
  <2>5. QED BY <2>1, <2>4 DEF Blocks
<1>3. QED BY <1>1, <1>2

\* The objects of the other transactions keep their descriptors, and nothing
\* that was closed is open.
LEMMA EndSlots ==
  ASSUME IInv, ObjectsInv, NEW t \in Tx, reg[t], current = t, NEW commit \in BOOLEAN,
         LevelEnds(t, commit)
  PROVE  /\ slot' \in [Fds -> Slots] /\ failed' \in BOOLEAN
         /\ \A f \in Fds : slot'[f] # Closed => slot[f] # Closed
         /\ \A o \in Object : Proper(o) /\ trans[o] # t =>
              slot'[fd[o]] = [oid |-> opened[o], level |-> trans[o]]
         /\ failed' => failed
<1>1. kind[t] \in TransactionKinds
  BY DEF ObjectsInv, Nesting
<1>2. slot \in [Fds -> Slots] /\ failed \in BOOLEAN /\ trans \in [Object -> Tx \cup {NoTx}]
  BY DEF ObjectsInv, ObjectsTyped
<1>3. \A o \in Object : Proper(o) /\ trans[o] # t =>
        /\ fd[o] \in Fds /\ trans[o] \in Tx /\ reg[trans[o]] /\ kind[trans[o]] \in Blocks
        /\ slot[fd[o]] = [oid |-> opened[o], level |-> trans[o]]
        /\ slot[fd[o]].level = trans[o]
  BY <1>2 DEF ObjectsInv, Descriptors, References, Usable, Proper
<1>4. CASE kind[t] = "direct" \/ (kind[t] = "nested" /\ commit /\ failed)
  BY <1>2, <1>3, <1>4, LevelEndsFacts
<1>5. CASE kind[t] \in {"top", "sub"}
  <2>1. slot' = [f \in Fds |-> Closed] /\ failed' = FALSE
    BY <1>5, LevelEndsFacts
  <2>2. \A u \in Tx : reg[u] /\ u # t => kind[u] \notin Blocks
    BY <1>5, OnlyBlock
  <2>3. \A o \in Object : ~(Proper(o) /\ trans[o] # t)
    BY <1>3, <2>2
  <2>4. slot' \in [Fds -> Slots]
    BY <2>1, ClosedSlot
  <2>5. QED BY <2>1, <2>3, <2>4
<1>6. CASE kind[t] = "nested" /\ commit /\ ~failed
  <2>1. /\ slot' = [f \in Fds |->
                      IF slot[f].level = t THEN [slot[f] EXCEPT !.level = prev[t]] ELSE slot[f]]
        /\ failed' = failed
    BY <1>6, LevelEndsFacts
  <2>2. prev[t] \in Tx \cup {NoTx}
    BY DEF IInv, RegistryTypeOK
  <2>3. \A f \in Fds : slot[f] \in Slots /\ [slot[f] EXCEPT !.level = prev[t]] \in Slots
    BY <1>2, <2>2 DEF Slots
  <2>4. slot' \in [Fds -> Slots]
    BY <2>1, <2>3
  <2>5. \A f \in Fds : slot[f] = Closed => slot'[f] = Closed
    BY <2>1, ClosedSlot, NoTxAssumption
  <2>6. \A o \in Object : Proper(o) /\ trans[o] # t => slot'[fd[o]] = slot[fd[o]]
    BY <1>3, <2>1
  <2>7. QED BY <1>3, <2>1, <2>4, <2>5, <2>6, <1>2
<1>7. CASE kind[t] = "nested" /\ ~commit
  <2>1. /\ slot' = [f \in Fds |-> IF slot[f].level \notin Below(t) THEN Closed ELSE slot[f]]
        /\ failed' = FALSE
    BY <1>7, LevelEndsFacts
  <2>2. slot' \in [Fds -> Slots]
    BY <1>2, <2>1, ClosedSlot
  <2>3. \A f \in Fds : slot[f] = Closed => slot'[f] = Closed
    BY <2>1
  <2>4. \A o \in Object : Proper(o) /\ trans[o] # t => slot'[fd[o]] = slot[fd[o]]
    BY <1>3, <2>1 DEF Below
  <2>5. QED BY <1>3, <2>1, <2>2, <2>3, <2>4
<1>8. QED BY <1>1, <1>4, <1>5, <1>6, <1>7 DEF TransactionKinds

\* The descriptors that stay open are at levels that stay.
LEMMA EndLevels ==
  ASSUME IInv, ObjectsInv, NEW t \in Tx, reg[t], current = t, NEW commit \in BOOLEAN,
         LevelEnds(t, commit),
         ~reg'[t], \A u \in Tx : u # t => kind'[u] = kind[u] /\ reg'[u] = reg[u]
  PROVE  Levels'
<1>1. kind[t] \in TransactionKinds
  BY DEF ObjectsInv, Nesting
<1>2. failed \in BOOLEAN /\ failed' \in BOOLEAN /\ slot \in [Fds -> Slots]
  BY EndSlots DEF ObjectsInv, ObjectsTyped
<1>3. kind[t] = "nested" => prev[t] \in Tx /\ prev[t] # t /\ reg[prev[t]] /\ kind[prev[t]] \in Blocks
  BY PreviousIsRegistered DEF ObjectsInv, Nesting
<1>4. CASE kind[t] = "direct"
  <2>1. \A u \in Tx : reg[u] => u = t
    BY <1>4, Alone DEF ObjectsInv, Nesting
  <2>2. ~failed /\ \A f \in Fds : slot[f] = Closed
    BY <1>2, <1>4, <2>1 DEF ObjectsInv, Levels, Blocks
  <2>3. slot' = slot /\ failed' = failed
    BY <1>4, LevelEndsFacts
  <2>4. QED BY <2>2, <2>3 DEF Levels
<1>5. CASE kind[t] \in {"top", "sub"}
  <2>1. slot' = [f \in Fds |-> Closed] /\ failed' = FALSE
    BY <1>5, LevelEndsFacts
  <2>2. QED BY <2>1 DEF Levels
<1>6. CASE kind[t] = "nested" /\ commit /\ ~failed
  <2>1. /\ slot' = [f \in Fds |->
                      IF slot[f].level = t THEN [slot[f] EXCEPT !.level = prev[t]] ELSE slot[f]]
        /\ failed' = failed
    BY <1>6, LevelEndsFacts
  <2>2. ASSUME NEW f \in Fds, slot'[f] # Closed
        PROVE  slot'[f].level \in Tx /\ reg'[slot'[f].level] /\ kind'[slot'[f].level] \in Blocks
    <3>1. CASE slot[f].level = t
      <4>1. slot[f] \in Slots /\ slot'[f] = [slot[f] EXCEPT !.level = prev[t]]
        BY <1>2, <2>1, <3>1
      <4>2. slot'[f].level = prev[t]
        BY <4>1 DEF Slots
      <4>3. QED BY <1>3, <1>6, <4>2
    <3>2. CASE slot[f].level # t
      <4>1. slot'[f] = slot[f]
        BY <2>1, <3>2
      <4>2. slot[f].level \in Tx /\ reg[slot[f].level] /\ kind[slot[f].level] \in Blocks
        BY <1>6, <2>2, <4>1 DEF ObjectsInv, Levels
      <4>3. QED BY <3>2, <4>1, <4>2
    <3>3. QED BY <3>1, <3>2
  <2>3. QED BY <1>6, <2>1, <2>2 DEF Levels
<1>7. CASE kind[t] = "nested" /\ commit /\ failed
  <2>1. failed' = failed
    BY <1>7, LevelEndsFacts
  <2>2. PICK u \in Tx : reg[u] /\ kind[u] \in {"top", "sub"}
    BY <1>7 DEF ObjectsInv, Levels
  <2>3. reg'[u] /\ kind'[u] \in {"top", "sub"}
    BY <1>7, <2>2
  <2>4. slot' = slot
    BY <1>7, LevelEndsFacts
  <2>5. ASSUME NEW f \in Fds, slot[f] # Closed
        PROVE  slot[f].level \in Tx /\ (reg'[slot[f].level] => kind'[slot[f].level] \in Blocks)
    BY <2>5 DEF ObjectsInv, Levels
  <2>6. QED BY <1>7, <2>1, <2>3, <2>4, <2>5 DEF Levels
<1>8. CASE kind[t] = "nested" /\ ~commit
  <2>1. /\ slot' = [f \in Fds |-> IF slot[f].level \notin Below(t) THEN Closed ELSE slot[f]]
        /\ failed' = FALSE
    BY <1>8, LevelEndsFacts
  <2>2. ASSUME NEW f \in Fds, slot'[f] # Closed
        PROVE  slot'[f].level \in Tx /\ reg'[slot'[f].level] /\ kind'[slot'[f].level] \in Blocks
    <3>1. slot'[f] = slot[f] /\ slot[f].level \in Below(t)
      BY <2>1, <2>2
    <3>2. slot[f].level \in Tx /\ slot[f].level # t /\ reg[slot[f].level]
      BY <3>1 DEF Below
    <3>3. kind[slot[f].level] \in Blocks
      BY <2>2, <3>1, <3>2, EndSlots DEF ObjectsInv, Levels
    <3>4. QED BY <3>1, <3>2, <3>3
  <2>3. QED BY <2>1, <2>2 DEF Levels
<1>9. QED BY <1>1, <1>4, <1>5, <1>6, <1>7, <1>8 DEF TransactionKinds

LEMMA EndKeeps ==
  ASSUME IInv, ObjectsInv, NEW t \in Tx, reg[t], current = t, NEW commit \in BOOLEAN,
         LevelEnds(t, commit),
         reg' = [reg EXCEPT ![t] = FALSE], current' = prev[t],
         \A u \in Tx : u # t => kind'[u] = kind[u] /\ prev'[u] = prev[u],
         UNCHANGED << handle, trans, fd, opened, strayed, held >>
  PROVE  ObjectsInv'
<1>1. ~reg'[t] /\ \A u \in Tx : u # t => reg'[u] = reg[u]
  BY DEF IInv, RegistryTypeOK
<1>2. /\ handle' = handle /\ trans' = trans /\ fd' = fd /\ opened' = opened
      /\ strayed' = strayed /\ held' = held
  OBVIOUS
<1>3. trans \in [Object -> Tx \cup {NoTx}] /\ leftOpen \in SUBSET Fds
  BY DEF ObjectsInv, ObjectsTyped
<1>4. \A o \in Object : Proper(o)' <=> Proper(o) /\ trans[o] # t
  BY <1>1, <1>2, <1>3 DEF Usable, Proper
<1>5. \A o \in Object : Proper(o)' => fd[o] \in Fds /\ slot'[fd[o]] = [oid |-> opened[o], level |-> trans[o]]
  BY <1>4, EndSlots DEF ObjectsInv, Descriptors
<1> DEFINE taken == { fd[o] : o \in { u \in Object \ strayed : trans[u] = t } }
<1>6. leftOpen' = { f \in leftOpen \cup taken : slot'[f] # Closed }
  BY DEF LevelEnds
<1>7. \A f \in taken : f \in Fds /\ \E o \in Object : Proper(o) /\ fd[o] = f /\ trans[o] = t
  <2>1. \A o \in Object \ strayed : trans[o] = t => Proper(o)
    BY NoTxAssumption DEF Usable, Proper
  <2>2. \A o \in Object : Proper(o) => fd[o] \in Fds
    BY DEF ObjectsInv, Descriptors
  <2>3. QED BY <2>1, <2>2
<1>8. \A o \in Object : o \notin strayed /\ trans[o] = t => fd[o] \in taken
  OBVIOUS
<1> HIDE DEF taken
<1>9. ObjectsTyped'
  BY <1>2, <1>3, <1>6, <1>7, EndSlots DEF ObjectsInv, ObjectsTyped
<1>10. Nesting'
  <2>1. \A u \in Tx : reg'[u] => u # t /\ reg[u] /\ kind'[u] = kind[u] /\ prev'[u] = prev[u]
    BY <1>1
  <2>2. \A u \in Tx : reg'[u] => prev[u] # t
    <3> SUFFICES ASSUME NEW u \in Tx, reg[u], u # t, prev[u] = t PROVE FALSE
      BY <2>1
    <3>1. PICK i \in 1 .. Len(active) : active[i] = u
      BY DEF IInv, CurrentIsTop
    <3>2. Len(active) \in Nat \ {0} /\ active[Len(active)] = t
      BY TopFacts, NoTxAssumption
    <3>3. prev[u] = IF i = 1 THEN NoTx ELSE active[i - 1]
      BY <3>1 DEF IInv, CurrentIsTop
    <3>4. i # 1 /\ active[i - 1] = t /\ i - 1 \in 1 .. Len(active) /\ Len(active) \in 1 .. Len(active)
      BY <3>1, <3>2, <3>3, NoTxAssumption
    <3>5. i - 1 = Len(active)
      BY <3>2, <3>4 DEF IInv, Distinct
    <3>6. QED BY <3>1, <3>2, <3>5
  <2>3. \A u \in Tx : reg'[u] => prev[u] = NoTx \/ (prev[u] \in Tx /\ kind'[prev[u]] = kind[prev[u]])
    BY <2>2 DEF IInv, RegistryTypeOK
  <2>4. \A u \in Tx : reg'[u] =>
          /\ kind'[u] \in TransactionKinds
          /\ kind'[u] \in {"direct", "top"} => prev'[u] = NoTx
          /\ kind'[u] = "sub" => prev'[u] # NoTx /\ kind'[prev'[u]] = "direct"
          /\ kind'[u] = "nested" => prev'[u] # NoTx /\ kind'[prev'[u]] \in Blocks
    BY <2>1, <2>3 DEF ObjectsInv, Nesting
  <2>5. ASSUME \E u \in Tx : reg'[u] /\ kind'[u] \in Blocks
        PROVE  \E u \in Tx : reg'[u] /\ kind'[u] \in {"top", "sub"}
    <3>1. PICK v \in Tx : reg'[v] /\ kind'[v] \in Blocks
      BY <2>5
    <3>2. v # t /\ reg[v] /\ kind[v] \in Blocks
      BY <2>1, <3>1
    <3>3. PICK u \in Tx : reg[u] /\ kind[u] \in {"top", "sub"}
      BY <3>2 DEF ObjectsInv, Nesting
    <3>4. CASE u # t
      BY <1>1, <3>3, <3>4
    <3>5. CASE u = t
      <4>1. kind[t] \in {"top", "sub"}
        BY <3>3, <3>5
      <4>2. kind[v] \notin Blocks
        BY <3>2, <4>1, OnlyBlock
      <4>3. QED BY <3>2, <4>2
    <3>6. QED BY <3>4, <3>5
  <2>6. QED BY <2>4, <2>5 DEF Nesting
<1>11. References'
  <2>1. \A o \in Object : trans[o] # NoTx =>
          /\ held[trans[o]]
          /\ o \notin strayed /\ reg'[trans[o]] => kind'[trans[o]] \in Blocks
    BY <1>1, <1>3 DEF ObjectsInv, References
  <2>2. QED BY <1>2, <2>1 DEF ObjectsInv, References
<1>12. Descriptors'
  <2>1. \A o, u \in Object : Proper(o)' /\ Proper(u)' /\ fd[u] = fd[o] => u = o
    BY <1>4 DEF ObjectsInv, Descriptors
  <2>2. QED BY <1>2, <1>5, <2>1 DEF Descriptors
<1>13. Holders'
  <2> SUFFICES ASSUME NEW f \in Fds
               PROVE  /\ slot'[f] # Closed => (f \notin leftOpen' <=> \E o \in Object : Proper(o)' /\ fd[o] = f)
                      /\ f \in leftOpen' => slot'[f] # Closed \/ failed'
    BY <1>2 DEF Holders
  <2>1. ASSUME slot'[f] # Closed
        PROVE  f \notin leftOpen' <=> \E o \in Object : Proper(o)' /\ fd[o] = f
    <3>1. f \notin leftOpen <=> \E o \in Object : Proper(o) /\ fd[o] = f
      BY <2>1, EndSlots DEF ObjectsInv, Holders
    <3>2. f \in leftOpen' <=> f \in leftOpen \/ f \in taken
      BY <1>6, <2>1
    <3>3. ASSUME NEW o \in Object, Proper(o)', fd[o] = f
          PROVE  f \notin leftOpen'
      <4>1. f \notin leftOpen
        BY <1>4, <3>1, <3>3
      <4>2. f \notin taken
        <5> SUFFICES ASSUME f \in taken PROVE FALSE
          OBVIOUS
        <5>1. PICK u \in Object : Proper(u) /\ fd[u] = f /\ trans[u] = t
          BY <1>7
        <5>2. Proper(o) /\ trans[o] # t
          BY <1>4, <3>3
        <5>3. u = o
          BY <3>3, <5>1, <5>2 DEF ObjectsInv, Descriptors
        <5>4. QED BY <5>1, <5>2, <5>3
      <4>3. QED BY <3>2, <4>1, <4>2
    <3>4. ASSUME f \notin leftOpen'
          PROVE  \E o \in Object : Proper(o)' /\ fd[o] = f
      <4>1. PICK o \in Object : Proper(o) /\ fd[o] = f
        BY <3>1, <3>2, <3>4
      <4>2. trans[o] # t
        BY <1>8, <3>2, <3>4, <4>1 DEF Proper
      <4>3. QED BY <1>4, <4>1, <4>2
    <3>5. QED BY <3>3, <3>4
  <2>2. f \in leftOpen' => slot'[f] # Closed
    BY <1>6
  <2>3. QED BY <2>1, <2>2
<1>14. Levels'
  BY <1>1, EndLevels
<1>15. QED BY <1>9, <1>10, <1>11, <1>12, <1>13, <1>14 DEF ObjectsInv

\* commit(), rollback() and the destructors
LEMMA EndStep ==
  ASSUME ~OutOfOrder, IInv, ObjectsInv,
         \/ \E t \in Tx : \E commit \in BOOLEAN : EndTransaction(t, commit)
         \/ \E t \in Tx : DestroyTransaction(t)
  PROVE  IInv' /\ ObjectsInv'
<1>1. ASSUME NEW t \in Tx, NEW commit \in BOOLEAN, EndTransaction(t, commit)
      PROVE  IInv' /\ ObjectsInv'
  <2>1. Finish(t) /\ LevelEnds(t, commit) /\ UNCHANGED objectVars
    BY <1>1 DEF EndTransaction
  <2>2. current = t /\ reg[t]
    BY <2>1, TopFacts, NoTxAssumption DEF Finish
  <2>3. /\ reg' = [reg EXCEPT ![t] = FALSE] /\ current' = prev[t]
        /\ kind' = kind /\ prev' = prev /\ held' = held
    BY <2>1, <2>2 DEF Finish, Reset
  <2>4. ObjectsInv'
    BY <2>1, <2>2, <2>3, EndKeeps DEF objectVars
  <2>5. QED BY <2>1, <2>4, RegistryStep
<1>2. ASSUME NEW t \in Tx, DestroyTransaction(t)
      PROVE  IInv' /\ ObjectsInv'
  <2>1. Destroy(t) /\ UNCHANGED objectVars
    BY <1>2 DEF DestroyTransaction
  <2>2. /\ kind' = [kind EXCEPT ![t] = "none"] /\ prev' = [prev EXCEPT ![t] = NoTx]
        /\ held' = held /\ dying = t /\ \A u \in Tx : prev[u] # t
    BY <2>1, NoTxAssumption DEF Destroy, IInv, Owned
  <2>3. \A u \in Tx : u # t => kind'[u] = kind[u] /\ prev'[u] = prev[u]
    BY <2>2 DEF IInv, RegistryTypeOK
  <2>4. CASE reg[t]
    <3>1. current = t
      BY <2>2, <2>4, UnreferencedIsTop
    <3>2. reg' = [reg EXCEPT ![t] = FALSE] /\ current' = prev[t]
      BY <2>1, <2>4 DEF Destroy, Reset
    <3>3. LevelEnds(t, FALSE)
      BY <1>2, <2>4 DEF DestroyTransaction
    <3>4. ObjectsInv'
      BY <2>1, <2>2, <2>3, <2>4, <3>1, <3>2, <3>3, EndKeeps DEF objectVars
    <3>5. QED BY <2>1, <3>4, RegistryStep
  <2>5. CASE ~reg[t]
    <3>1. reg' = reg /\ current' = current /\ UNCHANGED descriptorVars
      BY <1>2, <2>1, <2>5 DEF Destroy, DestroyTransaction
    <3>2. \A u \in Tx : reg[u] => u # t /\ prev[u] # t /\ prev[u] \in Tx \cup {NoTx}
      BY <2>2, <2>5 DEF IInv, RegistryTypeOK
    <3>3. \A u \in Tx : reg[u] =>
            /\ kind'[u] = kind[u] /\ prev'[u] = prev[u]
            /\ prev[u] # NoTx => kind'[prev[u]] = kind[prev[u]]
      BY <2>3, <3>2
    <3>4. Nesting'
      BY <3>1, <3>3 DEF ObjectsInv, Nesting
    <3>5. ObjectsTyped'
      BY <2>1, <3>1 DEF ObjectsInv, ObjectsTyped, objectVars, descriptorVars
    <3>6. \A o \in Object : Proper(o)' <=> Proper(o)
      BY <2>1, <3>1 DEF Usable, Proper, objectVars
    <3>7. References'
      BY <2>1, <2>2, <3>1, <3>3 DEF ObjectsInv, ObjectsTyped, References, objectVars
    <3>8. Descriptors' /\ Holders'
      BY <2>1, <3>1, <3>6 DEF ObjectsInv, Descriptors, Holders, objectVars, descriptorVars
    <3>9. Levels'
      BY <3>1, <3>3 DEF ObjectsInv, Levels, descriptorVars
    <3>10. ObjectsInv'
      BY <3>4, <3>5, <3>7, <3>8, <3>9 DEF ObjectsInv
    <3>11. QED BY <2>1, <3>10, RegistryStep
  <2>6. QED BY <2>4, <2>5
<1>3. QED BY <1>1, <1>2


-----------------------------------------------------------------------------
(* The objects.                                                            *)

LEMMA SteadyNesting ==
  ASSUME ObjectsInv, UNCHANGED << reg, kind, prev >>
  PROVE  Nesting'
BY DEF ObjectsInv, Nesting

\* A shared_ptr to t goes, and with it t if it was the last one; the objects
\* still point to transactions that they pointed to.
LEMMA ReleasesKeeps ==
  ASSUME ~OutOfOrder, IInv, ObjectsInv, NEW t \in Tx, Releases(t),
         handle' \subseteq handle,
         \A o \in Object : trans'[o] # NoTx =>
           \E u \in Object : trans[u] = trans'[o] /\ (u \in strayed => o \in strayed')
  PROVE  IInv' /\ References' /\ Nesting' /\ UNCHANGED << reg, kind, prev, current >>
<1>1. UNCHANGED << reg, kind, prev, current >>
  BY DEF Releases, Drop, registryVars
<1>2. IInv'
  BY RegistryStep DEF Releases
<1>3. ASSUME NEW u \in Tx, u \in handle' \/ \E o \in Object : trans'[o] = u, held[u]
      PROVE  held'[u]
  <2>1. CASE Drop(t)
    <3>1. held' = [held EXCEPT ![t] = FALSE]
      BY <2>1 DEF Drop
    <3>2. CASE u # t
      BY <1>3, <3>1, <3>2 DEF IInv, RegistryTypeOK
    <3>3. CASE u = t
      BY <1>3, <3>3 DEF Releases, registryVars
    <3>4. QED BY <3>2, <3>3
  <2>2. CASE UNCHANGED registryVars
    BY <1>3, <2>2 DEF registryVars
  <2>3. QED BY <2>1, <2>2 DEF Releases
<1>4. handle' \subseteq Tx /\ \A u \in handle' : held[u]
  BY DEF ObjectsInv, ObjectsTyped, References
<1>5. \A o \in Object : trans'[o] # NoTx =>
        /\ trans'[o] \in Tx /\ held[trans'[o]]
        /\ o \notin strayed' /\ reg[trans'[o]] => kind[trans'[o]] \in Blocks
  BY DEF ObjectsInv, ObjectsTyped, References
<1>6. References'
  BY <1>1, <1>3, <1>4, <1>5 DEF References
<1>7. QED BY <1>1, <1>2, <1>6, SteadyNesting

\* The number n is closed, if it is one, and what is proper after the step was
\* so before, in the same or another object.
LEMMA ProperKeeps ==
  ASSUME ObjectsInv, NEW n, slot' \in [Fds -> Slots],
         \A f \in Fds : IF f = n THEN slot'[f] = Closed ELSE slot'[f] = slot[f],
         leftOpen' = leftOpen \ {n}, UNCHANGED << current, failed >>,
         \A o \in Object : Proper(o)' =>
           \E u \in Object : /\ Proper(u) /\ fd[u] # n
                             /\ trans'[o] = trans[u] /\ fd'[o] = fd[u] /\ opened'[o] = opened[u],
         \A u \in Object : Proper(u) /\ fd[u] # n => \E o \in Object : Proper(o)' /\ fd'[o] = fd[u],
         \A o, u \in Object : Proper(o)' /\ Proper(u)' /\ fd'[u] = fd'[o] => u = o
  PROVE  Descriptors' /\ Holders'
<1>1. Descriptors'
  <2> SUFFICES ASSUME NEW o \in Object, Proper(o)'
               PROVE  /\ fd'[o] \in Fds
                      /\ \/ slot'[fd'[o]] = [oid |-> opened'[o], level |-> trans'[o]]
                         \/ failed' /\ trans'[o] = current' /\ slot'[fd'[o]] = Closed
    BY DEF Descriptors
  <2>1. PICK u \in Object : /\ Proper(u) /\ fd[u] # n
                            /\ trans'[o] = trans[u] /\ fd'[o] = fd[u] /\ opened'[o] = opened[u]
    OBVIOUS
  <2>2. /\ fd[u] \in Fds
        /\ \/ slot[fd[u]] = [oid |-> opened[u], level |-> trans[u]]
           \/ failed /\ trans[u] = current /\ slot[fd[u]] = Closed
    BY <2>1 DEF ObjectsInv, Descriptors
  <2>3. slot'[fd[u]] = slot[fd[u]]
    BY <2>1, <2>2
  <2>4. QED BY <2>1, <2>2, <2>3
<1>2. Holders'
  <2> SUFFICES ASSUME NEW f \in Fds
               PROVE  /\ slot'[f] # Closed => (f \notin leftOpen' <=> \E o \in Object : Proper(o)' /\ fd'[o] = f)
                      /\ f \in leftOpen' => slot'[f] # Closed \/ failed'
    BY DEF Holders
  <2>1. CASE f = n
    BY <2>1
  <2>2. CASE f # n
    <3>1. slot'[f] = slot[f] /\ (f \in leftOpen' <=> f \in leftOpen)
      BY <2>2
    <3>2. (\E o \in Object : Proper(o)' /\ fd'[o] = f) <=> \E u \in Object : Proper(u) /\ fd[u] = f
      BY <2>2
    <3>3. /\ slot[f] # Closed => (f \notin leftOpen <=> \E u \in Object : Proper(u) /\ fd[u] = f)
          /\ f \in leftOpen => slot[f] # Closed \/ failed
      BY DEF ObjectsInv, Holders
    <3>4. QED BY <3>1, <3>2, <3>3
  <2>3. QED BY <2>1, <2>2
<1>3. QED BY <1>1, <1>2

\* lo_close() succeeds for the number of x.  Another object that stays proper
\* has another number, and the reverse.
LEMMA ClosesKeeps ==
  ASSUME ObjectsInv, NEW x \in Object, Usable(x), Closes(x), UNCHANGED << reg, kind >>
  PROVE  /\ ~failed /\ failed' = failed /\ leftOpen' = leftOpen \ {fd[x]} /\ fd[x] \in Fds
         /\ slot' \in [Fds -> Slots]
         /\ \A f \in Fds : IF f = fd[x] THEN slot'[f] = Closed ELSE slot'[f] = slot[f]
         /\ Levels'
         /\ AfterClose(x) \in SUBSET Object /\ x \notin AfterClose(x) /\ strayed \subseteq AfterClose(x) \cup {x}
         /\ \A u \in AfterClose(x) : trans[u] # NoTx
         /\ \A u \in Object : u # x /\ Usable(u) => (u \notin AfterClose(x) <=> Proper(u) /\ fd[u] # fd[x])
         /\ \A u \in Object : Proper(u) /\ fd[u] # fd[x] => u # x
<1>1. /\ ~failed /\ slot[fd[x]] # Closed /\ slot' = [slot EXCEPT ![fd[x]] = Closed] /\ failed' = failed
      /\ leftOpen' = leftOpen \ {fd[x]}
  BY DEF Closes, CloseSucceeds
<1>2. fd[x] \in Fds /\ slot \in [Fds -> Slots] /\ strayed \in SUBSET Object
  BY DEF ObjectsInv, ObjectsTyped, Usable
<1>3. \A f \in Fds : IF f = fd[x] THEN slot'[f] = Closed ELSE slot'[f] = slot[f]
  BY <1>1, <1>2
<1>4. slot' \in [Fds -> Slots]
  BY <1>1, <1>2, ClosedSlot
<1>5. Levels'
  BY <1>1, <1>2, <1>3 DEF ObjectsInv, Levels
<1>6. /\ AfterClose(x) \in SUBSET Object /\ x \notin AfterClose(x) /\ strayed \subseteq AfterClose(x) \cup {x}
      /\ \A u \in Object : u # x =>
           (u \in AfterClose(x) <=> u \in strayed \/ (x \in strayed /\ trans[u] # NoTx /\ fd[u] = fd[x]))
  BY <1>2 DEF AfterClose
<1>7. \A u \in AfterClose(x) : trans[u] # NoTx
  BY <1>6 DEF ObjectsInv, ObjectsTyped
<1>8. \A u \in Object : u # x /\ Usable(u) => (u \notin AfterClose(x) <=> Proper(u) /\ fd[u] # fd[x])
  <2> SUFFICES ASSUME NEW u \in Object, u # x, Usable(u)
               PROVE  u \notin AfterClose(x) <=> Proper(u) /\ fd[u] # fd[x]
    OBVIOUS
  <2>1. Proper(u) <=> u \notin strayed
    BY DEF Proper
  <2>2. trans[u] # NoTx
    BY DEF Usable
  <2>3. x \notin strayed /\ Proper(u) => fd[u] # fd[x]
    BY DEF Proper, ObjectsInv, Descriptors
  <2>4. QED BY <1>6, <2>1, <2>2, <2>3
<1>9. QED BY <1>1, <1>2, <1>3, <1>4, <1>5, <1>6, <1>7, <1>8

\* Outside of a block there is no descriptor, and nothing has failed.
LEMMA OutsideBlock ==
  ASSUME IInv, ObjectsInv, ~InBlock
  PROVE  /\ ~failed /\ leftOpen = {} /\ \A f \in Fds : slot[f] = Closed
         /\ \A o \in Object : ~Proper(o)
<1>1. \A t \in Tx : reg[t] => kind[t] = "direct"
  <2>1. CASE current = NoTx
    <3>1. active = << >>
      BY <2>1, TopFacts
    <3>2. QED BY <3>1 DEF IInv, CurrentIsTop
  <2>2. CASE current # NoTx
    <3>1. kind[current] = "direct" /\ current \in Tx /\ reg[current]
      BY <2>2, TopFacts DEF InBlock
    <3>2. prev[current] = NoTx
      BY <3>1 DEF ObjectsInv, Nesting
    <3>3. \A t \in Tx : reg[t] => t = current
      BY <3>1, <3>2, Alone
    <3>4. QED BY <3>1, <3>3
  <2>3. QED BY <2>1, <2>2
<1>2. ~failed
  BY <1>1 DEF ObjectsInv, Levels
<1>3. \A f \in Fds : slot[f] = Closed
  BY <1>1, <1>2 DEF ObjectsInv, Levels, Blocks
<1>4. leftOpen = {}
  BY <1>2, <1>3 DEF ObjectsInv, ObjectsTyped, Holders
<1>5. ASSUME NEW o \in Object, Proper(o)
      PROVE  FALSE
  <2>1. trans[o] \in Tx /\ reg[trans[o]] /\ kind[trans[o]] \in Blocks
    BY <1>5 DEF Proper, Usable, ObjectsInv, ObjectsTyped, References
  <2>2. QED BY <1>1, <2>1 DEF Blocks
<1>6. QED BY <1>2, <1>3, <1>4, <1>5

\* A call fails; if it is in the destructor of x, its descriptor may be left.
LEMMA FailKeeps ==
  ASSUME IInv, ObjectsInv, NEW x \in Object, CallFails, NEW forgets \in BOOLEAN,
         trans' = IF forgets THEN [trans EXCEPT ![x] = NoTx] ELSE trans,
         strayed' = IF forgets THEN strayed \ {x} ELSE strayed,
         leftOpen' = IF forgets
                       THEN leftOpen \cup ({fd[x]} \cap {f \in Fds : x \notin strayed /\ slot'[f] # Closed})
                       ELSE leftOpen,
         forgets => Usable(x),
         UNCHANGED << reg, kind, current, fd, opened, handle >>
  PROVE  ObjectsTyped' /\ Descriptors' /\ Holders' /\ Levels'
<1>1. /\ failed' = (failed \/ InBlock)
      /\ failed => slot' = slot
      /\ ~failed => slot' = [f \in Fds |-> IF slot[f].level = current THEN Closed ELSE slot[f]]
  BY DEF CallFails, CloseWhere
<1>2. /\ slot \in [Fds -> Slots] /\ leftOpen \in SUBSET Fds /\ trans \in [Object -> Tx \cup {NoTx}]
      /\ failed \in BOOLEAN /\ strayed \in SUBSET Object
      /\ \A o \in Object : IF trans[o] # NoTx THEN fd[o] \in Fds ELSE o \notin strayed
  BY DEF ObjectsInv, ObjectsTyped
<1>3. slot' \in [Fds -> Slots]
  BY <1>1, <1>2, ClosedSlot
<1>4. \A f \in Fds : slot'[f] = slot[f] \/ slot'[f] = Closed
  BY <1>1
<1>5. trans' \in [Object -> Tx \cup {NoTx}]
  BY <1>2
<1>6. \A u \in Object : trans'[u] = IF forgets /\ u = x THEN NoTx ELSE trans[u]
  BY <1>2
<1>7. ObjectsTyped'
  <2>1. failed' \in BOOLEAN /\ leftOpen' \in SUBSET Fds /\ strayed' \in SUBSET Object
    BY <1>1, <1>2 DEF InBlock
  <2>2. \A o \in Object : IF trans'[o] # NoTx THEN fd[o] \in Fds ELSE o \notin strayed'
    BY <1>2, <1>6
  <2>3. QED BY <1>3, <1>5, <2>1, <2>2 DEF ObjectsInv, ObjectsTyped
<1>8. \A u \in Object : Proper(u)' <=> Proper(u) /\ ~(forgets /\ u = x)
  BY <1>6 DEF Usable, Proper
<1>9. CASE ~InBlock
  <2>1. /\ ~failed /\ leftOpen = {} /\ \A f \in Fds : slot[f] = Closed
        /\ \A o \in Object : ~Proper(o)
    BY <1>9, OutsideBlock
  <2>2. failed' = FALSE /\ \A f \in Fds : slot'[f] = Closed
    BY <1>1, <1>4, <1>9, <2>1
  <2>3. leftOpen' = {}
    BY <2>1, <2>2
  <2>4. Descriptors' /\ Holders'
    BY <1>8, <2>1, <2>2, <2>3 DEF Descriptors, Holders
  <2>5. Levels'
    BY <2>2 DEF Levels
  <2>6. QED BY <1>7, <2>4, <2>5
<1>10. CASE InBlock
  <2>1. failed' = TRUE
    BY <1>1, <1>10
  <2>2. Descriptors'
    <3>1. ASSUME NEW u \in Object, Proper(u)
          PROVE  /\ fd[u] \in Fds
                 /\ \/ slot'[fd[u]] = [oid |-> opened[u], level |-> trans[u]]
                    \/ trans[u] = current /\ slot'[fd[u]] = Closed
      <4>1. /\ fd[u] \in Fds
            /\ \/ slot[fd[u]] = [oid |-> opened[u], level |-> trans[u]]
               \/ failed /\ trans[u] = current /\ slot[fd[u]] = Closed
        BY <3>1 DEF ObjectsInv, Descriptors
      <4>2. CASE failed
        BY <1>1, <4>1, <4>2
      <4>3. CASE ~failed
        <5>1. slot[fd[u]] = [oid |-> opened[u], level |-> trans[u]] /\ slot[fd[u]].level = trans[u]
          BY <4>1, <4>3
        <5>2. QED BY <1>1, <4>1, <4>3, <5>1
      <4>4. QED BY <4>2, <4>3
    <3>2. \A o, u \in Object : Proper(o)' /\ Proper(u)' /\ fd[u] = fd[o] => u = o
      BY <1>8 DEF ObjectsInv, Descriptors
    <3>3. QED BY <1>6, <1>8, <2>1, <3>1, <3>2 DEF Descriptors
  <2>3. Holders'
    <3> SUFFICES ASSUME NEW f \in Fds, slot'[f] # Closed
                 PROVE  f \notin leftOpen' <=> \E o \in Object : Proper(o)' /\ fd[o] = f
      BY <2>1 DEF Holders
    <3>1. slot[f] # Closed
      BY <1>4
    <3>2. f \notin leftOpen <=> \E o \in Object : Proper(o) /\ fd[o] = f
      BY <3>1 DEF ObjectsInv, Holders
    <3>3. f \in leftOpen' <=> f \in leftOpen \/ (forgets /\ x \notin strayed /\ f = fd[x])
      OBVIOUS
    <3>4. CASE forgets /\ x \notin strayed /\ f = fd[x]
      <4>1. Proper(x)
        BY <3>4 DEF Proper
      <4>2. \A u \in Object : Proper(u) /\ fd[u] = fd[x] => u = x
        BY <4>1 DEF ObjectsInv, Descriptors
      <4>3. QED BY <1>8, <3>3, <3>4, <4>2
    <3>5. CASE ~(forgets /\ x \notin strayed /\ f = fd[x])
      <4>1. \A u \in Object : Proper(u) /\ fd[u] = f => Proper(u)'
        BY <1>8, <3>5 DEF Proper
      <4>2. QED BY <1>8, <3>2, <3>3, <3>5, <4>1
    <3>6. QED BY <3>4, <3>5
  <2>4. Levels'
    <3>1. current \in Tx /\ reg[current] /\ kind[current] \in Blocks
      BY <1>10, TopFacts DEF InBlock, ObjectsInv, Nesting, TransactionKinds, Blocks
    <3>2. \E t \in Tx : reg[t] /\ kind[t] \in {"top", "sub"}
      BY <3>1 DEF ObjectsInv, Nesting
    <3>3. \A f \in Fds : slot'[f] # Closed =>
            slot'[f].level \in Tx /\ (reg[slot'[f].level] => kind[slot'[f].level] \in Blocks)
      BY <1>4 DEF ObjectsInv, Levels
    <3>4. QED BY <2>1, <3>2, <3>3 DEF Levels
  <2>5. QED BY <1>7, <2>2, <2>3, <2>4
<1>11. QED BY <1>9, <1>10

\* lo_open() gives out a number that is closed: no proper object has it.
LEMMA OpensStep ==
  ASSUME ~OutOfOrder, IInv, ObjectsInv, NEW x \in Object, NEW t \in Tx, NEW oid \in Oid,
         trans[x] = NoTx, t \in handle, reg[t], Opens(x, t, oid), UNCHANGED registryVars
  PROVE  IInv' /\ ObjectsInv'
<1>1. /\ failed = FALSE /\ UNCHANGED << handle, failed >>
      /\ trans' = [trans EXCEPT ![x] = t] /\ opened' = [opened EXCEPT ![x] = oid]
      /\ strayed' = IF IsCurrent(t) THEN strayed ELSE strayed \cup {x}
      /\ IsCurrent(t) <=> t = current
  BY DEF Opens, IsCurrent, ObjectsInv, ObjectsTyped
<1>2. PICK n \in Fds : /\ slot[n] = Closed
                       /\ slot' = [slot EXCEPT ![n] = [oid |-> oid, level |-> current]]
                       /\ fd' = [fd EXCEPT ![x] = n]
                       /\ leftOpen' = IF IsCurrent(t) THEN leftOpen ELSE leftOpen \cup {n}
  BY DEF Opens
<1>3. UNCHANGED << reg, kind, prev, current, held >>
  BY DEF registryVars
<1>4. current \in Tx /\ reg[current] /\ kind[current] \in Blocks
  BY TopFacts DEF Opens, InBlock, ObjectsInv, Nesting, TransactionKinds, Blocks
<1> DEFINE new == [oid |-> oid, level |-> current]
<1>5. new \in Slots /\ new.level = current /\ new # Closed
  BY <1>4, OpenSlot DEF Slots
<1> HIDE DEF new
<1>6. /\ slot \in [Fds -> Slots] /\ trans \in [Object -> Tx \cup {NoTx}]
      /\ fd \in [Object -> Fds \cup {0}] /\ opened \in [Object -> Oid \cup {0}]
      /\ leftOpen \in SUBSET Fds /\ strayed \in SUBSET Object /\ x \notin strayed
      /\ \A o \in Object : IF trans[o] # NoTx THEN fd[o] \in Fds ELSE o \notin strayed
  BY DEF ObjectsInv, ObjectsTyped
<1>7. /\ slot'[n] = new /\ \A f \in Fds : f # n => slot'[f] = slot[f]
      /\ slot' \in [Fds -> Slots]
  BY <1>2, <1>5, <1>6 DEF new
<1>8. /\ trans'[x] = t /\ fd'[x] = n /\ opened'[x] = oid
      /\ \A u \in Object : u # x => trans'[u] = trans[u] /\ fd'[u] = fd[u] /\ opened'[u] = opened[u]
      /\ \A u \in Object : u # x => (u \in strayed' <=> u \in strayed)
      /\ x \in strayed' <=> t # current
  BY <1>1, <1>2, <1>6
<1>9. ObjectsTyped'
  <2>1. /\ trans' \in [Object -> Tx \cup {NoTx}] /\ fd' \in [Object -> Fds \cup {0}]
        /\ opened' \in [Object -> Oid \cup {0}]
    BY <1>1, <1>2, <1>6
  <2>2. leftOpen' \in SUBSET Fds /\ strayed' \in SUBSET Object
    BY <1>1, <1>2, <1>6
  <2>3. \A o \in Object : IF trans'[o] # NoTx THEN fd'[o] \in Fds ELSE o \notin strayed'
    BY <1>6, <1>8, NoTxAssumption
  <2>4. QED BY <1>1, <1>7, <2>1, <2>2, <2>3 DEF ObjectsInv, ObjectsTyped
<1>10. /\ Proper(x)' <=> t = current
       /\ ~Proper(x)
       /\ \A u \in Object : u # x => (Proper(u)' <=> Proper(u))
  BY <1>3, <1>8, NoTxAssumption DEF Usable, Proper
<1>11. \A u \in Object : Proper(u) =>
         /\ fd[u] \in Fds /\ fd[u] # n
         /\ slot[fd[u]] = [oid |-> opened[u], level |-> trans[u]]
  <2> SUFFICES ASSUME NEW u \in Object, Proper(u)
               PROVE  /\ fd[u] \in Fds /\ fd[u] # n
                      /\ slot[fd[u]] = [oid |-> opened[u], level |-> trans[u]]
    OBVIOUS
  <2>1. fd[u] \in Fds /\ slot[fd[u]] = [oid |-> opened[u], level |-> trans[u]]
    BY <1>1 DEF ObjectsInv, Descriptors
  <2>2. trans[u] \in Tx
    BY <1>6 DEF Usable, Proper
  <2>3. slot[fd[u]] # Closed
    BY <2>1, <2>2, OpenSlot
  <2>4. QED BY <1>2, <2>1, <2>3
<1>12. References'
  <2>1. held[t]
    BY DEF ObjectsInv, References
  <2>2. \A o \in Object : trans'[o] # NoTx =>
          /\ held[trans'[o]]
          /\ o \notin strayed' /\ reg[trans'[o]] => kind[trans'[o]] \in Blocks
    BY <1>4, <1>8, <2>1 DEF ObjectsInv, References
  <2>3. QED BY <1>1, <1>3, <2>2 DEF ObjectsInv, References
<1>13. Descriptors'
  <2> SUFFICES ASSUME NEW o \in Object, Proper(o)'
               PROVE  /\ fd'[o] \in Fds
                      /\ slot'[fd'[o]] = [oid |-> opened'[o], level |-> trans'[o]]
                      /\ \A u \in Object : Proper(u)' /\ fd'[u] = fd'[o] => u = o
    BY DEF Descriptors
  <2>1. CASE o = x
    <3>1. slot'[fd'[o]] = [oid |-> opened'[o], level |-> trans'[o]] /\ fd'[o] = n
      BY <1>7, <1>8, <1>10, <2>1 DEF new
    <3>2. QED BY <1>2, <1>8, <1>10, <1>11, <2>1, <3>1
  <2>2. CASE o # x
    <3>1. Proper(o) /\ fd'[o] = fd[o] /\ opened'[o] = opened[o] /\ trans'[o] = trans[o]
      BY <1>8, <1>10, <2>2
    <3>2. fd[o] \in Fds /\ fd[o] # n /\ slot'[fd[o]] = [oid |-> opened[o], level |-> trans[o]]
      BY <1>7, <1>11, <3>1
    <3>3. \A u \in Object : Proper(u)' /\ fd'[u] = fd[o] => u = o
      BY <1>8, <1>10, <3>1, <3>2 DEF ObjectsInv, Descriptors
    <3>4. QED BY <3>1, <3>2, <3>3
  <2>3. QED BY <2>1, <2>2
<1>14. Holders'
  <2>1. n \notin leftOpen
    BY <1>1, <1>2 DEF ObjectsInv, Holders
  <2> SUFFICES ASSUME NEW f \in Fds
               PROVE  /\ slot'[f] # Closed => (f \notin leftOpen' <=> \E o \in Object : Proper(o)' /\ fd'[o] = f)
                      /\ f \in leftOpen' => slot'[f] # Closed
    BY <1>1 DEF Holders
  <2>2. CASE f = n
    <3>1. n \in leftOpen' <=> t # current
      BY <1>1, <1>2, <2>1
    <3>2. \A u \in Object : Proper(u)' /\ fd'[u] = n => u = x
      BY <1>8, <1>10, <1>11
    <3>3. slot'[f] # Closed
      BY <1>5, <1>7, <2>2
    <3>4. QED BY <1>8, <1>10, <2>2, <3>1, <3>2, <3>3
  <2>3. CASE f # n
    <3>1. slot'[f] = slot[f] /\ (f \in leftOpen' <=> f \in leftOpen)
      BY <1>2, <1>7, <2>3
    <3>2. (\E o \in Object : Proper(o)' /\ fd'[o] = f) <=> \E o \in Object : Proper(o) /\ fd[o] = f
      BY <1>8, <1>10, <2>3
    <3>3. QED BY <1>1, <3>1, <3>2 DEF ObjectsInv, Holders
  <2>4. QED BY <2>2, <2>3
<1>15. Levels'
  <2> SUFFICES ASSUME NEW f \in Fds, slot'[f] # Closed
               PROVE  slot'[f].level \in Tx /\ reg[slot'[f].level] /\ kind[slot'[f].level] \in Blocks
    BY <1>1, <1>3 DEF Levels
  <2>1. CASE f = n
    BY <1>4, <1>5, <1>7, <2>1
  <2>2. CASE f # n
    BY <1>1, <1>7, <2>2 DEF ObjectsInv, Levels
  <2>3. QED BY <2>1, <2>2
<1>16. Nesting'
  BY <1>3, SteadyNesting
<1>17. IInv'
  BY RegistryStep
<1>18. QED BY <1>9, <1>12, <1>13, <1>14, <1>15, <1>16, <1>17 DEF ObjectsInv


LEMMA SteadyStep ==
  ASSUME ~OutOfOrder, ObjectsInv, UNCHANGED << registryVars, objectVars, descriptorVars >>
  PROVE  ObjectsInv' /\ (IInv => IInv')
<1>1. /\ UNCHANGED << kind, reg, prev, held, current >>
      /\ UNCHANGED << handle, trans, fd, opened, slot, failed, leftOpen, strayed >>
  BY DEF registryVars, objectVars, descriptorVars
<1>2. \A o \in Object : Proper(o)' <=> Proper(o)
  BY <1>1 DEF Usable, Proper
<1>3. ObjectsTyped' /\ Nesting' /\ References' /\ Levels'
  BY <1>1 DEF ObjectsInv, ObjectsTyped, Nesting, References, Levels
<1>4. Descriptors' /\ Holders'
  BY <1>1, <1>2 DEF ObjectsInv, Descriptors, Holders
<1>5. QED BY <1>3, <1>4, StutterIInv DEF ObjectsInv


\* The program uses an object or a transaction that has ended.
LEMMA CrashStep ==
  ASSUME ObjectsInv, Crash, UNCHANGED << objectVars, descriptorVars >>
  PROVE  crashed' /\ ObjectsInv'
<1>1. /\ crashed' = TRUE
      /\ UNCHANGED << alive, kind, reg, prev, held, current, dying, active >>
      /\ UNCHANGED << handle, trans, fd, opened, slot, failed, leftOpen, strayed >>
  BY DEF Crash, objectVars, descriptorVars
<1>2. \A o \in Object : Proper(o)' <=> Proper(o)
  BY <1>1 DEF Usable, Proper
<1>3. ObjectsTyped' /\ Nesting' /\ References' /\ Levels'
  BY <1>1 DEF ObjectsInv, ObjectsTyped, Nesting, References, Levels
<1>4. Descriptors' /\ Holders'
  BY <1>1, <1>2 DEF ObjectsInv, Descriptors, Holders
<1>5. QED BY <1>1, <1>3, <1>4 DEF ObjectsInv

\* A call fails, and the objects stay as they are.
LEMMA CallFailsStep ==
  ASSUME ~OutOfOrder, IInv, ObjectsInv, NEW x \in Object, CallFails,
         UNCHANGED << registryVars, objectVars, leftOpen >>
  PROVE  IInv' /\ ObjectsInv'
<1>1. UNCHANGED << reg, kind, prev, held, current, handle, trans, fd, opened, leftOpen, strayed >>
  BY DEF registryVars, objectVars
<1>2. ObjectsTyped' /\ Descriptors' /\ Holders' /\ Levels'
  <2> DEFINE forgets == FALSE
  <2>1. /\ forgets \in BOOLEAN /\ (forgets => Usable(x))
        /\ trans' = IF forgets THEN [trans EXCEPT ![x] = NoTx] ELSE trans
        /\ strayed' = IF forgets THEN strayed \ {x} ELSE strayed
        /\ leftOpen' = IF forgets
                         THEN leftOpen \cup ({fd[x]} \cap {f \in Fds : x \notin strayed /\ slot'[f] # Closed})
                         ELSE leftOpen
    BY <1>1
  <2> HIDE DEF forgets
  <2>2. QED BY <1>1, <2>1, FailKeeps
<1>3. References' /\ Nesting'
  BY <1>1, SteadyNesting DEF ObjectsInv, References
<1>4. IInv'
  BY RegistryStep
<1>5. QED BY <1>2, <1>3, <1>4 DEF ObjectsInv

LEMMA OpenStep ==
  ASSUME ~OutOfOrder, IInv, ObjectsInv,
         NEW x \in Object, NEW t \in Tx, NEW oid \in Oid, OpenObject(x, t, oid)
  PROVE  (crashed \/ IInv)' /\ ObjectsInv'
<1>1. CASE Crash /\ UNCHANGED << objectVars, descriptorVars >>
  BY <1>1, CrashStep
<1>2. CASE CallFails /\ UNCHANGED << registryVars, objectVars, leftOpen >>
  BY <1>2, CallFailsStep
<1>3. CASE /\ trans[x] = NoTx /\ t \in handle /\ reg[t]
           /\ Opens(x, t, oid) /\ UNCHANGED registryVars
  BY <1>3, OpensStep
<1>4. QED BY <1>1, <1>2, <1>3 DEF OpenObject

LEMMA DropHandleStep ==
  ASSUME ~OutOfOrder, IInv, ObjectsInv, NEW t \in Tx, DropHandle(t)
  PROVE  IInv' /\ ObjectsInv'
<1>1. /\ handle' = handle \ {t} /\ Releases(t)
      /\ UNCHANGED << trans, fd, opened, strayed, slot, failed, leftOpen >>
  BY DEF DropHandle, descriptorVars
<1>2. IInv' /\ References' /\ Nesting' /\ UNCHANGED << reg, kind, prev, current >>
  BY <1>1, ReleasesKeeps
<1>3. \A o \in Object : Proper(o)' <=> Proper(o)
  BY <1>1, <1>2 DEF Usable, Proper
<1>4. ObjectsTyped'
  BY <1>1 DEF ObjectsInv, ObjectsTyped
<1>5. Descriptors' /\ Holders' /\ Levels'
  BY <1>1, <1>2, <1>3 DEF ObjectsInv, Descriptors, Holders, Levels
<1>6. QED BY <1>2, <1>4, <1>5 DEF ObjectsInv

\* What is left of x when its number is closed, and it lets go of its
\* transaction.
LEMMA ForgetStep ==
  ASSUME ~OutOfOrder, IInv, ObjectsInv, NEW x \in Object, Usable(x),
         trans' = [trans EXCEPT ![x] = NoTx], Releases(trans[x]),
         UNCHANGED << handle, fd, opened >>,
         \/ Closes(x) /\ strayed' = AfterClose(x)
         \/ /\ CloseFails(fd[x])
            /\ leftOpen' = leftOpen \cup ({fd[x]} \cap {f \in Fds : x \notin strayed /\ slot'[f] # Closed})
            /\ strayed' = strayed \ {x}
  PROVE  IInv' /\ ObjectsInv'
<1>1. trans[x] \in Tx /\ trans \in [Object -> Tx \cup {NoTx}]
  BY DEF Usable, ObjectsInv, ObjectsTyped
<1>2. trans'[x] = NoTx /\ \A o \in Object : o # x => trans'[o] = trans[o]
  BY <1>1
<1>3. UNCHANGED << reg, kind >>
  BY DEF Releases, Drop, registryVars
<1>4. strayed \subseteq strayed' \cup {x}
  <2>1. CASE Closes(x) /\ strayed' = AfterClose(x)
    BY <1>3, <2>1, ClosesKeeps
  <2>2. CASE strayed' = strayed \ {x}
    BY <2>2
  <2>3. QED BY <2>1, <2>2
<1>5. \A o \in Object : trans'[o] # NoTx =>
        trans[o] = trans'[o] /\ (o \in strayed => o \in strayed')
  BY <1>2, <1>4
<1>6. IInv' /\ References' /\ Nesting' /\ UNCHANGED << reg, kind, prev, current >>
  BY <1>1, <1>5, ReleasesKeeps
<1>7. CASE Closes(x) /\ strayed' = AfterClose(x)
  <2> DEFINE n == fd[x]
  <2>1. /\ failed' = failed /\ leftOpen' = leftOpen \ {n} /\ n \in Fds
        /\ slot' \in [Fds -> Slots]
        /\ \A f \in Fds : IF f = n THEN slot'[f] = Closed ELSE slot'[f] = slot[f]
        /\ Levels'
        /\ strayed' \in SUBSET Object /\ x \notin strayed'
        /\ \A u \in strayed' : trans[u] # NoTx
        /\ \A u \in Object : u # x /\ Usable(u) => (u \notin strayed' <=> Proper(u) /\ fd[u] # n)
        /\ \A u \in Object : Proper(u) /\ fd[u] # n => u # x
    BY <1>3, <1>7, ClosesKeeps
  <2> HIDE DEF n
  <2>2. \A u \in Object : Usable(u)' <=> u # x /\ Usable(u)
    BY <1>2, <1>6 DEF Usable
  <2>3. \A u \in Object : Proper(u)' <=> Proper(u) /\ fd[u] # n
    BY <2>1, <2>2 DEF Proper
  <2>4. \A o, u \in Object : Proper(o) /\ Proper(u) /\ fd[u] = fd[o] => u = o
    BY DEF ObjectsInv, Descriptors
  <2>5. \A u \in Object : Proper(u) /\ fd[u] # n => trans'[u] = trans[u]
    BY <1>2, <2>1
  <2>6. Descriptors' /\ Holders'
    BY <1>6, <2>1, <2>3, <2>4, <2>5, ProperKeeps
  <2>7. \A o \in Object : IF trans'[o] # NoTx THEN fd[o] \in Fds ELSE o \notin strayed'
    BY <1>2, <2>1 DEF ObjectsInv, ObjectsTyped
  <2>8. failed' \in BOOLEAN /\ leftOpen' \in SUBSET Fds /\ trans' \in [Object -> Tx \cup {NoTx}]
    BY <1>1, <2>1 DEF ObjectsInv, ObjectsTyped
  <2>9. ObjectsTyped'
    BY <2>1, <2>7, <2>8 DEF ObjectsInv, ObjectsTyped
  <2>10. QED BY <1>6, <2>1, <2>6, <2>9 DEF ObjectsInv
<1>8. CASE /\ CloseFails(fd[x])
           /\ leftOpen' = leftOpen \cup ({fd[x]} \cap {f \in Fds : x \notin strayed /\ slot'[f] # Closed})
           /\ strayed' = strayed \ {x}
  <2> DEFINE forgets == TRUE
  <2>1. /\ forgets \in BOOLEAN /\ (forgets => Usable(x))
        /\ trans' = IF forgets THEN [trans EXCEPT ![x] = NoTx] ELSE trans
        /\ strayed' = IF forgets THEN strayed \ {x} ELSE strayed
        /\ leftOpen' = IF forgets
                         THEN leftOpen \cup ({fd[x]} \cap {f \in Fds : x \notin strayed /\ slot'[f] # Closed})
                         ELSE leftOpen
    BY <1>8
  <2>2. CallFails
    BY <1>8 DEF CloseFails
  <2> HIDE DEF forgets
  <2>3. ObjectsTyped' /\ Descriptors' /\ Holders' /\ Levels'
    BY <1>6, <2>1, <2>2, FailKeeps
  <2>4. QED BY <1>6, <2>3 DEF ObjectsInv
<1>9. QED BY <1>7, <1>8

\* close(), the destructor, and read() and its like
LEMMA ObjectStep ==
  ASSUME ~OutOfOrder, IInv, ObjectsInv, NEW x \in Object,
         \/ CloseObject(x)
         \/ DestroyObject(x)
         \/ \E ok \in BOOLEAN : UseObject(x, ok)
  PROVE  (crashed \/ IInv)' /\ ObjectsInv'
<1>1. CASE Dereferences(x)
  <2>1. Crash /\ UNCHANGED << objectVars, descriptorVars >>
    BY <1>1 DEF Dereferences
  <2>2. QED BY <2>1, CrashStep
<1>2. CASE ~Dereferences(x)
  <2>1. Usable(x)
    BY <1>2 DEF CloseObject, DestroyObject, UseObject, Usable
  <2>2. ASSUME CloseObject(x)
        PROVE  IInv' /\ ObjectsInv'
    <3>1. \/ /\ Closes(x) /\ strayed' = AfterClose(x) /\ trans' = [trans EXCEPT ![x] = NoTx]
             /\ UNCHANGED << handle, fd, opened >> /\ Releases(trans[x])
          \/ CloseFails(fd[x]) /\ UNCHANGED << registryVars, objectVars, leftOpen >>
      BY <1>2, <2>2 DEF CloseObject
    <3>2. CASE /\ Closes(x) /\ strayed' = AfterClose(x) /\ trans' = [trans EXCEPT ![x] = NoTx]
               /\ UNCHANGED << handle, fd, opened >> /\ Releases(trans[x])
      BY <2>1, <3>2, ForgetStep
    <3>3. CASE CloseFails(fd[x]) /\ UNCHANGED << registryVars, objectVars, leftOpen >>
      BY <2>1, <3>3, CallFailsStep DEF CloseFails
    <3>4. QED BY <3>1, <3>2, <3>3
  <2>3. ASSUME DestroyObject(x)
        PROVE  IInv' /\ ObjectsInv'
    BY <1>2, <2>1, <2>3, ForgetStep DEF DestroyObject
  <2>4. ASSUME NEW ok \in BOOLEAN, UseObject(x, ok)
        PROVE  IInv' /\ ObjectsInv'
    <3>1. /\ \/ UNCHANGED << slot, failed >>
             \/ CallFails
          /\ UNCHANGED << registryVars, objectVars, leftOpen >>
      BY <1>2, <2>4 DEF UseObject
    <3>2. CASE CallFails
      BY <3>1, <3>2, CallFailsStep
    <3>3. CASE UNCHANGED << slot, failed >>
      BY <3>1, <3>3, SteadyStep DEF descriptorVars
    <3>4. QED BY <3>1, <3>2, <3>3
  <2>5. QED BY <2>2, <2>3, <2>4
<1>3. QED BY <1>1, <1>2

\* What from has is in x afterwards.  after is strayed without the effect of
\* the move itself, and n the number that was closed before it.
LEMMA MovesKeep ==
  ASSUME ObjectsInv, NEW x \in Object, NEW from \in Object, x # from, trans[from] # NoTx,
         MoveObject(x, from), UNCHANGED << reg, current, handle, failed >>,
         NEW after \in SUBSET Object, strayed' = AfterMove(after, x, from),
         x \notin after, \A u \in after : trans[u] # NoTx,
         NEW n, \A u \in Object : u # x /\ Usable(u) => (u \notin after <=> Proper(u) /\ fd[u] # n),
         \A u \in Object : Proper(u) /\ fd[u] # n => u # x,
         slot' \in [Fds -> Slots],
         \A f \in Fds : IF f = n THEN slot'[f] = Closed ELSE slot'[f] = slot[f],
         leftOpen' = leftOpen \ {n}
  PROVE  /\ ObjectsTyped' /\ Descriptors' /\ Holders'
         /\ \A o \in Object : trans'[o] # NoTx =>
              \E u \in Object : trans[u] = trans'[o] /\ (u \in after => o \in strayed') /\ u # x
<1>1. /\ trans \in [Object -> Tx \cup {NoTx}] /\ fd \in [Object -> Fds \cup {0}]
      /\ opened \in [Object -> Oid \cup {0}] /\ leftOpen \in SUBSET Fds /\ failed \in BOOLEAN
      /\ \A o \in Object : trans[o] # NoTx => fd[o] \in Fds
  BY DEF ObjectsInv, ObjectsTyped
<1>2. /\ trans'[x] = trans[from] /\ fd'[x] = fd[from] /\ opened'[x] = opened[from]
      /\ trans'[from] = NoTx
      /\ \A u \in Object : u # x /\ u # from =>
           trans'[u] = trans[u] /\ fd'[u] = fd[u] /\ opened'[u] = opened[u]
  BY <1>1 DEF MoveObject
<1>3. /\ trans' \in [Object -> Tx \cup {NoTx}] /\ fd' \in [Object -> Fds \cup {0}]
      /\ opened' \in [Object -> Oid \cup {0}]
  BY <1>1 DEF MoveObject
<1>4. /\ strayed' \in SUBSET Object /\ from \notin strayed'
      /\ x \in strayed' <=> from \in after
      /\ \A u \in Object : u # x /\ u # from => (u \in strayed' <=> u \in after)
  BY DEF AfterMove
<1>5. \A o \in Object : IF trans'[o] # NoTx THEN fd'[o] \in Fds ELSE o \notin strayed'
  <2> SUFFICES ASSUME NEW o \in Object
               PROVE  IF trans'[o] # NoTx THEN fd'[o] \in Fds ELSE o \notin strayed'
    OBVIOUS
  <2>1. CASE o = x
    BY <1>1, <1>2, <2>1
  <2>2. CASE o = from
    BY <1>2, <1>4, <2>2
  <2>3. CASE o # x /\ o # from
    BY <1>1, <1>2, <1>4, <2>3
  <2>4. QED BY <2>1, <2>2, <2>3
<1>6. ObjectsTyped'
  <2>1. handle' \in SUBSET Tx /\ leftOpen' \in SUBSET Fds /\ failed' \in BOOLEAN
    BY <1>1 DEF ObjectsInv, ObjectsTyped
  <2>2. QED BY <1>3, <1>4, <1>5, <2>1 DEF ObjectsTyped
<1>7. /\ Usable(x)' <=> Usable(from)
      /\ ~Usable(from)'
      /\ \A u \in Object : u # x /\ u # from => (Usable(u)' <=> Usable(u))
  BY <1>2 DEF Usable
<1>8. /\ Proper(x)' <=> Proper(from) /\ fd[from] # n
      /\ ~Proper(from)'
      /\ \A u \in Object : u # x /\ u # from => (Proper(u)' <=> Proper(u) /\ fd[u] # n)
  BY <1>4, <1>7 DEF Proper
<1>9. \A o, u \in Object : Proper(o) /\ Proper(u) /\ fd[u] = fd[o] => u = o
  BY DEF ObjectsInv, Descriptors
<1>10. ASSUME NEW o \in Object, Proper(o)'
       PROVE  \E u \in Object : /\ Proper(u) /\ fd[u] # n
                                /\ trans'[o] = trans[u] /\ fd'[o] = fd[u] /\ opened'[o] = opened[u]
                                /\ u = IF o = x THEN from ELSE o
  <2>1. CASE o = x
    BY <1>2, <1>8, <1>10, <2>1
  <2>2. CASE o # x
    BY <1>2, <1>8, <1>10, <2>2
  <2>3. QED BY <2>1, <2>2
<1>11. ASSUME NEW u \in Object, Proper(u), fd[u] # n
       PROVE  \E o \in Object : Proper(o)' /\ fd'[o] = fd[u]
  <2>1. CASE u = from
    BY <1>2, <1>8, <1>11, <2>1
  <2>2. CASE u # from
    BY <1>2, <1>8, <1>11, <2>2
  <2>3. QED BY <2>1, <2>2
<1>12. \A o, u \in Object : Proper(o)' /\ Proper(u)' /\ fd'[u] = fd'[o] => u = o
  <2> SUFFICES ASSUME NEW o \in Object, NEW u \in Object, Proper(o)', Proper(u)', fd'[u] = fd'[o]
               PROVE  u = o
    OBVIOUS
  <2>1. o # from /\ u # from
    BY <1>8
  <2>2. PICK a \in Object : Proper(a) /\ fd'[o] = fd[a] /\ a = IF o = x THEN from ELSE o
    BY <1>10
  <2>3. PICK b \in Object : Proper(b) /\ fd'[u] = fd[b] /\ b = IF u = x THEN from ELSE u
    BY <1>10
  <2>4. a = b
    BY <1>9, <2>2, <2>3
  <2>5. QED BY <2>1, <2>2, <2>3, <2>4
<1>13. Descriptors' /\ Holders'
  BY <1>10, <1>11, <1>12, ProperKeeps
<1>14. ASSUME NEW o \in Object, trans'[o] # NoTx
       PROVE  \E u \in Object : trans[u] = trans'[o] /\ (u \in after => o \in strayed') /\ u # x
  <2>1. CASE o = x
    BY <1>2, <1>4, <2>1
  <2>2. CASE o # x
    BY <1>2, <1>4, <1>14, <2>2
  <2>3. QED BY <2>1, <2>2
<1>15. QED BY <1>6, <1>13, <1>14

\* Move construction and move assignment
LEMMA MoveStep ==
  ASSUME ~OutOfOrder, IInv, ObjectsInv, NEW x \in Object, NEW from \in Object,
         MoveToClosed(x, from) \/ MoveToOpen(x, from)
  PROVE  (crashed \/ IInv)' /\ ObjectsInv'
<1>1. /\ trans \in [Object -> Tx \cup {NoTx}] /\ slot \in [Fds -> Slots] /\ strayed \in SUBSET Object
      /\ \A o \in Object : IF trans[o] # NoTx THEN fd[o] \in Fds ELSE o \notin strayed
  BY DEF ObjectsInv, ObjectsTyped
<1>2. ASSUME MoveToClosed(x, from)
      PROVE  IInv' /\ ObjectsInv'
  <2>1. /\ trans[x] = NoTx /\ trans[from] # NoTx /\ x # from /\ MoveObject(x, from)
        /\ strayed' = AfterMove(strayed, x, from)
        /\ UNCHANGED << registryVars, handle, slot, failed, leftOpen >>
    BY <1>2 DEF MoveToClosed, descriptorVars
  <2>2. UNCHANGED << reg, kind, prev, current, held >>
    BY <2>1 DEF registryVars
  <2>3. 0 \notin Fds /\ leftOpen' = leftOpen \ {0}
    BY <2>1 DEF Fds, ObjectsInv, ObjectsTyped
  <2>4. /\ x \notin strayed /\ \A u \in strayed : trans[u] # NoTx
        /\ \A u \in Object : Usable(u) => (u \notin strayed <=> Proper(u) /\ fd[u] # 0)
        /\ \A u \in Object : Proper(u) => u # x
        /\ slot' \in [Fds -> Slots]
        /\ \A f \in Fds : IF f = 0 THEN slot'[f] = Closed ELSE slot'[f] = slot[f]
    BY <1>1, <2>1, <2>3 DEF Proper, Usable
  <2>5. /\ ObjectsTyped' /\ Descriptors' /\ Holders'
        /\ \A o \in Object : trans'[o] # NoTx =>
             \E u \in Object : trans[u] = trans'[o] /\ (u \in strayed => o \in strayed')
    BY <1>1, <2>1, <2>2, <2>3, <2>4, MovesKeep
  <2>6. References' /\ Nesting'
    BY <2>1, <2>2, <2>5, SteadyNesting DEF ObjectsInv, References
  <2>7. Levels'
    BY <2>1, <2>2 DEF ObjectsInv, Levels
  <2>8. IInv'
    BY <2>1, RegistryStep
  <2>9. QED BY <2>5, <2>6, <2>7, <2>8 DEF ObjectsInv
<1>3. ASSUME MoveToOpen(x, from), ~Dereferences(x)
      PROVE  IInv' /\ ObjectsInv'
  <2>1. Usable(x) /\ x # from /\ trans[from] # NoTx
    BY <1>3 DEF MoveToOpen, Usable
  <2>2. CASE /\ Closes(x) /\ MoveObject(x, from) /\ strayed' = AfterMove(AfterClose(x), x, from)
             /\ UNCHANGED handle /\ Releases(trans[x])
    <3> DEFINE n == fd[x]
    <3> DEFINE after == AfterClose(x)
    <3>1. trans[x] \in Tx /\ UNCHANGED << reg, kind, current >>
      BY <1>1, <2>1, <2>2 DEF Usable, Releases, Drop, registryVars
    <3>2. /\ failed' = failed /\ leftOpen' = leftOpen \ {n} /\ slot' \in [Fds -> Slots]
          /\ \A f \in Fds : IF f = n THEN slot'[f] = Closed ELSE slot'[f] = slot[f]
          /\ Levels'
          /\ after \in SUBSET Object /\ x \notin after /\ strayed \subseteq after \cup {x}
          /\ \A u \in after : trans[u] # NoTx
          /\ \A u \in Object : u # x /\ Usable(u) => (u \notin after <=> Proper(u) /\ fd[u] # n)
          /\ \A u \in Object : Proper(u) /\ fd[u] # n => u # x
      BY <2>1, <2>2, <3>1, ClosesKeeps
    <3>3. strayed' = AfterMove(after, x, from)
      BY <2>2
    <3> HIDE DEF n, after
    <3>4. /\ ObjectsTyped' /\ Descriptors' /\ Holders'
          /\ \A o \in Object : trans'[o] # NoTx =>
               \E u \in Object : trans[u] = trans'[o] /\ (u \in after => o \in strayed') /\ u # x
      BY <2>1, <2>2, <3>1, <3>2, <3>3, MovesKeep
    <3>5. \A o \in Object : trans'[o] # NoTx =>
            \E u \in Object : trans[u] = trans'[o] /\ (u \in strayed => o \in strayed')
      BY <3>2, <3>4
    <3>6. IInv' /\ References' /\ Nesting'
      BY <2>2, <3>1, <3>5, ReleasesKeeps
    <3>7. QED BY <3>2, <3>4, <3>6 DEF ObjectsInv
  <2>3. CASE CloseFails(fd[x]) /\ UNCHANGED << registryVars, objectVars, leftOpen >>
    BY <2>3, CallFailsStep DEF CloseFails
  <2>4. QED BY <1>3, <2>2, <2>3 DEF MoveToOpen
<1>4. CASE Dereferences(x)
  <2>1. Crash /\ UNCHANGED << objectVars, descriptorVars >>
    BY <1>4 DEF Dereferences
  <2>2. QED BY <2>1, CrashStep
<1>5. QED BY <1>2, <1>3, <1>4


-----------------------------------------------------------------------------
(* The invariant, and what follows.                                        *)

LEMMA InitHolds == LargeObjectInit => LargeObjectInv
<1> SUFFICES ASSUME LargeObjectInit PROVE LargeObjectInv
  OBVIOUS
<1>1. RegistryInit /\ IInv
  BY InitIInv DEF LargeObjectInit
<1>2. /\ handle = {} /\ trans = [o \in Object |-> NoTx] /\ fd = [o \in Object |-> 0]
      /\ opened = [o \in Object |-> 0] /\ slot = [f \in Fds |-> Closed]
      /\ failed = FALSE /\ leftOpen = {} /\ strayed = {}
  BY DEF LargeObjectInit
<1>3. \A t \in Tx : ~reg[t]
  BY <1>1 DEF RegistryInit
<1>4. ObjectsTyped
  BY <1>2, ClosedSlot DEF ObjectsTyped
<1>5. \A o \in Object : ~Proper(o)
  BY <1>2 DEF Usable, Proper
<1>6. Nesting /\ References
  BY <1>2, <1>3 DEF Nesting, References
<1>7. Descriptors /\ Holders /\ Levels
  BY <1>2, <1>5 DEF Descriptors, Holders, Levels
<1>8. QED BY <1>1, <1>4, <1>6, <1>7 DEF LargeObjectInv, ObjectsInv

LEMMA StepHolds ==
  ASSUME ~OutOfOrder, LargeObjectInv, [LargeObjectNext]_loVars
  PROVE  LargeObjectInv'
<1>1. CASE UNCHANGED loVars
  <2>1. UNCHANGED << registryVars, objectVars, descriptorVars >> /\ crashed' = crashed
    BY <1>1 DEF loVars, registryVars
  <2>2. QED BY <2>1, SteadyStep DEF LargeObjectInv
<1>2. CASE LargeObjectNext
  <2>1. ~crashed
    BY <1>2 DEF LargeObjectNext, BeginTransaction, Begin, Construct, BeginSubtransaction,
                Subtransaction, EndTransaction, Finish, DestroyTransaction, Destroy,
                DropHandle, OpenObject, DestroyObject, CloseObject, UseObject,
                MoveToClosed, MoveToOpen, Running
  <2>2. IInv /\ ObjectsInv
    BY <2>1 DEF LargeObjectInv
  <2>3. ASSUME \/ \E t \in Tx : \E k \in {"direct", "top"} : BeginTransaction(t, k)
               \/ \E p, t \in Tx : BeginSubtransaction(p, t)
        PROVE  IInv' /\ ObjectsInv'
    BY <2>2, <2>3, BeginStep
  <2>4. ASSUME \/ \E t \in Tx : \E commit \in BOOLEAN : EndTransaction(t, commit)
               \/ \E t \in Tx : DestroyTransaction(t)
        PROVE  IInv' /\ ObjectsInv'
    BY <2>2, <2>4, EndStep
  <2>5. ASSUME NEW t \in Tx, DropHandle(t)
        PROVE  IInv' /\ ObjectsInv'
    BY <2>2, <2>5, DropHandleStep
  <2>6. ASSUME NEW o \in Object, NEW t \in Tx, NEW oid \in Oid, OpenObject(o, t, oid)
        PROVE  (crashed \/ IInv)' /\ ObjectsInv'
    BY <2>2, <2>6, OpenStep
  <2>7. ASSUME NEW o \in Object,
               \/ DestroyObject(o)
               \/ CloseObject(o)
               \/ \E ok \in BOOLEAN : UseObject(o, ok)
        PROVE  (crashed \/ IInv)' /\ ObjectsInv'
    BY <2>2, <2>7, ObjectStep
  <2>8. ASSUME NEW o \in Object, NEW from \in Object, MoveToClosed(o, from) \/ MoveToOpen(o, from)
        PROVE  (crashed \/ IInv)' /\ ObjectsInv'
    BY <2>2, <2>8, MoveStep
  <2>9. (crashed \/ IInv)' /\ ObjectsInv'
    BY <1>2, <2>3, <2>4, <2>5, <2>6, <2>7, <2>8 DEF LargeObjectNext
  <2>10. QED BY <2>9 DEF LargeObjectInv
<1>3. QED BY <1>1, <1>2

\* The state of the objects and descriptors of the program, as above, in
\* every reachable state: large_object, its transaction, and the levels of
\* the server's descriptors.
THEOREM LargeObjectInvariant ==
  ASSUME ~OutOfOrder
  PROVE  LargeObjectSpec => []LargeObjectInv
<1>1. LargeObjectInit => LargeObjectInv
  BY InitHolds
<1>2. LargeObjectInv /\ [LargeObjectNext]_loVars => LargeObjectInv'
  BY StepHolds
<1>3. QED BY <1>1, <1>2, PTL DEF LargeObjectSpec

\* read(), write() and close() of an object that may be used, outside of a
\* failed block, reach the large object it was opened for; unless it was opened
\* through a transaction that was not the current one, or such an object has
\* closed its number.
THEOREM DescriptorIsAlwaysOwn ==
  ASSUME ~OutOfOrder
  PROVE  LargeObjectSpec => []DescriptorIsOwn
<1>1. LargeObjectInv => DescriptorIsOwn
  <2> SUFFICES ASSUME LargeObjectInv, NEW o \in Object, Proper(o), ~failed
               PROVE  slot[fd[o]].oid = opened[o]
    BY DEF DescriptorIsOwn, Usable, Proper
  <2>1. slot[fd[o]] = [oid |-> opened[o], level |-> trans[o]]
    BY DEF LargeObjectInv, ObjectsInv, Descriptors
  <2>2. QED BY <2>1
<1>2. QED BY <1>1, LargeObjectInvariant, PTL

\* An open descriptor is held by exactly one object that can close it, or is
\* one of those that are left to the end of the transaction: close(), the
\* moves and the destructor never lose or share one. An object that was opened
\* through a transaction that was not the current one leaves its descriptor.
THEOREM DescriptorIsAlwaysHeldOnce ==
  ASSUME ~OutOfOrder
  PROVE  LargeObjectSpec => []DescriptorIsHeldOnce
<1>1. LargeObjectInv => DescriptorIsHeldOnce
  <2> SUFFICES ASSUME LargeObjectInv, NEW f \in Fds, slot[f] # Closed
               PROVE  Cardinality({ o \in Object \ strayed : trans[o] # NoTx /\ reg[trans[o]] /\ fd[o] = f })
                        = (IF f \in leftOpen THEN 0 ELSE 1)
    BY DEF DescriptorIsHeldOnce
  <2> DEFINE holders == { o \in Object : Proper(o) /\ fd[o] = f }
  <2>1. holders = { o \in Object \ strayed : trans[o] # NoTx /\ reg[trans[o]] /\ fd[o] = f }
    BY DEF Usable, Proper
  <2>2. f \notin leftOpen <=> \E o \in Object : Proper(o) /\ fd[o] = f
    BY DEF LargeObjectInv, ObjectsInv, Holders
  <2>3. \A o, u \in Object : Proper(o) /\ Proper(u) /\ fd[u] = fd[o] => u = o
    BY DEF LargeObjectInv, ObjectsInv, Descriptors
  <2>4. CASE f \in leftOpen
    <3>1. holders = {}
      BY <2>2, <2>4
    <3>2. Cardinality(holders) = 0
      BY <3>1, FS_EmptySet
    <3>3. QED BY <2>1, <2>4, <3>2
  <2>5. CASE f \notin leftOpen
    <3>1. PICK o \in Object : Proper(o) /\ fd[o] = f
      BY <2>2, <2>5
    <3>2. holders = {o}
      BY <2>3, <3>1
    <3>3. Cardinality(holders) = 1
      BY <3>2, FS_Singleton
    <3>4. QED BY <2>1, <2>5, <3>3
  <2>6. QED BY <2>4, <2>5
<1>2. QED BY <1>1, LargeObjectInvariant, PTL
=============================================================================
