-------------------------- MODULE TransactionProofs --------------------------
(***************************************************************************)
(* Transactions composed with a server, for any number of objects and      *)
(* addresses, while they are ended in order.                               *)
(*                                                                         *)
(* First, Transaction does to the registered objects nothing that Registry *)
(* alone does not allow, so what RegistryProofs proves holds whatever the  *)
(* outcome of a statement: an error, a refused statement, a lost           *)
(* connection or an exception out of a callback.                           *)
(*                                                                         *)
(* Second, the two stacks agree, that of the objects and that of the       *)
(* server's levels, although the server keeps savepoints of nested         *)
(* transactions that were rolled back, and addresses are used again.  The  *)
(* invariant says what an object's lifetime has to do with its place in    *)
(* the stack (Lifetimes); that a block is open on the server while an      *)
(* object needs one (Block); that the levels made by the objects are in    *)
(* the order of the objects, and that of a nested one is the newest of its *)
(* name (Savepoints); that a pending write lies at or above a savepoint    *)
(* exactly if that transaction encloses it (Writes); and what follows for  *)
(* the writes of transactions that are committed one after another         *)
(* (Acked), and for a connection without any (FreeIdle).                   *)
(***************************************************************************)
EXTENDS Transaction, RegistryProofs

\* A step of a transaction, whatever the outcome of its statement, is the step
\* of the registered objects its action names, or leaves them alone.
LEMMA TransactionStepIsRegistryStep ==
  ASSUME Next
  PROVE  RegistryNext \/ UNCHANGED registryVars
<1>1. ASSUME NEW t \in Tx, BeginDirect(t) PROVE RegistryNext
  BY <1>1 DEF BeginDirect, RegistryNext
<1>2. ASSUME NEW t \in Tx, BeginTop(t) PROVE RegistryNext \/ UNCHANGED registryVars
  <2>1. Begin(t, "top") \/ UNCHANGED registryVars
    BY <1>2 DEF BeginTop, Started
  <2>2. QED BY <2>1 DEF RegistryNext
<1>3. ASSUME NEW p \in Tx, NEW t \in Tx, BeginSub(p, t)
      PROVE  RegistryNext \/ UNCHANGED registryVars
  <2>1. Subtransaction(p, t) \/ UNCHANGED registryVars
    BY <1>3 DEF BeginSub, Started
  <2>2. QED BY <2>1 DEF RegistryNext
<1>4. ASSUME NEW p \in Tx, NEW t \in Tx, BeginNested(p, t)
      PROVE  RegistryNext \/ UNCHANGED registryVars
  <2>1. Subtransaction(p, t) \/ UNCHANGED registryVars
    BY <1>4 DEF BeginNested
  <2>2. QED BY <2>1 DEF RegistryNext
<1>5. ASSUME NEW t \in Tx, Write(t) PROVE UNCHANGED registryVars
  BY <1>5 DEF Write
<1>6. ASSUME NEW t \in Tx, Send(t) PROVE UNCHANGED registryVars
  BY <1>6 DEF Send
<1>7. ASSUME NEW t \in Tx, GetResult(t) PROVE UNCHANGED registryVars
  BY <1>7 DEF GetResult
<1>8. ASSUME NEW t \in Tx, Commit(t) PROVE RegistryNext
  BY <1>8 DEF Commit, RegistryNext
<1>9. ASSUME NEW t \in Tx, Rollback(t) PROVE RegistryNext
  BY <1>9 DEF Rollback, RegistryNext
<1>10. ASSUME NEW t \in Tx, Release(t) PROVE RegistryNext
  BY <1>10 DEF Release, RegistryNext
<1>11. ASSUME NEW t \in Tx, Destruct(t) PROVE RegistryNext
  BY <1>11 DEF Destruct, RegistryNext
<1>12. QED
  BY <1>1, <1>2, <1>3, <1>4, <1>5, <1>6, <1>7, <1>8, <1>9, <1>10, <1>11 DEF Next

\* Every behaviour of Transaction is one of Registry.
THEOREM TransactionImplementsRegistry == Spec => RegistrySafeSpec
<1>1. Init => RegistryInit
  BY DEF Init
<1>2. [Next]_vars => [RegistryNext]_registryVars
  BY TransactionStepIsRegistryStep DEF vars
<1>3. QED BY <1>1, <1>2, PTL DEF Spec, RegistrySafeSpec

\* In a program that ends its transactions in order, no outcome of a statement
\* makes the objects end out of order, or the library follow a null pointer.
THEOREM TransactionKeepsOrder ==
  ASSUME ~OutOfOrder
  PROVE  Spec => ImplementsTransactionOrder /\ []NeverCrashes
BY TransactionImplementsRegistry, RegistryImplementsOrder, InOrderNeverCrashes, PTL

-----------------------------------------------------------------------------
(* The inductive invariant.                                                *)

Depth == Len(active)
Height == Len(session.levels)

\* The classes of the objects in the stack
StackShape ==
  \A j \in 1 .. Depth :
    kind[active[j]] \in IF j = 1 THEN {"direct", "top"}
                        ELSE IF j = 2 /\ kind[active[1]] = "direct" THEN {"sub"}
                        ELSE {"nested"}

\* An object is registered while its lifetime is open; one that has no
\* lifetime yet has left no trace.
Lives ==
  /\ \A t \in Tx : reg[t] <=> fate[t] = "open"
  /\ \A t \in Tx : fate[t] = "unborn" => lineage[t] = {}
  /\ \A t \in wrote \cup durable : fate[t] # "unborn"

\* Each object in the stack is enclosed by itself and those below it, except
\* for a direct one.
Lineages ==
  /\ \A u \in Tx : \A v \in lineage[u] : v \in lineage[v] /\ lineage[v] \subseteq lineage[u]
  /\ \A j \in 1 .. Depth : kind[active[j]] = "direct" => lineage[active[j]] = {}
  /\ \A i, j \in 1 .. Depth :
       i <= j /\ kind[active[i]] # "direct" => active[i] \in lineage[active[j]]
  /\ \A j \in 1 .. Depth : \A v \in lineage[active[j]] : \E i \in 1 .. j : active[i] = v

Lifetimes == StackShape /\ Lives /\ Lineages

-----------------------------------------------------------------------------
(* What a step does to the objects: nothing, or one is born, or one is     *)
(* given up before it was registered, or the lifetime of the top ends.     *)

NoneMoves ==
  /\ UNCHANGED << active, reg, fate, lineage, addr >>
  /\ \A j \in 1 .. Depth : kind'[active[j]] = kind[active[j]]

Born(t) ==
  /\ fate[t] = "unborn"
  /\ active' = Append(active, t)
  /\ reg' = [reg EXCEPT ![t] = TRUE]
  /\ fate' = [fate EXCEPT ![t] = "open"]
  /\ \A u \in Tx \ {t} : kind'[u] = kind[u] /\ addr'[u] = addr[u] /\ lineage'[u] = lineage[u]
  /\ IF active = <<>>
       THEN \/ kind'[t] = "direct" /\ lineage'[t] = {}
            \/ kind'[t] = "top" /\ lineage'[t] = {t}
       ELSE /\ kind'[t] = SubKind(Top)
            /\ lineage'[t] = {t} \cup lineage[Top]

Stillborn(t) ==
  /\ fate[t] = "unborn"
  /\ UNCHANGED << active, kind, reg, addr >>
  /\ fate'[t] \in {"unfinished", "stillborn"}
  /\ \A u \in Tx \ {t} : fate'[u] = fate[u] /\ lineage'[u] = lineage[u]
  /\ lineage'[t] = {t} \cup (IF active = <<>> THEN {} ELSE lineage[Top])

Over(t) ==
  /\ reg[t] /\ active # <<>> /\ Top = t
  /\ active' = SubSeq(active, 1, Depth - 1)
  /\ reg' = [reg EXCEPT ![t] = FALSE]
  /\ fate'[t] \notin {"unborn", "open"}
  /\ \A u \in Tx \ {t} : kind'[u] = kind[u] /\ fate'[u] = fate[u]
  /\ UNCHANGED << lineage, addr >>

LEMMA StackFacts ==
  ASSUME IInv
  PROVE  /\ Depth \in Nat /\ active \in Seq(Tx) /\ (active = <<>> <=> Depth = 0)
         /\ \A j \in 1 .. Depth : active[j] \in Tx /\ reg[active[j]]
         /\ \A t \in Tx : reg[t] => \E j \in 1 .. Depth : active[j] = t
         /\ \A i, j \in 1 .. Depth : active[i] = active[j] => i = j
         /\ reg \in [Tx -> BOOLEAN]
<1>1. Depth \in Nat /\ active \in Seq(Tx) /\ (active = <<>> <=> Depth = 0)
  BY EmptySeq, LenProperties DEF IInv, RegistryTypeOK, Depth
<1>2. \A j \in 1 .. Depth : active[j] \in Tx
  BY <1>1, ElementOfSeq DEF Depth
<1>3. QED BY <1>1, <1>2 DEF IInv, RegistryTypeOK, CurrentIsTop, Distinct, Depth

\* What is true of an object just before it is constructed
LEMMA BornStack ==
  ASSUME IInv, NEW t \in Tx, active' = Append(active, t)
  PROVE  /\ Depth' = Depth + 1 /\ active'[Depth + 1] = t
         /\ \A j \in 1 .. Depth : active'[j] = active[j]
BY StackFacts DEF Depth

LEMMA OverStack ==
  ASSUME IInv, active # <<>>, active' = SubSeq(active, 1, Depth - 1)
  PROVE  /\ Depth \in Nat \ {0} /\ Depth' = Depth - 1
         /\ \A j \in 1 .. Depth' : active'[j] = active[j] /\ j \in 1 .. Depth /\ j # Depth
<1>1. Depth \in Nat \ {0}
  BY StackFacts
<1>2. Depth' = Depth - 1 /\ \A j \in 1 .. Depth - 1 : active'[j] = active[j]
  BY StackFacts, FrontFacts DEF Depth
<1>3. QED BY <1>1, <1>2

LEMMA NoneLifetimes ==
  ASSUME IInv, Lifetimes, NoneMoves, \A t \in (wrote \cup durable)' : t \in wrote \cup durable \/ reg[t],
         (wrote \cup durable)' \subseteq Tx
  PROVE  Lifetimes'
<1>1. Depth' = Depth /\ active' = active /\ reg' = reg /\ fate' = fate /\ lineage' = lineage
  BY DEF NoneMoves, Depth
<1>2. \A j \in 1 .. Depth : kind'[active[j]] = kind[active[j]]
  BY DEF NoneMoves
<1>3. StackShape'
  <2> SUFFICES ASSUME NEW j \in 1 .. Depth
               PROVE  kind'[active[j]] \in IF j = 1 THEN {"direct", "top"}
                        ELSE IF j = 2 /\ kind'[active[1]] = "direct" THEN {"sub"}
                        ELSE {"nested"}
    BY <1>1 DEF StackShape
  <2>1. 1 \in 1 .. Depth
    BY StackFacts
  <2>2. QED BY <1>2, <2>1 DEF Lifetimes, StackShape
<1>4. Lives'
  BY <1>1 DEF Lifetimes, Lives
<1>5. Lineages'
  BY <1>1, <1>2 DEF Lifetimes, Lineages
<1>6. QED BY <1>3, <1>4, <1>5 DEF Lifetimes

\* Nothing encloses an object that has no lifetime yet.
LEMMA UnbornEnclosesNothing ==
  ASSUME Lifetimes, NEW t \in Tx, fate[t] = "unborn", NEW u \in Tx
  PROVE  lineage[t] = {} /\ t \notin lineage[u] /\ ~reg[t]
BY DEF Lifetimes, Lives, Lineages

LEMMA BornLifetimes ==
  ASSUME IInv, TypeOK, Lifetimes, NEW t \in Tx, Born(t), UNCHANGED << wrote >>,
         durable' = durable
  PROVE  Lifetimes'
<1> DEFINE n == Depth
<1>1. Depth' = n + 1 /\ active'[n + 1] = t /\ \A j \in 1 .. n : active'[j] = active[j]
  BY BornStack DEF Born
<1>2. /\ n \in Nat /\ (active = <<>> <=> n = 0)
      /\ \A j \in 1 .. n : active[j] \in Tx /\ active[j] # t
      /\ n # 0 => Top = active[n] /\ n \in 1 .. n
  BY StackFacts, UnbornEnclosesNothing DEF Born, Top, Depth
<1>3. \A u \in Tx : u # t => kind'[u] = kind[u] /\ lineage'[u] = lineage[u]
  BY DEF Born
<1>4. StackShape'
  <2> SUFFICES ASSUME NEW j \in 1 .. n + 1
               PROVE  kind'[active'[j]] \in IF j = 1 THEN {"direct", "top"}
                        ELSE IF j = 2 /\ kind'[active'[1]] = "direct" THEN {"sub"}
                        ELSE {"nested"}
    BY <1>1 DEF StackShape
  <2>1. CASE j \in 1 .. n
    <3>1. 1 \in 1 .. n
      BY <1>2, <2>1
    <3>2. /\ active'[j] = active[j] /\ kind'[active[j]] = kind[active[j]]
          /\ active'[1] = active[1] /\ kind'[active[1]] = kind[active[1]]
      BY <1>1, <1>2, <1>3, <2>1, <3>1
    <3>3. QED BY <2>1, <3>2 DEF Lifetimes, StackShape
  <2>2. CASE j = n + 1 /\ n = 0
    BY <1>1, <1>2, <2>2 DEF Born
  <2>3. CASE j = n + 1 /\ n # 0
    <3>1. /\ 1 \in 1 .. n /\ n \in 1 .. n /\ j # 1 /\ (j = 2 <=> n = 1)
          /\ active'[1] = active[1] /\ kind'[active[1]] = kind[active[1]] /\ active'[j] = t
      BY <1>1, <1>2, <1>3, <2>3
    <3>2. kind'[t] = IF kind[active[n]] = "direct" THEN "sub" ELSE "nested"
      BY <1>2, <2>3 DEF Born, SubKind
    <3>3. kind[active[n]] \in IF n = 1 THEN {"direct", "top"}
                        ELSE IF n = 2 /\ kind[active[1]] = "direct" THEN {"sub"}
                        ELSE {"nested"}
      BY <3>1 DEF Lifetimes, StackShape
    <3>4. QED BY <3>1, <3>2, <3>3
  <2>4. QED BY <1>2, <2>1, <2>2, <2>3
<1>5. Lives'
  <2>1. reg \in [Tx -> BOOLEAN] /\ fate \in [Tx -> Fates]
    BY StackFacts DEF TypeOK
  <2>2. \A u \in Tx : /\ reg'[u] = IF u = t THEN TRUE ELSE reg[u]
                      /\ fate'[u] = IF u = t THEN "open" ELSE fate[u]
    BY <2>1 DEF Born
  <2>3. \A u \in wrote \cup durable : u \in Tx
    BY DEF TypeOK
  <2>4. QED BY <1>3, <2>2, <2>3 DEF Lifetimes, Lives
<1>6. lineage'[t] \in { {}, {t}, {t} \cup lineage[Top] } /\ (n # 0 => Top \in Tx)
  BY <1>2 DEF Born
<1>7. \A u, v \in Tx : v \in lineage[u] => v # t /\ u # t
  BY UnbornEnclosesNothing DEF Born
<1>8. \A u \in Tx : lineage[u] \subseteq Tx
  BY DEF TypeOK
<1>9. ASSUME NEW u \in Tx, NEW v \in lineage'[u]
      PROVE  v \in lineage'[v] /\ lineage'[v] \subseteq lineage'[u]
  <2>1. CASE u # t
    BY <1>3, <1>7, <1>8, <1>9, <2>1 DEF Lifetimes, Lineages
  <2>2. CASE u = t
    <3>1. CASE n = 0
      BY <1>2, <1>9, <2>2, <3>1 DEF Born
    <3>2. CASE n # 0
      <4>1. lineage'[t] = {t} \cup lineage[Top] /\ Top \in Tx
        BY <1>2, <3>2 DEF Born
      <4>2. QED BY <1>3, <1>7, <1>8, <1>9, <2>2, <4>1 DEF Lifetimes, Lineages
    <3>3. QED BY <3>1, <3>2
  <2>3. QED BY <2>1, <2>2
<1>10. ASSUME NEW j \in 1 .. n + 1, kind'[active'[j]] = "direct" PROVE lineage'[active'[j]] = {}
  <2>1. CASE j \in 1 .. n
    <3>1. /\ active'[j] = active[j] /\ kind'[active[j]] = kind[active[j]]
          /\ lineage'[active[j]] = lineage[active[j]]
      BY <1>1, <1>2, <1>3, <2>1
    <3>2. kind[active[j]] = "direct" => lineage[active[j]] = {}
      BY <2>1 DEF Lifetimes, Lineages
    <3>3. QED BY <1>10, <3>1, <3>2
  <2>2. CASE j = n + 1
    <3>1. kind'[t] = "direct" /\ active'[j] = t
      BY <1>1, <1>10, <2>2
    <3>2. active = <<>>
      BY <3>1 DEF Born, SubKind
    <3>3. QED BY <3>1, <3>2 DEF Born
  <2>3. QED BY <1>2, <2>1, <2>2
<1>11. ASSUME NEW i \in 1 .. n + 1, NEW j \in 1 .. n + 1, i <= j, kind'[active'[i]] # "direct"
       PROVE  active'[i] \in lineage'[active'[j]]
  <2>1. CASE i \in 1 .. n /\ j \in 1 .. n
    BY <1>1, <1>2, <1>3, <1>11, <2>1 DEF Lifetimes, Lineages
  <2>2. CASE i = n + 1 /\ j = n + 1
    <3>1. kind'[t] # "direct" /\ active'[i] = t /\ active'[j] = t
      BY <1>1, <1>11, <2>2
    <3>2. t \in lineage'[t]
      BY <3>1 DEF Born
    <3>3. QED BY <3>1, <3>2
  <2>3. CASE i \in 1 .. n /\ j = n + 1
    <3>1. n # 0 /\ n \in 1 .. n /\ i <= n /\ Top = active[n]
      BY <1>2, <2>3
    <3>2. active'[i] = active[i] /\ kind[active[i]] # "direct" /\ active'[j] = t
      BY <1>1, <1>2, <1>3, <1>11, <2>3
    <3>3. active[i] \in lineage[active[n]]
      BY <2>3, <3>1, <3>2 DEF Lifetimes, Lineages
    <3>4. lineage'[t] = {t} \cup lineage[Top]
      BY <1>2, <3>1 DEF Born
    <3>5. QED BY <3>1, <3>2, <3>3, <3>4
  <2>4. QED BY <1>2, <1>11, <2>1, <2>2, <2>3
<1>12. ASSUME NEW j \in 1 .. n + 1, NEW v \in lineage'[active'[j]]
       PROVE  \E i \in 1 .. j : active'[i] = v
  <2>1. CASE j \in 1 .. n
    <3>1. v \in lineage[active[j]]
      BY <1>1, <1>2, <1>3, <1>12, <2>1
    <3>2. PICK i \in 1 .. j : active[i] = v
      BY <2>1, <3>1 DEF Lifetimes, Lineages
    <3>3. QED BY <1>1, <1>2, <2>1, <3>2
  <2>2. CASE j = n + 1
    <3>1. active'[j] = t /\ j \in 1 .. j
      BY <1>1, <1>2, <2>2
    <3>2. CASE v = t
      BY <3>1, <3>2
    <3>3. CASE v # t
      <4>1. n # 0 /\ v \in lineage[active[n]] /\ n \in 1 .. n
        BY <1>2, <1>12, <3>1, <3>3 DEF Born
      <4>2. PICK i \in 1 .. n : active[i] = v
        BY <4>1 DEF Lifetimes, Lineages
      <4>3. QED BY <1>1, <1>2, <2>2, <4>2
    <3>4. QED BY <3>2, <3>3
  <2>3. QED BY <1>2, <2>1, <2>2
<1>13. Lineages'
  BY <1>1, <1>9, <1>10, <1>11, <1>12 DEF Lineages
<1>14. QED BY <1>4, <1>5, <1>13 DEF Lifetimes

LEMMA StillbornLifetimes ==
  ASSUME IInv, TypeOK, Lifetimes, NEW t \in Tx, Stillborn(t), UNCHANGED << wrote >>,
         durable' = durable
  PROVE  Lifetimes'
<1>1. /\ Depth' = Depth /\ active' = active /\ reg' = reg /\ kind' = kind
      /\ \A u \in Tx : u # t => fate'[u] = fate[u] /\ lineage'[u] = lineage[u]
  BY DEF Stillborn, Depth
<1>2. \A j \in 1 .. Depth : active[j] \in Tx /\ active[j] # t
  BY StackFacts, UnbornEnclosesNothing DEF Stillborn
<1>3. StackShape'
  BY <1>1 DEF Lifetimes, StackShape
<1>4. Lives'
  <2>1. fate'[t] \notin {"unborn", "open"} /\ ~reg[t]
    BY UnbornEnclosesNothing DEF Stillborn
  <2>2. \A u \in wrote \cup durable : u \in Tx
    BY DEF TypeOK
  <2>3. QED BY <1>1, <2>1, <2>2 DEF Lifetimes, Lives
<1>5. \A u, v \in Tx : v \in lineage[u] => v # t /\ u # t
  BY UnbornEnclosesNothing DEF Stillborn
<1>6. \A u \in Tx : lineage[u] \subseteq Tx
  BY DEF TypeOK
<1>7. lineage'[t] = {t} \/ (Top \in Tx /\ lineage'[t] = {t} \cup lineage[Top])
  BY StackFacts DEF Stillborn, Top, Depth
<1>8. ASSUME NEW u \in Tx, NEW v \in lineage'[u]
      PROVE  v \in lineage'[v] /\ lineage'[v] \subseteq lineage'[u]
  BY <1>1, <1>5, <1>6, <1>7, <1>8 DEF Lifetimes, Lineages
<1>9. Lineages'
  BY <1>1, <1>2, <1>8 DEF Lifetimes, Lineages
<1>10. QED BY <1>3, <1>4, <1>9 DEF Lifetimes

LEMMA OverLifetimes ==
  ASSUME IInv, TypeOK, Lifetimes, NEW t \in Tx, Over(t), UNCHANGED << wrote >>,
         durable' \subseteq Tx, \A u \in durable' : fate[u] # "unborn"
  PROVE  Lifetimes'
<1>1. /\ Depth \in Nat \ {0} /\ Depth' = Depth - 1
      /\ \A j \in 1 .. Depth' : active'[j] = active[j] /\ j \in 1 .. Depth /\ j # Depth
  BY OverStack DEF Over
<1>2. active[Depth] = t /\ \A j \in 1 .. Depth : active[j] \in Tx /\ (active[j] = t => j = Depth)
  BY <1>1, StackFacts DEF Over, Top, Depth
<1>3. \A j \in 1 .. Depth' : kind'[active'[j]] = kind[active[j]] /\ lineage' = lineage
  BY <1>1, <1>2 DEF Over
<1>4. StackShape'
  <2> SUFFICES ASSUME NEW j \in 1 .. Depth'
               PROVE  kind'[active'[j]] \in IF j = 1 THEN {"direct", "top"}
                        ELSE IF j = 2 /\ kind'[active'[1]] = "direct" THEN {"sub"}
                        ELSE {"nested"}
    BY DEF StackShape
  <2>1. 1 \in 1 .. Depth'
    BY <1>1
  <2>2. QED BY <1>1, <1>3, <2>1 DEF Lifetimes, StackShape
<1>5. Lives'
  <2>1. reg \in [Tx -> BOOLEAN]
    BY StackFacts
  <2>2. \A u \in Tx : /\ reg'[u] = IF u = t THEN FALSE ELSE reg[u]
                      /\ u # t => fate'[u] = fate[u]
    BY <2>1 DEF Over
  <2>3. \A u \in wrote \cup durable' : u \in Tx
    BY DEF TypeOK
  <2>4. fate'[t] \notin {"unborn", "open"} /\ lineage' = lineage
    BY DEF Over
  <2>5. QED BY <2>2, <2>3, <2>4 DEF Lifetimes, Lives
<1>6. Lineages'
  <2>1. \A u \in Tx : \A v \in lineage'[u] : v \in lineage'[v] /\ lineage'[v] \subseteq lineage'[u]
    BY DEF Over, Lifetimes, Lineages
  <2>2. \A j \in 1 .. Depth' : kind'[active'[j]] = "direct" => lineage'[active'[j]] = {}
    BY <1>1, <1>3 DEF Lifetimes, Lineages
  <2>3. \A i, j \in 1 .. Depth' :
          i <= j /\ kind'[active'[i]] # "direct" => active'[i] \in lineage'[active'[j]]
    BY <1>1, <1>3 DEF Lifetimes, Lineages
  <2>4. ASSUME NEW j \in 1 .. Depth', NEW v \in lineage'[active'[j]]
        PROVE  \E i \in 1 .. j : active'[i] = v
    <3>1. v \in lineage[active[j]] /\ j \in 1 .. Depth
      BY <1>1, <1>3, <2>4
    <3>2. PICK i \in 1 .. j : active[i] = v
      BY <3>1 DEF Lifetimes, Lineages
    <3>3. i \in 1 .. Depth'
      BY <1>1
    <3>4. QED BY <1>1, <3>2, <3>3
  <2>5. QED BY <2>1, <2>2, <2>3, <2>4 DEF Lineages
<1>7. QED BY <1>4, <1>5, <1>6 DEF Lifetimes

-----------------------------------------------------------------------------
(* The server's session.                                                   *)

Names == Addr \cup {NoAddr}

\* A block is open on the server while it has levels; an object other than a
\* direct transaction is registered only while a block is open, or the
\* connection is gone.
Block ==
  /\ session.xact = "idle" <=> Height = 0
  /\ ~open => Height = 0
  /\ open => \A j \in 1 .. Depth : kind[active[j]] # "direct" => Height # 0

\* A level is known by the object that made it, and the objects in the stack
\* made theirs in the order of the stack.  The level of a nested transaction
\* is the newest of its name.
Own(t, i) ==
  /\ i \in 2 .. Height
  /\ session.levels[i].by = t
  /\ session.levels[i].name = addr[t]
  /\ \A h \in 1 .. Height : h > i => session.levels[h].name # addr[t]

Savepoints ==
  /\ \A i \in 1 .. Height : fate[session.levels[i].by] # "unborn"
  /\ \A h, i \in 1 .. Height : session.levels[h].by = session.levels[i].by => h = i
  /\ \A j, k \in 1 .. Depth : \A h, i \in 1 .. Height :
       j < k /\ session.levels[h].by = active[j] /\ session.levels[i].by = active[k] => h < i
  /\ open => \A j \in 1 .. Depth :
       kind[active[j]] = "nested" => \E i \in 2 .. Height : Own(active[j], i)

LEMMA SessionFacts ==
  ASSUME TypeOK
  PROVE  /\ session \in [ xact   : {"idle", "in_transaction", "error"},
                          levels : Seq([name : Names, by : Tx, writes : SUBSET Tx]) ]
         /\ Height \in Nat
         /\ (session.levels = <<>> <=> Height = 0)
         /\ \A i \in 1 .. Height : session.levels[i] \in [name : Names, by : Tx, writes : SUBSET Tx]
<1>1. session \in [ xact   : {"idle", "in_transaction", "error"},
                    levels : Seq([name : Names, by : Tx, writes : SUBSET Tx]) ]
  BY DEF TypeOK, Sessions, Names
<1>2. session.levels \in Seq([name : Names, by : Tx, writes : SUBSET Tx])
  BY <1>1
<1>3. QED BY <1>1, <1>2, EmptySeq, LenProperties, ElementOfSeq DEF Height

\* Cut keeps the first n levels but for the writes of the last of them.
LEMMA CutFacts ==
  ASSUME TypeOK, NEW n \in 1 .. Height, NEW w \in SUBSET Tx
  PROVE  LET s == Cut(session, n, w)
         IN  /\ s \in Sessions(Names, Tx) /\ s.xact = "in_transaction" /\ Len(s.levels) = n
             /\ \A i \in 1 .. n - 1 : s.levels[i] = session.levels[i]
             /\ s.levels[n] = [session.levels[n] EXCEPT !.writes = w]
<1> DEFINE E == [name : Names, by : Tx, writes : SUBSET Tx]
           f == SubSeq(session.levels, 1, n - 1)
           l == [session.levels[n] EXCEPT !.writes = w]
<1>1. /\ session.levels \in Seq(E) /\ Height = Len(session.levels) /\ Height \in Nat
      /\ session.levels[n] \in E
  BY SessionFacts DEF Height
<1>2. n - 1 \in Int /\ 1 \in Int /\ \A i \in 1 .. n - 1 : session.levels[i] \in E
  BY SessionFacts
<1> HIDE DEF E
<1>3. /\ f \in Seq(E)
      /\ Len(f) = n - 1
      /\ \A i \in 1 .. n - 1 : f[i] = session.levels[i]
  <2>1. /\ f \in Seq(E)
        /\ Len(f) = IF 1 <= n - 1 THEN (n - 1) - 1 + 1 ELSE 0
        /\ \A i \in 1 .. (n - 1) - 1 + 1 : f[i] = session.levels[1 + i - 1]
    BY <1>1, <1>2, SubSeqProperties
  <2>2. QED BY <1>1, <2>1
<1>4. l \in E
  BY <1>1 DEF E
<1> HIDE DEF f, l
<1>5. /\ Append(f, l) \in Seq(E) /\ Len(Append(f, l)) = n
      /\ \A i \in 1 .. n - 1 : Append(f, l)[i] = session.levels[i]
      /\ Append(f, l)[n] = l
  BY <1>1, <1>3, <1>4, AppendProperties
<1>6. Cut(session, n, w) = [xact |-> "in_transaction", levels |-> Append(f, l)]
  BY DEF Cut, f, l
<1>7. QED BY <1>5, <1>6 DEF Sessions, E, l

\* A command that names the savepoint of a nested transaction means its own.
LEMMA NewestIsOwn ==
  ASSUME TypeOK, NEW t \in Tx, NEW i, Own(t, i)
  PROVE  Named(session, addr[t]) # {} /\ Newest(session, addr[t]) = i
<1>1. Height \in Nat /\ i \in 2 .. Height
  BY SessionFacts DEF Own
<1>2. i \in Named(session, addr[t]) /\ \A j \in Named(session, addr[t]) : j <= i /\ j \in 2 .. Height
  BY <1>1 DEF Own, Named, Height
<1>3. \A k \in Named(session, addr[t]) : (\A j \in Named(session, addr[t]) : j <= k) => k = i
  BY <1>1, <1>2
<1>4. QED BY <1>2, <1>3 DEF Newest

-----------------------------------------------------------------------------
(* What a step does to the session: it is gone; the block ends; all levels *)
(* stay, with more writes in the newest at most; a level is added; or the  *)
(* newest levels go.                                                       *)

Vanishes == open /\ open' = FALSE /\ session' = Idle

Clears == open /\ open' /\ session' = Idle

Stays(W) ==
  /\ open' = open
  /\ Height' = Height
  /\ session'.xact = "idle" <=> session.xact = "idle"
  /\ \A i \in 1 .. Height :
       /\ session'.levels[i].name = session.levels[i].name
       /\ session'.levels[i].by = session.levels[i].by
       /\ session.levels[i].writes \subseteq session'.levels[i].writes
       /\ session'.levels[i].writes \subseteq
            session.levels[i].writes \cup (IF i = Height THEN W ELSE {})

Grows(t, a) ==
  /\ open /\ open'
  /\ session'.xact # "idle"
  /\ Height' = Height + 1
  /\ \A i \in 1 .. Height : session'.levels[i] = session.levels[i]
  /\ session'.levels[Height + 1] = [name |-> a, by |-> t, writes |-> {}]

CutsBack(m, w) ==
  /\ open /\ open'
  /\ session'.xact # "idle"
  /\ m \in 1 .. Height
  /\ Height' = m
  /\ \A i \in 1 .. m - 1 : session'.levels[i] = session.levels[i]
  /\ session'.levels[m] = [session.levels[m] EXCEPT !.writes = w]

ServerTypeOK ==
  /\ session \in Sessions(Names, Tx)
  /\ open \in BOOLEAN
  /\ unread \in {"none", "full", "tail"}
  /\ durable \in SUBSET Tx

LEMMA IdleFacts ==
  /\ Idle \in Sessions(Names, Tx) /\ Idle.xact = "idle"
  /\ Idle.levels = <<>> /\ Len(Idle.levels) = 0
BY EmptySeq DEF Idle, Sessions

\* A statement is answered, fails, is refused by libpq, or goes down with the
\* connection.
Answered(c) == open /\ open' /\ unread' \in {"none", "full", "tail"} /\ Succeed(c)

Failed(c) == open /\ open' /\ unread' \in {"none", "full", "tail"} /\ Err(c)

Refused == UNCHANGED << session, open, unread, durable >>

Severed(c) ==
  /\ Vanishes /\ unread' = "none"
  /\ durable \subseteq durable'
  /\ durable' \subseteq durable \cup (IF Accepts(session, c) THEN Hardens(session, c) ELSE {})

LEMMA ExecuteCases ==
  ASSUME TypeOK, NEW c, NEW outcome \in Outcomes, Execute(c, outcome)
  PROVE  \/ outcome \in {"done", "interrupted"} /\ Answered(c)
         \/ outcome \in {"error", "interrupted"} /\ Failed(c)
         \/ outcome = "refused" /\ Refused
         \/ outcome = "lost" /\ Severed(c)
<1>1. open \in BOOLEAN /\ unread \in {"none", "full", "tail"}
  BY DEF TypeOK
<1>2. CASE outcome = "done"
  BY <1>1, <1>2 DEF Execute, Ready, Answered, Failed
<1>3. CASE outcome = "error"
  BY <1>1, <1>3 DEF Execute, Ready, Answered, Failed
<1>4. CASE outcome = "refused"
  BY <1>4 DEF Execute, serverVars, Refused
<1>5. CASE outcome = "lost"
  BY <1>1, <1>5 DEF Execute, Ready, Lose, Vanishes, Severed
<1>6. CASE outcome = "interrupted"
  BY <1>1, <1>6 DEF Execute, Ready, Answered, Failed
<1>7. QED BY <1>2, <1>3, <1>4, <1>5, <1>6 DEF Outcomes

LEMMA SteadyStays ==
  ASSUME TypeOK, UNCHANGED << session, open >>
  PROVE  Stays({})
BY DEF Stays, Height

\* An error leaves the levels alone, except that of a COMMIT.
LEMMA FailEffect ==
  ASSUME TypeOK, Block, NEW c, open, open', session' = Fail(session, c)
  PROVE  /\ session' \in Sessions(Names, Tx)
         /\ c.op # "commit" => Stays({})
         /\ c.op = "commit" => Clears
<1>1. CASE c.op = "commit"
  BY <1>1, IdleFacts DEF Fail, Clears
<1>2. CASE c.op # "commit" /\ session.xact = "idle"
  <2>1. session' = Idle /\ Height = 0
    BY <1>2 DEF Fail, Block
  <2>2. Height' = 0
    BY <2>1, IdleFacts DEF Height
  <2>3. QED BY <1>2, <2>1, <2>2, IdleFacts DEF Stays, TypeOK
<1>3. CASE c.op # "commit" /\ session.xact # "idle"
  <2>1. session' = [session EXCEPT !.xact = "error"]
    BY <1>3 DEF Fail
  <2>2. session' \in Sessions(Names, Tx) /\ session'.levels = session.levels /\ session'.xact = "error"
    BY <2>1, SessionFacts DEF Sessions
  <2>3. Height' = Height
    BY <2>2 DEF Height
  <2>4. QED BY <1>3, <2>2, <2>3 DEF Stays, TypeOK
<1>4. QED BY <1>1, <1>2, <1>3

LEMMA WriteSucceeds ==
  ASSUME TypeOK, Block, NEW t \in Tx, open, open', Succeed(Command("write", t, NoAddr))
  PROVE  /\ session' \in Sessions(Names, Tx) /\ Stays({t})
         /\ durable' = durable \cup (IF Height = 0 THEN {t} ELSE {})
         /\ Height # 0 => t \in session'.levels[Height].writes
<1> DEFINE c == Command("write", t, NoAddr)
<1>1. c.op = "write" /\ c.by = t
  BY DEF Command
<1>2. session' = Apply(session, c) /\ durable' = durable \cup Hardens(session, c)
  BY DEF Succeed
<1>3. Height \in Nat /\ session \in Sessions(Names, Tx)
  BY SessionFacts DEF TypeOK, Names
<1> HIDE DEF c
<1>4. CASE Height = 0
  <2>1. session.xact = "idle"
    BY <1>4 DEF Block
  <2>2. session' = session
    BY <1>1, <1>2, <2>1 DEF Apply
  <2>3. durable' = durable \cup {t}
    BY <1>1, <1>2, <2>1 DEF Hardens
  <2>4. Height' = Height
    BY <2>2 DEF Height
  <2>5. QED BY <1>3, <1>4, <2>2, <2>3, <2>4 DEF Stays
<1>5. CASE Height # 0
  <2>1. session.xact # "idle" /\ Height \in 1 .. Height
    BY <1>3, <1>5 DEF Block
  <2> DEFINE w == session.levels[Height].writes \cup {t}
  <2>2. session' = Cut(session, Height, w)
    BY <1>1, <1>2, <2>1 DEF Apply, Height
  <2>3. durable' = durable
    BY <1>1, <1>2, <2>1 DEF Hardens
  <2>4. session.levels[Height] \in [name : Names, by : Tx, writes : SUBSET Tx]
    BY <2>1, SessionFacts
  <2>5. w \in SUBSET Tx
    BY <2>4
  <2> HIDE DEF w
  <2>6. /\ session' \in Sessions(Names, Tx) /\ session'.xact = "in_transaction"
        /\ Len(session'.levels) = Height
        /\ \A i \in 1 .. Height - 1 : session'.levels[i] = session.levels[i]
        /\ session'.levels[Height] = [session.levels[Height] EXCEPT !.writes = w]
    BY <2>1, <2>2, <2>5, CutFacts
  <2>7. /\ session'.levels[Height].name = session.levels[Height].name
        /\ session'.levels[Height].by = session.levels[Height].by
        /\ session'.levels[Height].writes = session.levels[Height].writes \cup {t}
    BY <2>4, <2>6 DEF w
  <2>8. Height' = Height
    BY <2>6 DEF Height
  <2>9. Stays({t})
    <3>1. ASSUME NEW i \in 1 .. Height
          PROVE  /\ session'.levels[i].name = session.levels[i].name
                 /\ session'.levels[i].by = session.levels[i].by
                 /\ session.levels[i].writes \subseteq session'.levels[i].writes
                 /\ session'.levels[i].writes \subseteq
                      session.levels[i].writes \cup (IF i = Height THEN {t} ELSE {})
      <4>1. CASE i = Height
        BY <2>7, <4>1
      <4>2. CASE i # Height
        <5>1. i \in 1 .. Height - 1
          BY <1>3, <4>2
        <5>2. session'.levels[i] = session.levels[i]
          BY <2>6, <5>1
        <5>3. QED BY <5>2
      <4>3. QED BY <4>1, <4>2
    <3>2. open' = open
      BY DEF TypeOK
    <3>3. QED BY <2>1, <2>6, <2>8, <3>1, <3>2 DEF Stays
  <2>10. QED BY <1>5, <2>3, <2>6, <2>7, <2>9
<1>6. QED BY <1>4, <1>5

\* The commands, one by one: what they do to the session, and what they make
\* durable.
LEMMA WriteFails ==
  ASSUME TypeOK, Block, NEW t \in Tx, open, open', Err(Command("write", t, NoAddr))
  PROVE  session' \in Sessions(Names, Tx) /\ Stays({t}) /\ durable' = durable
<1>1. session' = Fail(session, Command("write", t, NoAddr)) /\ durable' = durable
  BY DEF Err
<1>2. Command("write", t, NoAddr).op # "commit"
  BY DEF Command
<1>3. session' \in Sessions(Names, Tx) /\ Stays({})
  BY <1>1, <1>2, FailEffect
<1>4. QED BY <1>1, <1>3 DEF Stays

LEMMA HardensTyped ==
  ASSUME TypeOK, NEW c, c.by \in Tx
  PROVE  Hardens(session, c) \in SUBSET Tx /\ Pending(session) \in SUBSET Tx
<1>1. \A i \in 1 .. Len(session.levels) : session.levels[i].writes \in SUBSET Tx
  BY SessionFacts DEF Height
<1>2. Pending(session) \in SUBSET Tx
  BY <1>1 DEF Pending
<1>3. QED BY <1>2 DEF Hardens

\* The types of the session and the connection, after each of the four cases
LEMMA ServerTyped ==
  ASSUME TypeOK, NEW c, c.by \in Tx,
         \/ Answered(c) /\ session' \in Sessions(Names, Tx)
         \/ Failed(c) /\ session' \in Sessions(Names, Tx)
         \/ Refused
         \/ Severed(c)
  PROVE  ServerTypeOK'
<1>1. session \in Sessions(Names, Tx) /\ open \in BOOLEAN /\ durable \in SUBSET Tx
      /\ unread \in {"none", "full", "tail"}
  BY DEF TypeOK, Names
<1>2. Hardens(session, c) \in SUBSET Tx
  BY HardensTyped
<1>3. CASE Answered(c) /\ session' \in Sessions(Names, Tx)
  BY <1>1, <1>2, <1>3 DEF Answered, Succeed, ServerTypeOK
<1>4. CASE Failed(c) /\ session' \in Sessions(Names, Tx)
  BY <1>1, <1>4 DEF Failed, Err, ServerTypeOK
<1>5. CASE Refused
  BY <1>1, <1>5 DEF Refused, ServerTypeOK
<1>6. CASE Severed(c)
  <2>1. session' \in Sessions(Names, Tx)
    BY <1>6, IdleFacts DEF Severed, Vanishes
  <2>2. open' \in BOOLEAN /\ unread' = "none"
    BY <1>6 DEF Severed, Vanishes
  <2>3. durable' \in SUBSET Tx
    BY <1>1, <1>2, <1>6 DEF Severed
  <2>4. QED BY <2>1, <2>2, <2>3 DEF ServerTypeOK
<1>7. QED BY <1>3, <1>4, <1>5, <1>6

LEMMA WriteEffect ==
  ASSUME TypeOK, Block, NEW t \in Tx, NEW outcome \in Outcomes,
         Execute(Command("write", t, NoAddr), outcome)
  PROVE  /\ ServerTypeOK'
         /\ Vanishes \/ Stays({t})
         /\ durable \subseteq durable'
         /\ durable' \subseteq durable \cup (IF open /\ Height = 0 THEN {t} ELSE {})
         /\ outcome = "done" =>
              /\ open'
              /\ Height = 0 => t \in durable'
              /\ Height # 0 => Stays({t}) /\ t \in session'.levels[Height].writes
<1> DEFINE c == Command("write", t, NoAddr)
<1>1. c.op = "write" /\ c.by = t
  BY DEF Command
<1> HIDE DEF c
<1>2. CASE outcome \in {"done", "interrupted"} /\ Answered(c)
  <2>1. open /\ open' /\ Succeed(c)
    BY <1>2 DEF Answered
  <2>2. /\ session' \in Sessions(Names, Tx) /\ Stays({t})
        /\ durable' = durable \cup (IF Height = 0 THEN {t} ELSE {})
        /\ Height # 0 => t \in session'.levels[Height].writes
    BY <2>1, WriteSucceeds DEF c
  <2>3. ServerTypeOK'
    BY <1>1, <1>2, <2>2, ServerTyped
  <2>4. QED BY <2>1, <2>2, <2>3
<1>3. CASE outcome \in {"error", "interrupted"} /\ Failed(c)
  <2>1. open /\ open' /\ Err(c)
    BY <1>3 DEF Failed
  <2>2. session' \in Sessions(Names, Tx) /\ Stays({t}) /\ durable' = durable
    BY <2>1, WriteFails DEF c
  <2>3. ServerTypeOK'
    BY <1>1, <1>3, <2>2, ServerTyped
  <2>4. QED BY <1>3, <2>2, <2>3
<1>4. CASE outcome = "refused" /\ Refused
  <2>1. ServerTypeOK'
    BY <1>1, <1>4, ServerTyped
  <2>2. Stays({}) /\ durable' = durable
    BY <1>4, SteadyStays DEF Refused
  <2>3. Stays({t})
    BY <2>2 DEF Stays
  <2>4. QED BY <1>4, <2>1, <2>2, <2>3
<1>5. CASE outcome = "lost" /\ Severed(c)
  <2>1. ServerTypeOK'
    BY <1>1, <1>5, ServerTyped
  <2>2. Hardens(session, c) = IF Height = 0 THEN {t} ELSE {}
    BY <1>1 DEF Hardens, Block
  <2>3. Vanishes /\ open
    BY <1>5 DEF Severed, Vanishes
  <2>4. /\ durable \subseteq durable'
        /\ durable' \subseteq durable \cup (IF Accepts(session, c) THEN Hardens(session, c) ELSE {})
    BY <1>5 DEF Severed
  <2>5. QED BY <1>5, <2>1, <2>2, <2>3, <2>4
<1>6. QED BY <1>2, <1>3, <1>4, <1>5, ExecuteCases DEF c

\* START TRANSACTION and SAVEPOINT, by an object that is being constructed
LEMMA StartSucceeds ==
  ASSUME TypeOK, Block, NEW t \in Tx, open, open', Succeed(Command("start", t, NoAddr))
  PROVE  /\ session' \in Sessions(Names, Tx) /\ session'.xact # "idle"
         /\ Height = 0 => Grows(t, NoAddr)
         /\ Height # 0 => Stays({})
<1> DEFINE c == Command("start", t, NoAddr)
<1>1. c.op = "start" /\ Level(c) = [name |-> NoAddr, by |-> t, writes |-> {}]
  BY DEF Command, Level
<1>2. session' = Apply(session, c)
  BY DEF Succeed
<1> HIDE DEF c
<1>3. CASE session.xact = "idle"
  <2>1. session' = [xact |-> "in_transaction", levels |-> << Level(c) >>] /\ Height = 0
    BY <1>1, <1>2, <1>3 DEF Apply, Block
  <2>2. Height' = 1 /\ session'.levels[1] = Level(c) /\ session'.xact = "in_transaction"
    BY <2>1 DEF Height
  <2>3. session' \in Sessions(Names, Tx)
    BY <1>1, <2>1 DEF Sessions, Names
  <2>4. Grows(t, NoAddr)
    BY <1>1, <2>1, <2>2 DEF Grows
  <2>5. QED BY <2>1, <2>2, <2>3, <2>4
<1>4. CASE session.xact # "idle"
  <2>1. session' = session /\ Height # 0
    BY <1>1, <1>2, <1>4 DEF Apply, Block
  <2>2. Stays({}) /\ session' \in Sessions(Names, Tx)
    BY <2>1, SteadyStays DEF TypeOK, Names
  <2>3. QED BY <1>4, <2>1, <2>2
<1>5. QED BY <1>3, <1>4

LEMMA SavepointSucceeds ==
  ASSUME TypeOK, Block, NEW t \in Tx, NEW a \in Names, open, open',
         Succeed(Command("savepoint", t, a))
  PROVE  session' \in Sessions(Names, Tx) /\ Grows(t, a) /\ Height # 0
<1> DEFINE c == Command("savepoint", t, a)
           E == [name : Names, by : Tx, writes : SUBSET Tx]
<1>1. c.op = "savepoint" /\ Level(c) = [name |-> a, by |-> t, writes |-> {}]
  BY DEF Command, Level
<1>2. session' = Apply(session, c) /\ Accepts(session, c)
  BY DEF Succeed
<1>3. Level(c) \in E
  BY <1>1
<1> HIDE DEF c
<1>4. session.xact = "in_transaction" /\ Height # 0
  BY <1>1, <1>2 DEF Accepts, Block
<1>5. session' = [session EXCEPT !.levels = Append(session.levels, Level(c))]
  BY <1>1, <1>2 DEF Apply
<1>6. session'.xact = "in_transaction" /\ session'.levels = Append(session.levels, Level(c))
  BY <1>4, <1>5, SessionFacts
<1>7. session.levels \in Seq(E) /\ Height = Len(session.levels)
  BY SessionFacts DEF Height
<1>8. /\ session'.levels \in Seq(E)
      /\ Height' = Height + 1
      /\ \A i \in 1 .. Height : session'.levels[i] = session.levels[i]
      /\ session'.levels[Height + 1] = Level(c)
  <2> HIDE DEF E
  <2>1. QED BY <1>3, <1>6, <1>7, AppendProperties DEF Height
<1>9. session' \in Sessions(Names, Tx)
  BY <1>5, <1>6, <1>8, SessionFacts DEF Sessions
<1>10. Grows(t, a)
  BY <1>1, <1>6, <1>8 DEF Grows
<1>11. QED BY <1>4, <1>9, <1>10

LEMMA BeginEffect ==
  ASSUME TypeOK, Block, NEW t \in Tx, NEW op \in {"start", "savepoint"}, NEW a \in Names,
         NEW outcome \in Outcomes, Execute(Command(op, t, a), outcome),
         op = "start" => a = NoAddr
  PROVE  /\ ServerTypeOK' /\ durable' = durable
         /\ Vanishes \/ Stays({}) \/ (Grows(t, a) /\ (op = "start" <=> Height = 0))
         /\ outcome = "done" =>
              /\ open /\ open' /\ session'.xact # "idle"
              /\ op = "savepoint" => Grows(t, a) /\ Height # 0
         /\ outcome \in {"error", "refused", "lost"} => Vanishes \/ Stays({})
<1> DEFINE c == Command(op, t, a)
<1>1. c.op = op /\ c.by = t /\ c.name = a
  BY DEF Command
<1>2. Hardens(session, c) = {}
  BY <1>1 DEF Hardens
<1> HIDE DEF c
<1>3. CASE outcome \in {"done", "interrupted"} /\ Answered(c)
  <2>1. open /\ open' /\ Succeed(c) /\ durable' = durable
    BY <1>2, <1>3 DEF Answered, Succeed
  <2>2. CASE op = "start"
    <3>1. /\ session' \in Sessions(Names, Tx) /\ session'.xact # "idle"
          /\ Height = 0 => Grows(t, a)
          /\ Height # 0 => Stays({})
      BY <2>1, <2>2, StartSucceeds DEF c
    <3>2. ServerTypeOK'
      BY <1>1, <1>3, <3>1, ServerTyped
    <3>3. QED BY <1>3, <2>1, <2>2, <3>1, <3>2
  <2>3. CASE op = "savepoint"
    <3>1. session' \in Sessions(Names, Tx) /\ Grows(t, a) /\ Height # 0
      BY <2>1, <2>3, SavepointSucceeds DEF c
    <3>2. ServerTypeOK'
      BY <1>1, <1>3, <3>1, ServerTyped
    <3>3. session'.xact # "idle"
      BY <3>1 DEF Grows
    <3>4. QED BY <1>3, <2>1, <2>3, <3>1, <3>2, <3>3
  <2>4. QED BY <2>2, <2>3
<1>4. CASE outcome \in {"error", "interrupted"} /\ Failed(c)
  <2>1. open /\ open' /\ session' = Fail(session, c) /\ c.op # "commit" /\ durable' = durable
    BY <1>1, <1>4 DEF Failed, Err
  <2>2. session' \in Sessions(Names, Tx) /\ Stays({})
    BY <2>1, FailEffect
  <2>3. ServerTypeOK'
    BY <1>1, <1>4, <2>2, ServerTyped
  <2>4. QED BY <1>4, <2>1, <2>2, <2>3
<1>5. CASE outcome = "refused" /\ Refused
  <2>1. ServerTypeOK'
    BY <1>1, <1>5, ServerTyped
  <2>2. Stays({}) /\ durable' = durable
    BY <1>5, SteadyStays DEF Refused
  <2>3. QED BY <1>5, <2>1, <2>2
<1>6. CASE outcome = "lost" /\ Severed(c)
  <2>1. ServerTypeOK'
    BY <1>1, <1>6, ServerTyped
  <2>2. Vanishes /\ durable' = durable
    BY <1>2, <1>6 DEF Severed
  <2>3. QED BY <1>6, <2>1, <2>2
<1>7. QED BY <1>3, <1>4, <1>5, <1>6, ExecuteCases DEF c

\* COMMIT and ROLLBACK, by the outermost transaction that is not a direct one
LEMMA RollbackEffect ==
  ASSUME TypeOK, Block, NEW t \in Tx, NEW outcome \in Outcomes,
         Execute(Command("rollback", t, NoAddr), outcome)
  PROVE  /\ ServerTypeOK' /\ durable' = durable
         /\ outcome \in {"done", "interrupted"} => Clears
         /\ outcome = "refused" => Stays({})
         /\ outcome = "lost" => Vanishes
         /\ outcome # "error"
<1> DEFINE c == Command("rollback", t, NoAddr)
<1>1. c.op = "rollback" /\ c.by = t
  BY DEF Command
<1>2. Hardens(session, c) = {}
  BY <1>1 DEF Hardens
<1>3. Accepts(session, c) = TRUE
  BY <1>1 DEF Accepts
<1> HIDE DEF c
<1>4. CASE outcome \in {"done", "interrupted"} /\ Answered(c)
  <2>1. open /\ open' /\ session' = Apply(session, c) /\ durable' = durable
    BY <1>2, <1>4 DEF Answered, Succeed
  <2>2. session' = Idle
    BY <1>1, <2>1 DEF Apply
  <2>3. session' \in Sessions(Names, Tx) /\ Clears
    BY <2>1, <2>2, IdleFacts DEF Clears
  <2>4. ServerTypeOK'
    BY <1>1, <1>4, <2>3, ServerTyped
  <2>5. QED BY <1>4, <2>1, <2>3, <2>4
<1>5. CASE outcome \in {"error", "interrupted"} /\ Failed(c)
  BY <1>1, <1>3, <1>5 DEF Failed, Err
<1>6. CASE outcome = "refused" /\ Refused
  <2>1. ServerTypeOK'
    BY <1>1, <1>6, ServerTyped
  <2>2. Stays({}) /\ durable' = durable
    BY <1>6, SteadyStays DEF Refused
  <2>3. QED BY <1>6, <2>1, <2>2
<1>7. CASE outcome = "lost" /\ Severed(c)
  <2>1. ServerTypeOK'
    BY <1>1, <1>7, ServerTyped
  <2>2. Vanishes /\ durable' = durable
    BY <1>2, <1>7 DEF Severed
  <2>3. QED BY <1>7, <2>1, <2>2
<1>8. QED BY <1>4, <1>5, <1>6, <1>7, ExecuteCases DEF c

LEMMA CommitEffect ==
  ASSUME TypeOK, Block, NEW t \in Tx, NEW outcome \in Outcomes,
         Execute(Command("commit", t, NoAddr), outcome)
  PROVE  /\ ServerTypeOK' /\ durable \subseteq durable'
         /\ durable' \subseteq durable \cup Pending(session)
         /\ outcome = "done" /\ session.xact = "in_transaction" =>
              durable' = durable \cup Pending(session)
         /\ outcome \in {"done", "error", "interrupted"} => Clears
         /\ outcome = "refused" => Stays({}) /\ durable' = durable
         /\ outcome = "lost" => Vanishes
         /\ durable' # durable => session.xact = "in_transaction"
<1> DEFINE c == Command("commit", t, NoAddr)
<1>1. c.op = "commit" /\ c.by = t
  BY DEF Command
<1>2. Hardens(session, c) = IF session.xact = "in_transaction" THEN Pending(session) ELSE {}
  BY <1>1 DEF Hardens
<1> HIDE DEF c
<1>3. CASE outcome \in {"done", "interrupted"} /\ Answered(c)
  <2>1. open /\ open' /\ session' = Apply(session, c) /\ durable' = durable \cup Hardens(session, c)
    BY <1>3 DEF Answered, Succeed
  <2>2. session' = Idle
    BY <1>1, <2>1 DEF Apply
  <2>3. session' \in Sessions(Names, Tx) /\ Clears
    BY <2>1, <2>2, IdleFacts DEF Clears
  <2>4. ServerTypeOK'
    BY <1>1, <1>3, <2>3, ServerTyped
  <2>5. QED BY <1>2, <1>3, <2>1, <2>3, <2>4
<1>4. CASE outcome \in {"error", "interrupted"} /\ Failed(c)
  <2>1. open /\ open' /\ session' = Fail(session, c) /\ durable' = durable
    BY <1>4 DEF Failed, Err
  <2>2. session' \in Sessions(Names, Tx) /\ Clears
    BY <1>1, <2>1, FailEffect
  <2>3. ServerTypeOK'
    BY <1>1, <1>4, <2>2, ServerTyped
  <2>4. QED BY <1>4, <2>1, <2>2, <2>3
<1>5. CASE outcome = "refused" /\ Refused
  <2>1. ServerTypeOK'
    BY <1>1, <1>5, ServerTyped
  <2>2. Stays({}) /\ durable' = durable
    BY <1>5, SteadyStays DEF Refused
  <2>3. QED BY <1>5, <2>1, <2>2
<1>6. CASE outcome = "lost" /\ Severed(c)
  <2>1. ServerTypeOK'
    BY <1>1, <1>6, ServerTyped
  <2>2. Vanishes /\ durable \subseteq durable' /\ durable' \subseteq durable \cup Hardens(session, c)
    BY <1>6 DEF Severed
  <2>3. QED BY <1>2, <1>6, <2>1, <2>2
<1>7. QED BY <1>3, <1>4, <1>5, <1>6, ExecuteCases DEF c

\* RELEASE and ROLLBACK TO, by a nested transaction whose savepoint is there
LEMMA UndoEffect ==
  ASSUME TypeOK, Block, NEW t \in Tx, NEW i, open => Own(t, i), NEW outcome \in Outcomes,
         Execute(Command("rollback_to", t, addr[t]), outcome)
  PROVE  /\ ServerTypeOK' /\ durable' = durable
         /\ outcome \in {"done", "interrupted"} => CutsBack(i, {})
         /\ outcome = "refused" => Stays({})
         /\ outcome = "lost" => Vanishes
         /\ outcome # "error"
<1> DEFINE c == Command("rollback_to", t, addr[t])
<1>1. c.op = "rollback_to" /\ c.by = t /\ c.name = addr[t]
  BY DEF Command
<1>2. Hardens(session, c) = {}
  BY <1>1 DEF Hardens
<1> HIDE DEF c
<1>3. open => Own(t, i) /\ Accepts(session, c) /\ Newest(session, c.name) = i
  <2> SUFFICES ASSUME open PROVE Own(t, i) /\ Accepts(session, c) /\ Newest(session, c.name) = i
    OBVIOUS
  <2>1. Own(t, i) /\ Named(session, addr[t]) # {} /\ Newest(session, addr[t]) = i
    BY NewestIsOwn
  <2>2. Height # 0
    BY <2>1, SessionFacts DEF Own
  <2>3. session.xact # "idle"
    BY <2>2 DEF Block
  <2>4. QED BY <1>1, <2>1, <2>3 DEF Accepts
<1>4. CASE outcome \in {"done", "interrupted"} /\ Answered(c)
  <2>1. open /\ open' /\ session' = Apply(session, c) /\ durable' = durable
    BY <1>2, <1>4 DEF Answered, Succeed
  <2>2. session' = Cut(session, i, {}) /\ i \in 1 .. Height
    BY <1>1, <1>3, <2>1, SessionFacts DEF Apply, Own
  <2>3. /\ session' \in Sessions(Names, Tx) /\ session'.xact = "in_transaction"
        /\ Len(session'.levels) = i
        /\ \A h \in 1 .. i - 1 : session'.levels[h] = session.levels[h]
        /\ session'.levels[i] = [session.levels[i] EXCEPT !.writes = {}]
    <3>1. {} \in SUBSET Tx
      OBVIOUS
    <3>2. QED BY <2>2, <3>1, CutFacts
  <2>4. CutsBack(i, {})
    BY <2>1, <2>2, <2>3 DEF CutsBack, Height
  <2>5. ServerTypeOK'
    BY <1>1, <1>4, <2>3, ServerTyped
  <2>6. QED BY <1>4, <2>1, <2>4, <2>5
<1>5. CASE outcome \in {"error", "interrupted"} /\ Failed(c)
  BY <1>1, <1>3, <1>5 DEF Failed, Err
<1>6. CASE outcome = "refused" /\ Refused
  <2>1. ServerTypeOK'
    BY <1>1, <1>6, ServerTyped
  <2>2. Stays({}) /\ durable' = durable
    BY <1>6, SteadyStays DEF Refused
  <2>3. QED BY <1>6, <2>1, <2>2
<1>7. CASE outcome = "lost" /\ Severed(c)
  <2>1. ServerTypeOK'
    BY <1>1, <1>7, ServerTyped
  <2>2. Vanishes /\ durable' = durable
    BY <1>2, <1>7 DEF Severed
  <2>3. QED BY <1>7, <2>1, <2>2
<1>8. QED BY <1>4, <1>5, <1>6, <1>7, ExecuteCases DEF c

LEMMA ReleaseEffect ==
  ASSUME TypeOK, Block, NEW t \in Tx, NEW i, open => Own(t, i), NEW outcome \in Outcomes,
         Execute(Command("release", t, addr[t]), outcome)
  PROVE  /\ ServerTypeOK' /\ durable' = durable
         /\ \/ CutsBack(i - 1, UNION { session.levels[j].writes : j \in (i - 1) .. Height })
               /\ session.xact = "in_transaction" /\ outcome \in {"done", "interrupted"}
            \/ Stays({}) /\ outcome \in {"error", "interrupted", "refused"}
            \/ Vanishes /\ outcome = "lost"
<1> DEFINE c == Command("release", t, addr[t])
           w == UNION { session.levels[j].writes : j \in (i - 1) .. Height }
<1>1. c.op = "release" /\ c.by = t /\ c.name = addr[t]
  BY DEF Command
<1>2. Hardens(session, c) = {}
  BY <1>1 DEF Hardens
<1> HIDE DEF c
<1>3. open => Own(t, i) /\ Newest(session, c.name) = i /\ i \in 2 .. Height
  BY <1>1, NewestIsOwn DEF Own
<1>4. CASE outcome \in {"done", "interrupted"} /\ Answered(c)
  <2>1. open /\ open' /\ session' = Apply(session, c) /\ Accepts(session, c) /\ durable' = durable
    BY <1>2, <1>4 DEF Answered, Succeed
  <2>2. session' = Cut(session, i - 1, w) /\ i - 1 \in 1 .. Height /\ session.xact = "in_transaction"
    <3>1. i - 1 \in 1 .. Height
      BY <1>3, <2>1, SessionFacts
    <3>2. session.xact = "in_transaction"
      BY <1>1, <2>1 DEF Accepts
    <3>3. session' = Cut(session, i - 1, w)
      BY <1>1, <1>3, <2>1 DEF Apply, Height
    <3>4. QED BY <3>1, <3>2, <3>3
  <2>3. \A j \in (i - 1) .. Height : session.levels[j].writes \in SUBSET Tx
    BY <2>2, SessionFacts
  <2>4. w \in SUBSET Tx
    BY <2>3
  <2> HIDE DEF w
  <2>5. /\ session' \in Sessions(Names, Tx) /\ session'.xact = "in_transaction"
        /\ Len(session'.levels) = i - 1
        /\ \A h \in 1 .. (i - 1) - 1 : session'.levels[h] = session.levels[h]
        /\ session'.levels[i - 1] = [session.levels[i - 1] EXCEPT !.writes = w]
    BY <2>2, <2>4, CutFacts
  <2>6. CutsBack(i - 1, w)
    BY <2>1, <2>2, <2>5 DEF CutsBack, Height
  <2>7. ServerTypeOK'
    BY <1>1, <1>4, <2>5, ServerTyped
  <2>8. QED BY <1>4, <2>1, <2>2, <2>6, <2>7 DEF w
<1>5. CASE outcome \in {"error", "interrupted"} /\ Failed(c)
  <2>1. open /\ open' /\ session' = Fail(session, c) /\ c.op # "commit" /\ durable' = durable
    BY <1>1, <1>5 DEF Failed, Err
  <2>2. session' \in Sessions(Names, Tx) /\ Stays({})
    BY <2>1, FailEffect
  <2>3. ServerTypeOK'
    BY <1>1, <1>5, <2>2, ServerTyped
  <2>4. QED BY <1>5, <2>1, <2>2, <2>3
<1>6. CASE outcome = "refused" /\ Refused
  <2>1. ServerTypeOK'
    BY <1>1, <1>6, ServerTyped
  <2>2. Stays({}) /\ durable' = durable
    BY <1>6, SteadyStays DEF Refused
  <2>3. QED BY <1>6, <2>1, <2>2
<1>7. CASE outcome = "lost" /\ Severed(c)
  <2>1. ServerTypeOK'
    BY <1>1, <1>7, ServerTyped
  <2>2. Vanishes /\ durable' = durable
    BY <1>2, <1>7 DEF Severed
  <2>3. QED BY <1>7, <2>1, <2>2
<1>8. QED BY <1>4, <1>5, <1>6, <1>7, ExecuteCases DEF c

-----------------------------------------------------------------------------
(* Block and Savepoints are kept.                                          *)

\* The stack is what it was, or has lost its top.
Lower ==
  /\ Depth' \in 0 .. Depth
  /\ \A j \in 1 .. Depth' : /\ active'[j] = active[j]
                            /\ kind'[active[j]] = kind[active[j]]
                            /\ addr'[active[j]] = addr[active[j]]
  /\ \A u \in Tx : fate[u] # "unborn" => fate'[u] # "unborn"

LEMMA LowerFacts ==
  ASSUME IInv, NoneMoves \/ (\E t \in Tx : Stillborn(t) \/ Over(t))
  PROVE  Lower
<1>1. Depth \in Nat /\ \A j \in 1 .. Depth : active[j] \in Tx
  BY StackFacts
<1>2. CASE NoneMoves
  BY <1>1, <1>2 DEF NoneMoves, Lower, Depth
<1>3. ASSUME NEW t \in Tx, Stillborn(t) PROVE Lower
  <2>1. Depth' = Depth /\ active' = active /\ kind' = kind /\ addr' = addr
    BY <1>3 DEF Stillborn, Depth
  <2>2. \A u \in Tx : fate[u] # "unborn" => fate'[u] # "unborn"
    BY <1>3 DEF Stillborn
  <2>3. QED BY <1>1, <2>1, <2>2 DEF Lower
<1>4. ASSUME NEW t \in Tx, Over(t) PROVE Lower
  <2>1. /\ Depth \in Nat \ {0} /\ Depth' = Depth - 1
        /\ \A j \in 1 .. Depth' : active'[j] = active[j] /\ j \in 1 .. Depth /\ j # Depth
    BY <1>4, OverStack DEF Over
  <2>2. active[Depth] = t /\ \A j \in 1 .. Depth : active[j] = t => j = Depth
    BY <1>4, <2>1, StackFacts DEF Over, Top, Depth
  <2>3. \A j \in 1 .. Depth' : kind'[active[j]] = kind[active[j]] /\ addr' = addr
    BY <1>1, <1>4, <2>1, <2>2 DEF Over
  <2>4. \A u \in Tx : fate[u] # "unborn" => fate'[u] # "unborn"
    BY <1>4 DEF Over
  <2>5. QED BY <2>1, <2>3, <2>4 DEF Lower
<1>5. QED BY <1>2, <1>3, <1>4

LEMMA EmptyFacts ==
  ASSUME Vanishes \/ Clears
  PROVE  Height' = 0 /\ session'.xact = "idle" /\ Pending(session)' = {}
<1>1. session' = Idle
  BY DEF Vanishes, Clears
<1>2. Len(session'.levels) = 0 /\ session'.xact = "idle"
  BY <1>1, IdleFacts
<1>3. Pending(session)' = {}
  BY <1>2 DEF Pending
<1>4. QED BY <1>2, <1>3 DEF Height

LEMMA BlockLower ==
  ASSUME TypeOK, Block, Lower,
         \/ Vanishes
         \/ \E W : Stays(W)
         \/ \E t, a : Grows(t, a)
         \/ \E m, w : CutsBack(m, w)
         \/ Clears /\ \A j \in 1 .. Depth' : kind[active[j]] = "direct"
  PROVE  Block'
<1>1. Depth' \in 0 .. Depth /\ Height \in Nat
  BY SessionFacts DEF Lower
<1>2. \A j \in 1 .. Depth' : kind'[active'[j]] = kind[active[j]]
  BY DEF Lower
<1>3. CASE Vanishes
  BY <1>3, EmptyFacts DEF Block, Vanishes
<1>4. ASSUME NEW W, Stays(W) PROVE Block'
  <2>1. Depth \in Nat
    BY DEF TypeOK, RegistryTypeOK, Depth
  <2>2. \A j \in 1 .. Depth' : j \in 1 .. Depth
    BY <1>1, <2>1
  <2>3. QED BY <1>2, <1>4, <2>2 DEF Block, Stays
<1>5. ASSUME NEW t, NEW a, Grows(t, a) PROVE Block'
  BY <1>1, <1>5 DEF Block, Grows
<1>6. ASSUME NEW m, NEW w, CutsBack(m, w) PROVE Block'
  BY <1>1, <1>6 DEF Block, CutsBack
<1>7. CASE Clears /\ \A j \in 1 .. Depth' : kind[active[j]] = "direct"
  BY <1>2, <1>7, EmptyFacts DEF Block, Clears
<1>8. QED BY <1>3, <1>4, <1>5, <1>6, <1>7

LEMMA BlockBorn ==
  ASSUME TypeOK, Block, NEW t,
         \/ session'.xact # "idle" /\ open' /\ ((\E W : Stays(W)) \/ \E a : Grows(t, a))
         \/ Stays({}) /\ \A j \in 1 .. Depth' : kind'[active'[j]] = "direct"
  PROVE  Block'
<1>1. Height \in Nat
  BY SessionFacts
<1>2. ASSUME NEW W, Stays(W), session'.xact # "idle", open' PROVE Block'
  BY <1>1, <1>2 DEF Block, Stays
<1>3. ASSUME NEW a, Grows(t, a), session'.xact # "idle", open' PROVE Block'
  BY <1>1, <1>3 DEF Block, Grows
<1>4. CASE Stays({}) /\ \A j \in 1 .. Depth' : kind'[active'[j]] = "direct"
  BY <1>1, <1>4 DEF Block, Stays
<1>5. QED BY <1>2, <1>3, <1>4

\* Levels stay or go, from the newest on, but those of nested transactions
\* that remain registered.
LEMMA SavepointsLower ==
  ASSUME IInv, TypeOK, Savepoints, Lower,
         open' => open,
         Height' \in 0 .. Height,
         \A i \in 1 .. Height' : /\ session'.levels[i].by = session.levels[i].by
                                 /\ session'.levels[i].name = session.levels[i].name,
         open' => \A j \in 1 .. Depth' : kind[active[j]] = "nested" =>
                    \A h \in 1 .. Height : session.levels[h].by = active[j] => h <= Height'
  PROVE  Savepoints'
<1>1. Depth \in Nat /\ Height \in Nat
  BY SessionFacts, StackFacts
<1>2. /\ \A i \in 1 .. Height' : i \in 1 .. Height /\ session.levels[i].by \in Tx
      /\ \A j \in 1 .. Depth' : /\ j \in 1 .. Depth /\ active'[j] = active[j]
                                /\ kind'[active[j]] = kind[active[j]]
                                /\ addr'[active[j]] = addr[active[j]]
  BY <1>1, SessionFacts DEF Lower
<1>3. \A i \in 1 .. Height' : fate'[session'.levels[i].by] # "unborn"
  BY <1>2 DEF Savepoints, Lower
<1>4. \A h, i \in 1 .. Height' : session'.levels[h].by = session'.levels[i].by => h = i
  BY <1>2 DEF Savepoints
<1>5. \A j, k \in 1 .. Depth' : \A h, i \in 1 .. Height' :
        j < k /\ session'.levels[h].by = active'[j] /\ session'.levels[i].by = active'[k] => h < i
  BY <1>2 DEF Savepoints
<1>6. ASSUME open', NEW j \in 1 .. Depth', kind'[active'[j]] = "nested"
      PROVE  \E i \in 2 .. Height' : Own(active[j], i)'
  <2>1. open /\ j \in 1 .. Depth /\ kind[active[j]] = "nested"
    BY <1>2, <1>6
  <2>2. PICK i \in 2 .. Height : Own(active[j], i)
    BY <2>1 DEF Savepoints
  <2>3. i \in 1 .. Height /\ session.levels[i].by = active[j]
    BY <1>1, <2>2 DEF Own
  <2>4. i \in 2 .. Height'
    BY <1>1, <1>6, <2>1, <2>3, <2>2
  <2>5. i \in 1 .. Height' /\ active'[j] = active[j] /\ addr'[active[j]] = addr[active[j]]
    BY <1>1, <1>2, <2>4
  <2>6. /\ session'.levels[i].by = active'[j] /\ session'.levels[i].name = addr'[active'[j]]
        /\ \A h \in 1 .. Height' : h > i => session'.levels[h].name # addr'[active'[j]]
    BY <1>2, <2>2, <2>5 DEF Own
  <2>7. QED BY <2>4, <2>5, <2>6 DEF Own
<1>7. QED BY <1>2, <1>3, <1>4, <1>5, <1>6 DEF Savepoints

\* A level is added by a new object, which may not live to see it.
LEMMA SavepointsGrown ==
  ASSUME IInv, TypeOK, Savepoints, NEW t \in Tx, NEW a \in Names, fate[t] = "unborn",
         Grows(t, a), fate'[t] # "unborn",
         \A u \in Tx : fate[u] # "unborn" => fate'[u] # "unborn",
         \A j \in 1 .. Depth : /\ active[j] # t
                               /\ kind[active[j]] = "nested" => addr[active[j]] # a
                               /\ active'[j] = active[j]
                               /\ kind'[active[j]] = kind[active[j]]
                               /\ addr'[active[j]] = addr[active[j]],
         \/ Depth' = Depth
         \/ /\ Depth' = Depth + 1 /\ active'[Depth + 1] = t
            /\ kind'[t] = "nested" => addr'[t] = a /\ Height # 0
  PROVE  Savepoints'
<1> DEFINE H == Height
<1>1. Depth \in Nat /\ H \in Nat /\ open /\ Height' = H + 1
  BY SessionFacts, StackFacts DEF Grows
<1>2. /\ \A i \in 1 .. H : session'.levels[i] = session.levels[i] /\ session.levels[i].by \in Tx
      /\ session'.levels[H + 1].by = t /\ session'.levels[H + 1].name = a
  BY SessionFacts DEF Grows
<1>3. \A i \in 1 .. H : session.levels[i].by # t
  BY DEF Savepoints
<1>4. \A i \in 1 .. Height' : i \in 1 .. H \/ i = H + 1
  BY <1>1
<1>5. \A j \in 1 .. Depth' : j \in 1 .. Depth \/ (j = Depth + 1 /\ active'[j] = t)
  BY <1>1
<1> HIDE DEF H
<1>6. \A i \in 1 .. Height' : fate'[session'.levels[i].by] # "unborn"
  BY <1>2, <1>4 DEF Savepoints, H
<1>7. \A h, i \in 1 .. Height' : session'.levels[h].by = session'.levels[i].by => h = i
  BY <1>2, <1>3, <1>4 DEF Savepoints, H
<1>8. \A j, k \in 1 .. Depth' : \A h, i \in 1 .. Height' :
        j < k /\ session'.levels[h].by = active'[j] /\ session'.levels[i].by = active'[k] => h < i
  <2> SUFFICES ASSUME NEW j \in 1 .. Depth', NEW k \in 1 .. Depth',
                      NEW h \in 1 .. Height', NEW i \in 1 .. Height', j < k,
                      session'.levels[h].by = active'[j], session'.levels[i].by = active'[k]
               PROVE  h < i
    OBVIOUS
  <2>1. j \in 1 .. Depth /\ active'[j] = active[j] /\ active[j] # t
    BY <1>1, <1>5
  <2>2. h \in 1 .. H /\ session.levels[h].by = active[j]
    BY <1>2, <1>4, <2>1
  <2>3. CASE i = H + 1
    BY <1>1, <2>2, <2>3
  <2>4. CASE i \in 1 .. H
    <3>1. session.levels[i].by = active'[k] /\ session.levels[i].by # t
      BY <1>2, <1>3, <2>4
    <3>2. k \in 1 .. Depth /\ active'[k] = active[k]
      BY <1>5, <3>1
    <3>3. QED BY <2>1, <2>2, <2>4, <3>1, <3>2 DEF Savepoints, H
  <2>5. QED BY <1>4, <2>3, <2>4
<1>9. ASSUME open', NEW j \in 1 .. Depth', kind'[active'[j]] = "nested"
      PROVE  \E i \in 2 .. Height' : Own(active[j], i)'
  <2>1. CASE j \in 1 .. Depth
    <3>1. /\ active'[j] = active[j] /\ kind[active[j]] = "nested"
          /\ addr'[active[j]] = addr[active[j]] /\ addr[active[j]] # a
      BY <1>9, <2>1
    <3>2. PICK i \in 2 .. H : Own(active[j], i)
      BY <1>1, <2>1, <3>1 DEF Savepoints, H
    <3>3. i \in 2 .. Height' /\ i \in 1 .. H
      BY <1>1
    <3>4. /\ session'.levels[i].by = active'[j] /\ session'.levels[i].name = addr'[active'[j]]
          /\ \A h \in 1 .. H : h > i => session'.levels[h].name # addr'[active'[j]]
          /\ session'.levels[H + 1].name # addr'[active'[j]]
      BY <1>2, <3>1, <3>2, <3>3 DEF Own, H
    <3>5. QED BY <1>4, <3>3, <3>4 DEF Own
  <2>2. CASE j = Depth + 1 /\ active'[j] = t
    <3>1. kind'[t] = "nested" /\ Depth' = Depth + 1
      BY <1>1, <1>9, <2>2
    <3>2. addr'[t] = a /\ H # 0
      BY <1>1, <3>1 DEF H
    <3>3. H + 1 \in 2 .. Height' /\ \A h \in 1 .. Height' : ~(h > H + 1)
      BY <1>1, <3>2
    <3>4. session'.levels[H + 1].by = active'[j] /\ session'.levels[H + 1].name = addr'[active'[j]]
      BY <1>2, <2>2, <3>2
    <3>5. QED BY <3>3, <3>4 DEF Own
  <2>3. QED BY <1>5, <2>1, <2>2
<1>10. QED BY <1>6, <1>7, <1>8, <1>9 DEF Savepoints

\* A direct or an outermost transaction is born, and no level is added.
LEMMA SavepointsBorn ==
  ASSUME IInv, TypeOK, Savepoints, NEW t \in Tx, fate[t] = "unborn",
         Stays({}), fate'[t] # "unborn",
         \A u \in Tx : fate[u] # "unborn" => fate'[u] # "unborn",
         \A j \in 1 .. Depth : /\ active'[j] = active[j]
                               /\ kind'[active[j]] = kind[active[j]]
                               /\ addr'[active[j]] = addr[active[j]],
         Depth' = Depth + 1, active'[Depth + 1] = t, kind'[t] # "nested"
  PROVE  Savepoints'
<1>1. Depth \in Nat /\ Height \in Nat /\ Height' = Height /\ open' = open
  BY SessionFacts, StackFacts DEF Stays
<1>2. \A i \in 1 .. Height : /\ session'.levels[i].by = session.levels[i].by
                             /\ session'.levels[i].name = session.levels[i].name
                             /\ session.levels[i].by \in Tx
                             /\ session.levels[i].by # t
  BY SessionFacts DEF Stays, Savepoints
<1>3. \A j \in 1 .. Depth' : j \in 1 .. Depth \/ (j = Depth + 1 /\ active'[j] = t)
  BY <1>1
<1>4. \A i \in 1 .. Height' : fate'[session'.levels[i].by] # "unborn"
  BY <1>1, <1>2 DEF Savepoints
<1>5. \A h, i \in 1 .. Height' : session'.levels[h].by = session'.levels[i].by => h = i
  BY <1>1, <1>2 DEF Savepoints
<1>6. \A j, k \in 1 .. Depth' : \A h, i \in 1 .. Height' :
        j < k /\ session'.levels[h].by = active'[j] /\ session'.levels[i].by = active'[k] => h < i
  BY <1>1, <1>2, <1>3 DEF Savepoints
<1>7. ASSUME open', NEW j \in 1 .. Depth', kind'[active'[j]] = "nested"
      PROVE  \E i \in 2 .. Height' : Own(active[j], i)'
  <2>1. /\ j \in 1 .. Depth /\ active'[j] = active[j] /\ kind[active[j]] = "nested"
        /\ addr'[active[j]] = addr[active[j]]
    BY <1>3, <1>7
  <2>2. PICK i \in 2 .. Height : Own(active[j], i)
    BY <1>1, <1>7, <2>1 DEF Savepoints
  <2>3. i \in 2 .. Height' /\ i \in 1 .. Height
    BY <1>1
  <2>4. QED BY <1>1, <1>2, <2>1, <2>2, <2>3 DEF Own
<1>8. QED BY <1>4, <1>5, <1>6, <1>7 DEF Savepoints

-----------------------------------------------------------------------------
(* The pending writes.                                                     *)

\* How the lifetime of an object may have gone while its writes are pending:
\* it was not rolled back.
NotUndone == {"open", "committed", "commit_failed", "unfinished", "abandoned"}

\* A pending write lies at or above the savepoint of a registered nested
\* transaction exactly when that transaction encloses it, and there is an
\* outermost transaction to end with it.
Placed(u, i) ==
  /\ fate[u] # "unborn"
  /\ \A v \in lineage[u] : fate[v] \in NotUndone
  /\ lineage[u] # {} => \E v \in lineage[u] : \/ fate[v] \notin {"open", "committed"}
                                              \/ reg[v] /\ kind[v] \in {"top", "sub"}
  /\ \A j \in 1 .. Depth : \A h \in 1 .. Height :
       kind[active[j]] = "nested" /\ session.levels[h].by = active[j] =>
         (active[j] \in lineage[u] <=> h <= i)

Writes == \A i \in 1 .. Height : \A u \in session.levels[i].writes : Placed(u, i)

LEMMA PendingIsLevelled ==
  ASSUME NEW u
  PROVE  u \in Pending(session) <=> \E i \in 1 .. Height : u \in session.levels[i].writes
BY DEF Pending, Height

\* The lifetime that ends does not contradict the writes that are still
\* pending afterwards.
EndsWell(t) ==
  \A u \in Pending(session)' :
    t \in lineage[u] => /\ fate'[t] \in NotUndone
                        /\ kind[t] \in {"top", "sub"} => fate'[t] # "committed"

\* What a step of the objects does to the lifetimes that enclose a pending
\* write
LEMMA Enclosing ==
  ASSUME IInv, TypeOK, Lifetimes,
         NoneMoves \/ (\E t \in Tx : Stillborn(t) \/ (Over(t) /\ EndsWell(t))),
         NEW u \in Tx, u \in Pending(session)', fate[u] # "unborn", NEW v \in lineage[u]
  PROVE  /\ lineage'[u] = lineage[u]
         /\ fate[v] \in NotUndone => fate'[v] \in NotUndone
         /\ fate[v] \notin {"open", "committed"} => fate'[v] \notin {"open", "committed"}
         /\ reg[v] /\ kind[v] \in {"top", "sub"} =>
              (reg'[v] /\ kind'[v] \in {"top", "sub"}) \/ fate'[v] \notin {"open", "committed"}
<1>1. v \in Tx /\ lineage[v] \subseteq Tx
  BY DEF TypeOK
<1>2. CASE NoneMoves
  <2>1. reg[v] => kind'[v] = kind[v]
    BY <1>1, <1>2, StackFacts DEF NoneMoves
  <2>2. QED BY <1>2, <2>1 DEF NoneMoves
<1>3. ASSUME NEW t \in Tx, Stillborn(t)
      PROVE  v # t /\ u # t /\ lineage'[u] = lineage[u] /\ fate'[v] = fate[v] /\ reg' = reg /\ kind' = kind
  BY <1>1, <1>3, UnbornEnclosesNothing DEF Stillborn
<1>4. ASSUME NEW t \in Tx, Over(t), EndsWell(t), v # t
      PROVE  lineage' = lineage /\ fate'[v] = fate[v] /\ reg'[v] = reg[v] /\ kind'[v] = kind[v]
  BY <1>1, <1>4, StackFacts DEF Over
<1>5. ASSUME NEW t \in Tx, Over(t), EndsWell(t), v = t
      PROVE  /\ lineage' = lineage /\ fate'[t] \in NotUndone /\ fate[t] = "open"
             /\ kind[t] \in {"top", "sub"} => fate'[t] \notin {"open", "committed"}
  <2>1. reg[t] /\ fate'[t] # "open" /\ lineage' = lineage
    BY <1>5 DEF Over
  <2>2. fate[t] = "open"
    BY <2>1 DEF Lifetimes, Lives
  <2>3. QED BY <1>5, <2>1, <2>2 DEF EndsWell
<1>6. QED BY <1>2, <1>3, <1>4, <1>5

LEMMA WritesLower ==
  ASSUME IInv, TypeOK, Lifetimes, Writes,
         NoneMoves \/ (\E t \in Tx : Stillborn(t) \/ (Over(t) /\ EndsWell(t))),
         Height' \in 0 .. Height,
         \A i \in 1 .. Height' :
           /\ session'.levels[i].by = session.levels[i].by
           /\ \A u \in session'.levels[i].writes :
                \E h \in i .. Height : u \in session.levels[h].writes /\ (h = i \/ i = Height')
  PROVE  Writes'
<1>1. Depth \in Nat /\ Height \in Nat /\ Lower
  BY SessionFacts, StackFacts, LowerFacts
<1> SUFFICES ASSUME NEW i \in 1 .. Height', NEW u \in session'.levels[i].writes
             PROVE  Placed(u, i)'
  BY DEF Writes
<1>2. PICK h \in i .. Height : u \in session.levels[h].writes /\ (h = i \/ i = Height')
  OBVIOUS
<1>3. h \in 1 .. Height /\ u \in Tx
  BY <1>1, <1>2, SessionFacts
<1>4. Placed(u, h)
  BY <1>2, <1>3 DEF Writes
<1>5. u \in Pending(session)'
  BY DEF Pending, Height
<1>6. fate[u] # "unborn" /\ fate'[u] # "unborn"
  BY <1>1, <1>3, <1>4 DEF Placed, Lower
<1>7. \A v \in lineage[u] :
         /\ lineage'[u] = lineage[u]
         /\ fate[v] \in NotUndone => fate'[v] \in NotUndone
         /\ fate[v] \notin {"open", "committed"} => fate'[v] \notin {"open", "committed"}
         /\ reg[v] /\ kind[v] \in {"top", "sub"} =>
              (reg'[v] /\ kind'[v] \in {"top", "sub"}) \/ fate'[v] \notin {"open", "committed"}
  BY <1>3, <1>5, <1>6, Enclosing
<1>8. lineage'[u] = lineage[u]
  <2>1. ASSUME NEW t \in Tx, Stillborn(t) PROVE lineage'[u] = lineage[u]
    BY <1>3, <1>6, <2>1 DEF Stillborn
  <2>2. QED BY <2>1 DEF NoneMoves, Over
<1>9. \A v \in lineage'[u] : fate'[v] \in NotUndone
  BY <1>4, <1>7, <1>8 DEF Placed
<1>10. lineage'[u] # {} => \E v \in lineage'[u] : \/ fate'[v] \notin {"open", "committed"}
                                                  \/ reg'[v] /\ kind'[v] \in {"top", "sub"}
  BY <1>4, <1>7, <1>8 DEF Placed
<1>11. ASSUME NEW j \in 1 .. Depth', NEW g \in 1 .. Height',
              kind'[active'[j]] = "nested", session'.levels[g].by = active'[j]
       PROVE  active'[j] \in lineage'[u] <=> g <= i
  <2>1. /\ j \in 1 .. Depth /\ active'[j] = active[j] /\ kind[active[j]] = "nested"
        /\ g \in 1 .. Height /\ session.levels[g].by = active[j]
    BY <1>1, <1>11 DEF Lower
  <2>2. active[j] \in lineage[u] <=> g <= h
    BY <1>4, <2>1 DEF Placed
  <2>3. g <= h <=> g <= i
    BY <1>1, <1>2
  <2>4. QED BY <1>8, <2>1, <2>2, <2>3
<1>12. QED BY <1>6, <1>9, <1>10, <1>11 DEF Placed

\* A write of the current transaction goes to the newest level.
LEMMA WriterPlaced ==
  ASSUME IInv, TypeOK, Lifetimes, NEW t \in Tx, reg[t], current = t
  PROVE  /\ Depth # 0 /\ Depth \in 1 .. Depth /\ active[Depth] = t
         /\ \A v \in lineage[t] : reg[v] /\ fate[v] = "open"
         /\ \A j \in 1 .. Depth : kind[active[j]] # "direct" => active[j] \in lineage[t]
         /\ lineage[t] # {} => \E v \in lineage[t] : reg[v] /\ kind[v] \in {"top", "sub"}
         /\ kind[t] # "direct" => lineage[t] # {}
<1>1. /\ Depth \in Nat \ {0} /\ active[Depth] = t
      /\ \A j \in 1 .. Depth : active[j] \in Tx /\ reg[active[j]]
  BY TopFacts, StackFacts, NoTxAssumption DEF Depth
<1>2. Depth \in 1 .. Depth
  BY <1>1
<1>3. ASSUME NEW v \in lineage[t] PROVE reg[v] /\ fate[v] = "open"
  <2>1. PICK i \in 1 .. Depth : active[i] = v
    BY <1>1, <1>2 DEF Lifetimes, Lineages
  <2>2. v \in Tx /\ reg[v]
    BY <1>1, <2>1
  <2>3. QED BY <2>2 DEF Lifetimes, Lives
<1>4. \A j \in 1 .. Depth : kind[active[j]] # "direct" => active[j] \in lineage[t]
  <2>1. \A j \in 1 .. Depth : j <= Depth
    BY <1>1
  <2>2. QED BY <1>1, <1>2, <2>1 DEF Lifetimes, Lineages
<1>5. kind[t] # "direct" => lineage[t] # {}
  BY <1>1, <1>2, <1>4
<1>6. ASSUME lineage[t] # {}
      PROVE  \E v \in lineage[t] : reg[v] /\ kind[v] \in {"top", "sub"}
  <2>1. kind[t] # "direct"
    BY <1>1, <1>2, <1>6 DEF Lifetimes, Lineages
  <2>2. 1 \in 1 .. Depth /\ kind[active[1]] \in {"direct", "top"}
    BY <1>1 DEF Lifetimes, StackShape
  <2>3. CASE kind[active[1]] = "top"
    BY <1>1, <1>4, <2>2, <2>3
  <2>4. CASE kind[active[1]] = "direct"
    <3>1. Depth # 1
      BY <1>1, <2>1, <2>4
    <3>2. 2 \in 1 .. Depth
      BY <1>1, <3>1
    <3>3. kind[active[2]] \in {"sub"}
      BY <2>4, <3>2 DEF Lifetimes, StackShape
    <3>4. QED BY <1>1, <1>4, <3>2, <3>3
  <2>5. QED BY <2>2, <2>3, <2>4
<1>7. QED BY <1>1, <1>2, <1>3, <1>4, <1>5, <1>6

LEMMA WritesAdded ==
  ASSUME IInv, TypeOK, Lifetimes, Writes, NEW t \in Tx, reg[t], current = t,
         Stays({t}), NoneMoves
  PROVE  Writes'
<1>1. /\ Height \in Nat /\ Height' = Height /\ Depth' = Depth /\ active' = active
      /\ fate' = fate /\ lineage' = lineage /\ reg' = reg
  BY SessionFacts DEF Stays, NoneMoves, Depth
<1>2. \A j \in 1 .. Depth : /\ kind'[active[j]] = kind[active[j]]
                            /\ active[j] \in Tx /\ reg[active[j]]
  BY StackFacts DEF NoneMoves
<1>3. \A v \in Tx : reg[v] => kind'[v] = kind[v]
  BY <1>2, StackFacts
<1>4. ASSUME NEW u \in Tx, NEW i \in 1 .. Height, Placed(u, i) PROVE Placed(u, i)'
  <2>1. \A h \in 1 .. Height : session'.levels[h].by = session.levels[h].by
    BY DEF Stays
  <2>2. lineage[u] \subseteq Tx
    BY DEF TypeOK
  <2>3. QED BY <1>1, <1>2, <1>3, <1>4, <2>1, <2>2 DEF Placed
<1>5. ASSUME Height # 0 PROVE Placed(t, Height)
  <2>1. fate[t] # "unborn"
    BY DEF Lifetimes, Lives
  <2>2. /\ \A v \in lineage[t] : reg[v] /\ fate[v] = "open"
        /\ \A j \in 1 .. Depth : kind[active[j]] # "direct" => active[j] \in lineage[t]
        /\ lineage[t] # {} => \E v \in lineage[t] : reg[v] /\ kind[v] \in {"top", "sub"}
    BY WriterPlaced
  <2>3. \A h \in 1 .. Height : h <= Height
    BY <1>1
  <2>4. QED BY <2>1, <2>2, <2>3 DEF Placed, NotUndone
<1>6. ASSUME NEW i \in 1 .. Height, NEW u \in session'.levels[i].writes PROVE Placed(u, i)'
  <2>1. u \in session.levels[i].writes \/ (u = t /\ i = Height)
    BY <1>6 DEF Stays
  <2>2. CASE u \in session.levels[i].writes
    <3>1. u \in Tx /\ Placed(u, i)
      BY <2>2, SessionFacts DEF Writes
    <3>2. QED BY <1>4, <3>1
  <2>3. CASE u = t /\ i = Height
    BY <1>1, <1>4, <1>5, <2>3
  <2>4. QED BY <2>1, <2>2, <2>3
<1>7. QED BY <1>1, <1>6 DEF Writes

\* A new object, registered or not, has no writes.
LEMMA WritesBegun ==
  ASSUME IInv, TypeOK, Lifetimes, Savepoints, Writes, NEW t \in Tx, Born(t) \/ Stillborn(t),
         Stays({}) \/ \E a \in Names : Grows(t, a)
  PROVE  Writes'
<1> DEFINE H == Height
<1>1. Depth \in Nat /\ H \in Nat /\ fate[t] = "unborn"
  BY SessionFacts, StackFacts DEF Born, Stillborn
<1>2. \A i \in 1 .. H : /\ session'.levels[i].by = session.levels[i].by
                        /\ session'.levels[i].writes \subseteq session.levels[i].writes
                        /\ session.levels[i].by # t
                        /\ session.levels[i].writes \subseteq Tx
  <2>1. \A i \in 1 .. H : session.levels[i].by # t /\ session.levels[i].writes \subseteq Tx
    BY <1>1, SessionFacts DEF Savepoints
  <2>2. CASE Stays({})
    BY <2>1, <2>2 DEF Stays
  <2>3. ASSUME NEW a \in Names, Grows(t, a)
        PROVE \A i \in 1 .. H : session'.levels[i] = session.levels[i]
    BY <2>3 DEF Grows
  <2>4. QED BY <2>1, <2>2, <2>3
<1>3. \/ Height' = H
      \/ Height' = H + 1 /\ session'.levels[H + 1].by = t /\ session'.levels[H + 1].writes = {}
  <2>1. ASSUME NEW a \in Names, Grows(t, a)
        PROVE  /\ Height' = H + 1
               /\ session'.levels[H + 1].by = t /\ session'.levels[H + 1].writes = {}
    <3>1. Height' = H + 1 /\ session'.levels[H + 1] = [name |-> a, by |-> t, writes |-> {}]
      BY <2>1 DEF Grows
    <3>2. QED BY <3>1
  <2>2. CASE Stays({})
    BY <2>2 DEF Stays
  <2>3. QED BY <2>1, <2>2
<1> HIDE DEF H
<1>4. \A i \in 1 .. Height' : i \in 1 .. H \/
        (i = H + 1 /\ session'.levels[i].by = t /\ session'.levels[i].writes = {})
  BY <1>1, <1>3
<1>5. \A j \in 1 .. Depth : active[j] \in Tx /\ active[j] # t
  BY <1>1, StackFacts, UnbornEnclosesNothing
<1>6. \A j \in 1 .. Depth' : (j \in 1 .. Depth /\ active'[j] = active[j]) \/ active'[j] = t
  <2>1. CASE Born(t)
    <3>1. active' = Append(active, t)
      BY <2>1 DEF Born
    <3>2. /\ Depth' = Depth + 1 /\ active'[Depth + 1] = t
          /\ \A j \in 1 .. Depth : active'[j] = active[j]
      BY <3>1, BornStack
    <3>3. QED BY <1>1, <3>2
  <2>2. CASE Stillborn(t)
    BY <2>2 DEF Stillborn, Depth
  <2>3. QED BY <2>1, <2>2
<1>7. \A v \in Tx : v # t => /\ fate'[v] = fate[v] /\ lineage'[v] = lineage[v]
                             /\ kind'[v] = kind[v] /\ reg'[v] = reg[v]
  <2>1. CASE Born(t)
    BY <2>1, StackFacts DEF Born, TypeOK
  <2>2. CASE Stillborn(t)
    BY <2>2 DEF Stillborn
  <2>3. QED BY <2>1, <2>2
<1> SUFFICES ASSUME NEW i \in 1 .. Height', NEW u \in session'.levels[i].writes
             PROVE  Placed(u, i)'
  BY DEF Writes
<1>8. i \in 1 .. H /\ u \in session.levels[i].writes /\ u \in Tx
  BY <1>2, <1>4
<1>9. Placed(u, i)
  BY <1>8 DEF Writes, H
<1>10. u # t /\ t \notin lineage[u] /\ lineage[u] \subseteq Tx
  BY <1>1, <1>8, <1>9, UnbornEnclosesNothing DEF Placed, TypeOK
<1>11. /\ fate'[u] = fate[u] /\ lineage'[u] = lineage[u]
       /\ \A v \in lineage[u] : fate'[v] = fate[v] /\ kind'[v] = kind[v] /\ reg'[v] = reg[v]
  BY <1>7, <1>8, <1>10
<1>12. ASSUME NEW j \in 1 .. Depth', NEW g \in 1 .. Height',
              kind'[active'[j]] = "nested", session'.levels[g].by = active'[j]
       PROVE  active'[j] \in lineage'[u] <=> g <= i
  <2>1. CASE j \in 1 .. Depth /\ active'[j] = active[j]
    <3>1. active[j] # t /\ kind[active[j]] = "nested"
      BY <1>5, <1>7, <1>12, <2>1
    <3>2. g \in 1 .. H /\ session.levels[g].by = active[j]
      BY <1>2, <1>4, <1>12, <2>1, <3>1
    <3>3. QED BY <1>9, <1>11, <2>1, <3>1, <3>2 DEF Placed, H
  <2>2. CASE active'[j] = t
    <3>1. g = H + 1
      BY <1>2, <1>4, <1>12, <2>2
    <3>2. QED BY <1>1, <1>8, <1>10, <1>11, <2>2, <3>1
  <2>3. QED BY <1>6, <2>1, <2>2
<1>13. QED BY <1>9, <1>11, <1>12 DEF Placed

-----------------------------------------------------------------------------
(* Steps: the session and the objects together.                            *)

\* What RollbackDiscardsOwn says of a step
Discarding ==
  open' =>
    \A u \in Pending(session) \ (Pending(session)' \cup durable') :
      lineage[u] # {} => \E v \in lineage[u] : fate'[v] \notin {"open", "committed"}

LEMMA CutStep ==
  ASSUME TypeOK, NEW m, NEW w, CutsBack(m, w)
  PROVE  /\ Height' = m /\ m \in 1 .. Height /\ open /\ open'
         /\ \A i \in 1 .. Height' : /\ session'.levels[i].by = session.levels[i].by
                                    /\ session'.levels[i].name = session.levels[i].name
         /\ \A i \in 1 .. Height' :
              session'.levels[i].writes = IF i = m THEN w ELSE session.levels[i].writes
<1>1. /\ Height \in Nat /\ m \in 1 .. Height /\ Height' = m /\ open /\ open'
      /\ \A i \in 1 .. m - 1 : session'.levels[i] = session.levels[i]
      /\ session'.levels[m] = [session.levels[m] EXCEPT !.writes = w]
  BY SessionFacts DEF CutsBack
<1>2. session.levels[m] \in [name : Names, by : Tx, writes : SUBSET Tx]
  BY <1>1, SessionFacts
<1>3. /\ session'.levels[m].by = session.levels[m].by
      /\ session'.levels[m].name = session.levels[m].name
      /\ session'.levels[m].writes = w
  BY <1>1, <1>2
<1>4. \A i \in 1 .. m : i = m \/ i \in 1 .. m - 1
  BY <1>1
<1>5. QED BY <1>1, <1>3, <1>4

\* The level of the current nested transaction is above those of the others.
LEMMA CurrentIsNewest ==
  ASSUME IInv, TypeOK, Savepoints, NEW t \in Tx, reg[t], current = t, Over(t), NEW i, Own(t, i),
         NEW j \in 1 .. Depth', NEW h \in 1 .. Height, session.levels[h].by = active[j]
  PROVE  h < i
<1>1. /\ Depth \in Nat \ {0} /\ Depth' = Depth - 1 /\ active[Depth] = t
  BY OverStack DEF Over, Top, Depth
<1>2. j \in 1 .. Depth /\ Depth \in 1 .. Depth /\ j < Depth
  BY <1>1
<1>3. i \in 1 .. Height /\ session.levels[i].by = active[Depth]
  BY <1>1, SessionFacts DEF Own
<1>4. QED BY <1>2, <1>3 DEF Savepoints

\* A nested transaction ends with a statement: RELEASE merges its level into
\* the one below, ROLLBACK TO empties it.
LEMMA LevelGoes ==
  ASSUME IInv, TypeOK, Lifetimes, Savepoints, Writes,
         NEW t \in Tx, reg[t], current = t, kind[t] = "nested", Over(t), EndsWell(t),
         NEW i, Own(t, i), NEW m, NEW w, CutsBack(m, w),
         \/ m = i /\ w = {}
         \/ m = i - 1 /\ w = UNION { session.levels[j].writes : j \in (i - 1) .. Height }
  PROVE  Savepoints' /\ Writes'
<1>1. /\ Height' = m /\ m \in 1 .. Height /\ open /\ open'
      /\ \A h \in 1 .. Height' : /\ session'.levels[h].by = session.levels[h].by
                                 /\ session'.levels[h].name = session.levels[h].name
      /\ \A h \in 1 .. Height' :
           session'.levels[h].writes = IF h = m THEN w ELSE session.levels[h].writes
  BY CutStep
<1>2. Height \in Nat /\ Height' \in 0 .. Height /\ i \in 2 .. Height /\ m >= i - 1
  BY <1>1, SessionFacts DEF Own
<1>3. Lower
  BY LowerFacts
<1>4. Savepoints'
  <2>1. ASSUME NEW j \in 1 .. Depth', NEW h \in 1 .. Height, session.levels[h].by = active[j]
        PROVE  h <= Height'
    <3>1. h < i
      BY <2>1, CurrentIsNewest
    <3>2. QED BY <1>1, <1>2, <3>1
  <2>2. QED BY <1>1, <1>2, <1>3, <2>1, SavepointsLower
<1>5. ASSUME NEW h \in 1 .. Height', NEW u \in session'.levels[h].writes
      PROVE  \E g \in h .. Height : u \in session.levels[g].writes /\ (g = h \/ h = Height')
  <2>1. CASE h # m
    <3>1. u \in session.levels[h].writes /\ h \in h .. Height
      BY <1>1, <1>2, <1>5, <2>1
    <3>2. QED BY <3>1
  <2>2. CASE h = m
    <3>1. u \in w /\ m = i - 1 /\ w = UNION { session.levels[j].writes : j \in (i - 1) .. Height }
      BY <1>1, <1>5, <2>2
    <3>2. PICK g \in (i - 1) .. Height : u \in session.levels[g].writes
      BY <3>1
    <3>3. QED BY <1>1, <2>2, <3>1, <3>2
  <2>3. QED BY <2>1, <2>2
<1>6. Writes'
  BY <1>1, <1>2, <1>5, WritesLower
<1>7. QED BY <1>4, <1>6

\* A statement that was refused or failed leaves all levels in place.
LEMMA LevelsStay ==
  ASSUME IInv, TypeOK, Lifetimes, Savepoints, Writes, Stays({}),
         NoneMoves \/ (\E t \in Tx : Stillborn(t) \/ (Over(t) /\ EndsWell(t)))
  PROVE  Savepoints' /\ Writes' /\ Pending(session)' = Pending(session)
<1>1. Height \in Nat /\ Height' = Height /\ open' = open
  BY SessionFacts DEF Stays
<1>2. Lower
  BY LowerFacts
<1>3. \A i \in 1 .. Height' : /\ session'.levels[i].by = session.levels[i].by
                              /\ session'.levels[i].name = session.levels[i].name
                              /\ session'.levels[i].writes = session.levels[i].writes
  <2> SUFFICES ASSUME NEW i \in 1 .. Height
               PROVE  /\ session'.levels[i].by = session.levels[i].by
                      /\ session'.levels[i].name = session.levels[i].name
                      /\ session'.levels[i].writes = session.levels[i].writes
    BY <1>1
  <2>1. /\ session'.levels[i].by = session.levels[i].by
        /\ session'.levels[i].name = session.levels[i].name
        /\ session.levels[i].writes \subseteq session'.levels[i].writes
        /\ session'.levels[i].writes \subseteq session.levels[i].writes \cup {}
    BY DEF Stays
  <2>2. session'.levels[i].writes = session.levels[i].writes
    BY <2>1
  <2>3. QED BY <2>1, <2>2
<1>4. Savepoints'
  BY <1>1, <1>2, <1>3, SavepointsLower
<1>5. \A i \in 1 .. Height' : \A u \in session'.levels[i].writes :
        \E h \in i .. Height : u \in session.levels[h].writes /\ (h = i \/ i = Height')
  BY <1>1, <1>3
<1>6. Writes'
  BY <1>1, <1>3, <1>5, WritesLower
<1>7. Pending(session)' = Pending(session)
  BY <1>1, <1>3 DEF Pending, Height
<1>8. QED BY <1>4, <1>6, <1>7

\* The session is empty.
LEMMA LevelsGone ==
  ASSUME IInv, TypeOK, Savepoints, Lower, Vanishes \/ Clears,
         open' => \A j \in 1 .. Depth' : kind[active[j]] # "nested"
  PROVE  Savepoints' /\ Writes' /\ Pending(session)' = {}
<1>1. Height' = 0 /\ Pending(session)' = {} /\ Height \in Nat /\ open
  BY EmptyFacts, SessionFacts DEF Vanishes, Clears
<1>2. Height' \in 0 .. Height /\ \A i \in 1 .. Height' : FALSE
  BY <1>1
<1>3. Savepoints'
  BY <1>1, <1>2, SavepointsLower
<1>4. Writes'
  BY <1>2 DEF Writes
<1>5. QED BY <1>1, <1>3, <1>4

LEMMA NestedRollsBack ==
  ASSUME IInv, TypeOK, Lifetimes, Block, Savepoints, Writes,
         NEW t \in Tx, reg[t], current = t, kind[t] = "nested", Over(t), NEW outcome \in Outcomes,
         Execute(Command("rollback_to", t, addr[t]), outcome),
         fate'[t] = RollbackFate(outcome)
  PROVE  /\ ServerTypeOK' /\ durable' = durable /\ (open' => open)
         /\ Block' /\ Savepoints' /\ Writes' /\ Discarding
         /\ fate'[t] # "committed"
<1>1. Depth \in 1 .. Depth /\ active[Depth] = t
  BY WriterPlaced
<1>2. Lower /\ open \in BOOLEAN
  BY LowerFacts DEF TypeOK
<1>3. PICK i : open => Own(t, i)
  BY <1>1 DEF Savepoints
<1>4. /\ ServerTypeOK' /\ durable' = durable
      /\ outcome \in {"done", "interrupted"} => CutsBack(i, {})
      /\ outcome = "refused" => Stays({})
      /\ outcome = "lost" => Vanishes
      /\ outcome # "error"
  BY <1>3, UndoEffect
<1>5. /\ fate'[t] \in {"rolled_back", "unfinished", "rollback_failed"}
      /\ outcome = "interrupted" \/ (outcome = "refused" /\ open) => fate'[t] = "unfinished"
  BY DEF RollbackFate, Unfinished
<1>6. fate'[t] \notin {"open", "committed"}
  BY <1>5
<1>7. CASE outcome \in {"done", "interrupted"}
  <2>1. CutsBack(i, {}) /\ open /\ Own(t, i) /\ Height \in Nat
    BY <1>3, <1>4, <1>7, SessionFacts DEF CutsBack
  <2>2. /\ Height' = i /\ i \in 1 .. Height
        /\ \A h \in 1 .. Height' :
             session'.levels[h].writes = IF h = i THEN {} ELSE session.levels[h].writes
    BY <2>1, CutStep
  <2>3. session.levels[i].by = active[Depth] /\ kind[active[Depth]] = "nested"
    BY <1>1, <2>1 DEF Own
  <2>4. ASSUME NEW u, NEW h \in 1 .. Height, u \in session.levels[h].writes
        PROVE  t \in lineage[u] <=> i <= h
    BY <1>1, <2>2, <2>3, <2>4 DEF Writes, Placed
  <2>5. EndsWell(t)
    <3> SUFFICES ASSUME NEW u \in Pending(session)', t \in lineage[u] PROVE FALSE
      BY DEF EndsWell
    <3>1. PICK h \in 1 .. Height' : u \in session'.levels[h].writes
      BY DEF Pending, Height
    <3>2. h # i /\ h \in 1 .. Height /\ u \in session.levels[h].writes /\ ~(i <= h)
      BY <2>1, <2>2, <3>1
    <3>3. QED BY <2>4, <3>2
  <2>6. Savepoints' /\ Writes'
    BY <2>1, <2>5, LevelGoes
  <2>7. Block'
    BY <1>2, <2>1, BlockLower
  <2>8. Discarding
    <3> SUFFICES ASSUME NEW u \in Pending(session), u \notin Pending(session)'
                 PROVE  t \in lineage[u]
      BY <1>6 DEF Discarding
    <3>1. PICK h \in 1 .. Height : u \in session.levels[h].writes
      BY PendingIsLevelled
    <3>2. CASE h < i
      <4>1. h \in 1 .. Height' /\ u \in session'.levels[h].writes
        BY <2>1, <2>2, <3>1, <3>2
      <4>2. QED BY <4>1 DEF Pending, Height
    <3>3. QED BY <2>1, <2>2, <2>4, <3>1, <3>2
  <2>9. QED BY <1>4, <1>6, <2>1, <2>6, <2>7, <2>8
<1>8. CASE outcome = "refused"
  <2>1. Stays({}) /\ open' = open
    BY <1>4, <1>8 DEF Stays
  <2>2. Pending(session)' = {} \/ fate'[t] = "unfinished"
    <3>1. CASE open
      BY <1>5, <1>8, <3>1
    <3>2. CASE ~open
      <4>1. Height' = 0
        BY <2>1, <3>2 DEF Block, Stays
      <4>2. QED BY <4>1 DEF Pending, Height
    <3>3. QED BY <3>1, <3>2
  <2>3. EndsWell(t)
    BY <2>2 DEF EndsWell, NotUndone
  <2>4. Savepoints' /\ Writes' /\ Pending(session)' = Pending(session)
    BY <2>1, <2>3, LevelsStay
  <2>5. Block' /\ Discarding
    BY <1>2, <2>1, <2>4, BlockLower DEF Discarding
  <2>6. QED BY <1>4, <1>6, <2>1, <2>4, <2>5
<1>9. CASE outcome = "lost"
  <2>1. Vanishes /\ ~open'
    BY <1>4, <1>9 DEF Vanishes
  <2>2. Savepoints' /\ Writes' /\ Block' /\ Discarding
    BY <1>2, <2>1, LevelsGone, BlockLower DEF Discarding
  <2>3. QED BY <1>4, <1>6, <2>1, <2>2
<1>10. QED BY <1>4, <1>7, <1>8, <1>9 DEF Outcomes

LEMMA NestedCommits ==
  ASSUME IInv, TypeOK, Lifetimes, Block, Savepoints, Writes,
         NEW t \in Tx, reg[t], current = t, kind[t] = "nested", Over(t), NEW outcome \in Outcomes,
         Execute(Command("release", t, addr[t]), outcome),
         fate'[t] = CommitFate(outcome)
  PROVE  /\ ServerTypeOK' /\ durable' = durable /\ (open' => open)
         /\ Block' /\ Savepoints' /\ Writes' /\ Discarding
         /\ fate'[t] = "committed" => open'
<1>1. Depth \in 1 .. Depth /\ active[Depth] = t
  BY WriterPlaced
<1>2. Lower /\ open \in BOOLEAN
  BY LowerFacts DEF TypeOK
<1>3. PICK i : open => Own(t, i)
  BY <1>1 DEF Savepoints
<1> DEFINE w == UNION { session.levels[j].writes : j \in (i - 1) .. Height }
<1>4. /\ ServerTypeOK' /\ durable' = durable
      /\ \/ CutsBack(i - 1, w)
            /\ session.xact = "in_transaction" /\ outcome \in {"done", "interrupted"}
         \/ Stays({}) /\ outcome \in {"error", "interrupted", "refused"}
         \/ Vanishes /\ outcome = "lost"
  BY <1>3, ReleaseEffect
<1>5. /\ outcome = "done" /\ session.xact = "in_transaction" => fate'[t] = "committed"
      /\ outcome # "done" => fate'[t] \in {"unfinished", "commit_failed"}
  BY DEF CommitFate, Unfinished
<1>6. kind[t] \notin {"top", "sub"}
  OBVIOUS
<1>7. CASE /\ CutsBack(i - 1, w) /\ session.xact = "in_transaction"
           /\ outcome \in {"done", "interrupted"}
  <2>1. open /\ open' /\ Own(t, i) /\ Height \in Nat /\ i \in 2 .. Height
    BY <1>3, <1>7, SessionFacts DEF CutsBack, Own
  <2>2. /\ Height' = i - 1 /\ i - 1 \in 1 .. Height
        /\ \A h \in 1 .. Height' :
             session'.levels[h].writes = IF h = i - 1 THEN w ELSE session.levels[h].writes
    BY <1>7, CutStep
  <2>3. EndsWell(t)
    BY <1>5, <1>6, <1>7 DEF EndsWell, NotUndone
  <2>4. Savepoints' /\ Writes'
    BY <1>7, <2>1, <2>3, LevelGoes
  <2>5. Block'
    BY <1>2, <1>7, BlockLower
  <2> HIDE DEF w
  <2>6. Pending(session) \subseteq Pending(session)'
    <3> SUFFICES ASSUME NEW u \in Pending(session) PROVE u \in Pending(session)'
      OBVIOUS
    <3>1. PICK h \in 1 .. Height : u \in session.levels[h].writes
      BY PendingIsLevelled
    <3>2. CASE h < i - 1
      <4>1. h \in 1 .. Height' /\ u \in session'.levels[h].writes
        BY <2>1, <2>2, <3>1, <3>2
      <4>2. QED BY <4>1 DEF Pending, Height
    <3>3. CASE h >= i - 1
      <4>1. u \in w
        BY <2>1, <3>1, <3>3 DEF w
      <4>2. i - 1 \in 1 .. Height' /\ u \in session'.levels[i - 1].writes
        BY <2>1, <2>2, <4>1
      <4>3. QED BY <4>2 DEF Pending, Height
    <3>4. QED BY <2>1, <3>2, <3>3
  <2>7. QED BY <1>4, <2>1, <2>4, <2>5, <2>6 DEF Discarding
<1>8. CASE Stays({}) /\ outcome \in {"error", "interrupted", "refused"}
  <2>1. fate'[t] \in {"unfinished", "commit_failed"}
    BY <1>5, <1>8
  <2>2. EndsWell(t)
    BY <2>1 DEF EndsWell, NotUndone
  <2>3. Savepoints' /\ Writes' /\ Pending(session)' = Pending(session)
    BY <1>8, <2>2, LevelsStay
  <2>4. Block' /\ open' = open
    BY <1>2, <1>8, BlockLower DEF Stays
  <2>5. QED BY <1>4, <2>1, <2>3, <2>4 DEF Discarding
<1>9. CASE Vanishes /\ outcome = "lost"
  <2>1. ~open' /\ open /\ fate'[t] # "committed"
    BY <1>5, <1>9 DEF Vanishes
  <2>2. Savepoints' /\ Writes' /\ Block'
    BY <1>2, <1>9, <2>1, LevelsGone, BlockLower
  <2>3. QED BY <1>4, <2>1, <2>2 DEF Discarding
<1>10. QED BY <1>4, <1>7, <1>8, <1>9

\* When the outermost transaction that is not a direct one is the current one,
\* no other is registered but a direct one.
LEMMA OutermostIsAlone ==
  ASSUME IInv, Lifetimes, NEW t \in Tx, reg[t], current = t, kind[t] \in {"top", "sub"}, Over(t)
  PROVE  \A j \in 1 .. Depth' : kind[active[j]] = "direct"
<1>1. /\ Depth \in Nat \ {0} /\ Depth' = Depth - 1 /\ active[Depth] = t
  BY OverStack DEF Over, Top, Depth
<1>2. \A j \in 1 .. Depth :
        kind[active[j]] \in IF j = 1 THEN {"direct", "top"}
                            ELSE IF j = 2 /\ kind[active[1]] = "direct" THEN {"sub"}
                            ELSE {"nested"}
  BY DEF Lifetimes, StackShape
<1>3. Depth = 1 \/ (Depth = 2 /\ kind[active[1]] = "direct")
  BY <1>1, <1>2
<1>4. QED BY <1>1, <1>3

\* Every pending write is enclosed by the outermost transaction, or by one that
\* has ended other than by a commit that returned.
LEMMA OutermostEnclosesAll ==
  ASSUME IInv, TypeOK, Lifetimes, Writes,
         NEW t \in Tx, reg[t], current = t, kind[t] \in {"top", "sub"}, Over(t),
         NEW u \in Pending(session), lineage[u] # {}, t \notin lineage[u]
  PROVE  \E v \in lineage[u] : fate'[v] \notin {"open", "committed"}
<1>1. PICK h \in 1 .. Height : u \in session.levels[h].writes
  BY PendingIsLevelled
<1>2. PICK v \in lineage[u] :
        fate[v] \notin {"open", "committed"} \/ (reg[v] /\ kind[v] \in {"top", "sub"})
  BY <1>1 DEF Writes, Placed
<1>3. u \in Tx /\ v \in Tx /\ v # t
  BY <1>1, SessionFacts DEF TypeOK
<1>4. fate'[v] = fate[v]
  BY <1>3 DEF Over
<1>5. ~(reg[v] /\ kind[v] \in {"top", "sub"})
  <2> SUFFICES ASSUME reg[v], kind[v] \in {"top", "sub"} PROVE FALSE
    OBVIOUS
  <2>1. PICK j \in 1 .. Depth : active[j] = v
    BY <1>3, StackFacts
  <2>2. Depth \in Nat \ {0} /\ Depth' = Depth - 1 /\ active[Depth] = t
    BY OverStack DEF Over, Top, Depth
  <2>3. j \in 1 .. Depth'
    BY <1>3, <2>1, <2>2
  <2>4. kind[active[j]] = "direct"
    BY <2>3, OutermostIsAlone
  <2>5. QED BY <2>1, <2>4
<1>6. QED BY <1>2, <1>4, <1>5

LEMMA OutermostRollsBack ==
  ASSUME IInv, TypeOK, Lifetimes, Block, Savepoints, Writes,
         NEW t \in Tx, reg[t], current = t, kind[t] \in {"top", "sub"}, Over(t),
         NEW outcome \in Outcomes,
         Execute(Command("rollback", t, NoAddr), outcome), fate'[t] = RollbackFate(outcome)
  PROVE  /\ ServerTypeOK' /\ durable' = durable /\ (open' => open)
         /\ Block' /\ Savepoints' /\ Writes' /\ Discarding
         /\ fate'[t] # "committed"
         /\ open' => Height' = 0 \/ fate'[t] = "unfinished"
<1>1. Depth \in 1 .. Depth /\ active[Depth] = t
  BY WriterPlaced
<1>2. Lower /\ open \in BOOLEAN /\ \A j \in 1 .. Depth' : kind[active[j]] = "direct"
  BY LowerFacts, OutermostIsAlone DEF TypeOK
<1>3. /\ ServerTypeOK' /\ durable' = durable
      /\ outcome \in {"done", "interrupted"} => Clears
      /\ outcome = "refused" => Stays({})
      /\ outcome = "lost" => Vanishes
      /\ outcome # "error"
  BY RollbackEffect
<1>4. /\ fate'[t] \in {"rolled_back", "unfinished", "rollback_failed"}
      /\ outcome = "interrupted" \/ (outcome = "refused" /\ open) => fate'[t] = "unfinished"
  BY DEF RollbackFate, Unfinished
<1>5. fate'[t] \notin {"open", "committed"}
  BY <1>4
<1>6. CASE outcome = "refused"
  <2>1. Stays({}) /\ open' = open
    BY <1>3, <1>6 DEF Stays
  <2>2. (Height' = 0 /\ Pending(session)' = {}) \/ fate'[t] = "unfinished"
    <3>1. CASE open
      BY <1>4, <1>6, <3>1
    <3>2. CASE ~open
      <4>1. Height' = 0
        BY <2>1, <3>2 DEF Block, Stays
      <4>2. QED BY <4>1 DEF Pending, Height
    <3>3. QED BY <3>1, <3>2
  <2>3. EndsWell(t)
    BY <2>2 DEF EndsWell, NotUndone
  <2>4. Savepoints' /\ Writes' /\ Pending(session)' = Pending(session)
    BY <2>1, <2>3, LevelsStay
  <2>5. Block' /\ Discarding
    BY <1>2, <2>1, <2>4, BlockLower DEF Discarding
  <2>6. QED BY <1>3, <1>5, <2>1, <2>2, <2>4, <2>5
<1>7. CASE outcome # "refused"
  <2>1. Vanishes \/ Clears
    BY <1>3, <1>7 DEF Outcomes
  <2>2. Savepoints' /\ Writes' /\ Pending(session)' = {} /\ Height' = 0 /\ open
    BY <1>2, <2>1, LevelsGone, EmptyFacts DEF Vanishes, Clears
  <2>3. Block'
    BY <1>2, <2>1, BlockLower
  <2>4. Discarding
    <3> SUFFICES ASSUME NEW u \in Pending(session), lineage[u] # {}
                 PROVE  \E v \in lineage[u] : fate'[v] \notin {"open", "committed"}
      BY DEF Discarding
    <3>1. QED BY <1>5, OutermostEnclosesAll
  <2>5. QED BY <1>3, <1>5, <2>2, <2>3, <2>4
<1>8. QED BY <1>6, <1>7

LEMMA OutermostCommits ==
  ASSUME IInv, TypeOK, Lifetimes, Block, Savepoints, Writes,
         NEW t \in Tx, reg[t], current = t, kind[t] \in {"top", "sub"}, Over(t),
         NEW outcome \in Outcomes,
         Execute(Command("commit", t, NoAddr), outcome), fate'[t] = CommitFate(outcome)
  PROVE  /\ ServerTypeOK' /\ (open' => open)
         /\ durable \subseteq durable' /\ durable' \subseteq durable \cup Pending(session)
         /\ durable' # durable => fate'[t] \in {"committed", "commit_failed", "unfinished"}
         /\ Block' /\ Savepoints' /\ Writes' /\ Discarding
         /\ fate'[t] = "committed" => open' /\ Pending(session) \subseteq durable'
         /\ open' => Height' = 0 \/ fate'[t] = "unfinished"
<1>1. Depth \in 1 .. Depth /\ active[Depth] = t
  BY WriterPlaced
<1>2. Lower /\ open \in BOOLEAN /\ \A j \in 1 .. Depth' : kind[active[j]] = "direct"
  BY LowerFacts, OutermostIsAlone DEF TypeOK
<1>3. /\ ServerTypeOK' /\ durable \subseteq durable'
      /\ durable' \subseteq durable \cup Pending(session)
      /\ outcome = "done" /\ session.xact = "in_transaction" =>
           durable' = durable \cup Pending(session)
      /\ outcome \in {"done", "error", "interrupted"} => Clears
      /\ outcome = "refused" => Stays({}) /\ durable' = durable
      /\ outcome = "lost" => Vanishes
      /\ durable' # durable => session.xact = "in_transaction"
  BY CommitEffect
<1>4. /\ fate'[t] \in {"committed", "discarded", "unfinished", "commit_failed"}
      /\ fate'[t] = "committed" <=> outcome = "done" /\ session.xact = "in_transaction"
      /\ fate'[t] = "discarded" => session.xact # "in_transaction"
      /\ outcome = "interrupted" \/ (outcome = "refused" /\ open) => fate'[t] = "unfinished"
  BY DEF CommitFate, Unfinished
<1>5. /\ durable' # durable => fate'[t] \in {"committed", "commit_failed", "unfinished"}
      /\ fate'[t] = "committed" => open' /\ Pending(session) \subseteq durable'
  BY <1>3, <1>4 DEF Clears
<1>6. CASE outcome = "refused"
  <2>1. Stays({}) /\ open' = open /\ fate'[t] # "committed"
    BY <1>3, <1>4, <1>6 DEF Stays
  <2>2. (Height' = 0 /\ Pending(session)' = {}) \/ fate'[t] = "unfinished"
    <3>1. CASE open
      BY <1>4, <1>6, <3>1
    <3>2. CASE ~open
      <4>1. Height' = 0
        BY <2>1, <3>2 DEF Block, Stays
      <4>2. QED BY <4>1 DEF Pending, Height
    <3>3. QED BY <3>1, <3>2
  <2>3. EndsWell(t)
    BY <2>2 DEF EndsWell, NotUndone
  <2>4. Savepoints' /\ Writes' /\ Pending(session)' = Pending(session)
    BY <2>1, <2>3, LevelsStay
  <2>5. Block' /\ Discarding
    BY <1>2, <2>1, <2>4, BlockLower DEF Discarding
  <2>6. QED BY <1>3, <1>5, <2>1, <2>2, <2>4, <2>5
<1>7. CASE outcome # "refused"
  <2>1. Vanishes \/ Clears
    BY <1>3, <1>7 DEF Outcomes
  <2>2. Savepoints' /\ Writes' /\ Pending(session)' = {} /\ Height' = 0 /\ open
    BY <1>2, <2>1, LevelsGone, EmptyFacts DEF Vanishes, Clears
  <2>3. Block'
    BY <1>2, <2>1, BlockLower
  <2>4. Discarding
    <3> SUFFICES ASSUME NEW u \in Pending(session), u \notin durable', lineage[u] # {}, open'
                 PROVE  \E v \in lineage[u] : fate'[v] \notin {"open", "committed"}
      BY DEF Discarding
    <3>1. fate'[t] \notin {"open", "committed"}
      BY <1>4, <1>5
    <3>2. QED BY <3>1, OutermostEnclosesAll
  <2>5. QED BY <1>3, <1>5, <2>2, <2>3, <2>4
<1>8. QED BY <1>6, <1>7

\* A lifetime ends without a statement: a direct transaction's does, and that
\* of an object whose destructor does not roll back.
LEMMA QuietlyEnds ==
  ASSUME IInv, TypeOK, Lifetimes, Block, Savepoints, Writes,
         NEW t \in Tx, reg[t], current = t, Over(t), UNCHANGED serverVars,
         (kind[t] = "direct" /\ fate'[t] = "ended") \/ fate'[t] = "abandoned"
  PROVE  /\ ServerTypeOK' /\ durable' = durable /\ open' = open /\ Height' = Height
         /\ Block' /\ Savepoints' /\ Writes' /\ Discarding
         /\ fate'[t] # "committed"
<1>1. Depth \in 1 .. Depth /\ active[Depth] = t
  BY WriterPlaced
<1>2. Stays({}) /\ Lower /\ open' = open /\ durable' = durable /\ Height' = Height
  BY SteadyStays, LowerFacts DEF serverVars, Height
<1>3. ServerTypeOK'
  BY DEF TypeOK, ServerTypeOK, serverVars, Names
<1>4. EndsWell(t)
  <2>1. CASE fate'[t] = "abandoned"
    BY <2>1 DEF EndsWell, NotUndone
  <2>2. CASE kind[t] = "direct"
    <3>1. lineage[t] = {}
      BY <1>1, <2>2 DEF Lifetimes, Lineages
    <3>2. Pending(session)' = Pending(session)
      BY DEF serverVars
    <3>3. ASSUME NEW u \in Pending(session) PROVE t \notin lineage[u]
      <4>1. PICK h \in 1 .. Height : u \in session.levels[h].writes
        BY PendingIsLevelled
      <4>2. u \in Tx
        BY <4>1, SessionFacts
      <4>3. QED BY <3>1, <4>2 DEF Lifetimes, Lineages
    <3>4. QED BY <3>2, <3>3 DEF EndsWell
  <2>3. QED BY <2>1, <2>2
<1>5. Savepoints' /\ Writes' /\ Pending(session)' = Pending(session)
  BY <1>2, <1>4, LevelsStay
<1>6. Block'
  BY <1>2, BlockLower
<1>7. QED BY <1>2, <1>3, <1>5, <1>6 DEF Discarding

-----------------------------------------------------------------------------
(* What has become durable.                                                *)

\* A write whose transactions are open or committed is durable, or it is
\* pending and one of them is open.
AckedOne(t) ==
  /\ lineage[t] # {} /\ (\A v \in lineage[t] : fate[v] \in {"open", "committed"}) =>
       \/ t \in durable
       \/ (\E v \in lineage[t] : fate[v] = "open") /\ (open => t \in Pending(session))
  /\ lineage[t] = {} /\ NothingLeftOpen => t \in durable

Acked == \A t \in wrote : AckedOne(t)

\* With direct transactions only, the server has no block open.
FreeIdle ==
  open /\ NothingLeftOpen /\ (\A j \in 1 .. Depth : kind[active[j]] = "direct") => Height = 0

\* Lifetimes that have ended, and what encloses an object, do not change.
Aging ==
  \A v \in Tx :
    /\ fate[v] # "unborn" => lineage'[v] = lineage[v] /\ fate'[v] # "unborn"
    /\ fate[v] \notin {"unborn", "open"} => fate'[v] = fate[v]

LEMMA AgingFacts ==
  ASSUME IInv, TypeOK, Lifetimes, NoneMoves \/ \E t \in Tx : Born(t) \/ Stillborn(t) \/ Over(t)
  PROVE  Aging
<1>1. CASE NoneMoves
  BY <1>1 DEF NoneMoves, Aging
<1>2. ASSUME NEW t \in Tx, Born(t) PROVE Aging
  BY <1>2 DEF Born, Aging, TypeOK
<1>3. ASSUME NEW t \in Tx, Stillborn(t) PROVE Aging
  BY <1>3 DEF Stillborn, Aging
<1>4. ASSUME NEW t \in Tx, Over(t) PROVE Aging
  BY <1>4 DEF Over, Aging, Lifetimes, Lives
<1>5. QED BY <1>1, <1>2, <1>3, <1>4

LEMMA DurableKept ==
  ASSUME TypeOK, Lifetimes, Aging, DurableWasCommitted,
         \A u \in durable' \ durable : \A v \in lineage'[u] :
           fate'[v] \in {"committed", "commit_failed", "unfinished", "abandoned"}
  PROVE  DurableWasCommitted'
<1>1. ASSUME NEW u \in durable, NEW v \in lineage'[u]
      PROVE  fate'[v] \in {"committed", "commit_failed", "unfinished", "abandoned"}
  <2>1. u \in Tx /\ fate[u] # "unborn" /\ lineage[u] \subseteq Tx
    BY DEF TypeOK, Lifetimes, Lives
  <2>2. v \in lineage[u] /\ v \in Tx
    BY <1>1, <2>1 DEF Aging
  <2>3. fate[v] \in {"committed", "commit_failed", "unfinished", "abandoned"}
    BY <2>2 DEF DurableWasCommitted
  <2>4. QED BY <2>2, <2>3 DEF Aging
<1>2. QED BY <1>1 DEF DurableWasCommitted

LEMMA AckedKept ==
  ASSUME TypeOK, Lifetimes, Aging, Discarding, Acked, durable \subseteq durable', open' => open,
         \A t \in wrote' : t \in wrote \/ AckedOne(t)',
         \A v \in Tx : fate[v] = "open" /\ fate'[v] = "committed" =>
           /\ open'
           /\ \/ Pending(session) \subseteq durable'
              \/ \E r \in lineage[v] : fate'[r] = "open"
  PROVE  Acked'
<1> SUFFICES ASSUME NEW t \in wrote PROVE AckedOne(t)'
  BY DEF Acked
<1>1. t \in Tx /\ fate[t] # "unborn" /\ lineage[t] \subseteq Tx /\ lineage'[t] = lineage[t] /\ AckedOne(t)
  BY DEF TypeOK, Lifetimes, Lives, Aging, Acked
<1>2. \A v \in lineage[t] : v \in Tx /\ fate[v] # "unborn" /\ lineage[v] \subseteq lineage[t]
  BY <1>1 DEF Lifetimes, Lives, Lineages
<1>3. ASSUME lineage[t] # {}, \A v \in lineage[t] : fate'[v] \in {"open", "committed"}
      PROVE  \/ t \in durable'
             \/ (\E v \in lineage[t] : fate'[v] = "open") /\ (open' => t \in Pending(session)')
  <2>1. \A v \in lineage[t] : fate[v] \in {"open", "committed"}
    BY <1>2, <1>3 DEF Aging
  <2>2. SUFFICES ASSUME t \notin durable'
                 PROVE (\E v \in lineage[t] : fate'[v] = "open") /\ (open' => t \in Pending(session)')
    OBVIOUS
  <2>3. (\E v \in lineage[t] : fate[v] = "open") /\ (open => t \in Pending(session))
    BY <1>1, <1>3, <2>1, <2>2 DEF AckedOne
  <2>4. open' => t \in Pending(session)'
    BY <1>3, <2>2, <2>3 DEF Discarding
  <2>5. PICK v \in lineage[t] : fate[v] = "open"
    BY <2>3
  <2>6. \E r \in lineage[t] : fate'[r] = "open"
    <3>1. CASE fate'[v] = "open"
      BY <2>5, <3>1
    <3>2. CASE fate'[v] = "committed"
      <4>1. open' /\ (Pending(session) \subseteq durable' \/ \E r \in lineage[v] : fate'[r] = "open")
        BY <1>2, <2>5, <3>2
      <4>2. t \in Pending(session)
        BY <2>3, <4>1
      <4>3. QED BY <1>2, <2>2, <2>5, <4>1, <4>2
    <3>3. QED BY <1>3, <2>5, <3>1, <3>2
  <2>7. QED BY <2>4, <2>6
<1>4. NothingLeftOpen' => NothingLeftOpen
  BY DEF NothingLeftOpen, Aging
<1>5. lineage[t] = {} /\ NothingLeftOpen' => t \in durable'
  BY <1>1, <1>4 DEF AckedOne
<1>6. QED BY <1>1, <1>3, <1>5 DEF AckedOne

TransactionInv ==
  /\ IInv /\ TypeOK /\ Lifetimes /\ Block /\ Savepoints /\ Writes
  /\ DurableWasCommitted /\ Acked /\ FreeIdle

\* Statements of the current transaction that do not end it: execute(), send()
\* and get_result()
LEMMA WriteStep ==
  ASSUME TransactionInv, IInv', NEW t \in Tx, reg[t], current = t,
         UNCHANGED << registryVars, addr, fate, lineage >>,
         ServerTypeOK', Vanishes \/ Stays({t}),
         durable \subseteq durable',
         durable' \subseteq durable \cup (IF open /\ Height = 0 THEN {t} ELSE {}),
         \/ wrote' = wrote
         \/ /\ wrote' = wrote \cup {t}
            /\ open'
            /\ Height = 0 => t \in durable'
            /\ Height # 0 => Stays({t}) /\ t \in session'.levels[Height].writes
  PROVE  TransactionInv' /\ Discarding
<1>1. /\ IInv /\ TypeOK /\ Lifetimes /\ Block /\ Savepoints /\ Writes
      /\ DurableWasCommitted /\ Acked /\ FreeIdle
  BY DEF TransactionInv
<1>2. NoneMoves /\ Lower /\ Aging
  <2>1. NoneMoves
    BY DEF registryVars, NoneMoves
  <2>2. QED BY <1>1, <2>1, LowerFacts, AgingFacts
<1>3. /\ Depth # 0 /\ Depth \in 1 .. Depth /\ active[Depth] = t
      /\ \A v \in lineage[t] : reg[v] /\ fate[v] = "open"
      /\ \A j \in 1 .. Depth : kind[active[j]] # "direct" => active[j] \in lineage[t]
      /\ kind[t] # "direct" => lineage[t] # {}
  BY <1>1, WriterPlaced
<1>4. Height \in Nat /\ open \in BOOLEAN /\ (open' => open) /\ fate[t] = "open"
  BY <1>1, SessionFacts DEF TypeOK, Vanishes, Stays, Lifetimes, Lives
<1>5. TypeOK'
  <2>1. wrote' \in SUBSET Tx
    BY <1>1 DEF TypeOK
  <2>2. QED BY <1>1, <2>1 DEF TypeOK, ServerTypeOK, IInv, Names
<1>6. Lifetimes'
  <2>1. \A u \in (wrote \cup durable)' : u \in wrote \cup durable \/ reg[u]
    OBVIOUS
  <2>2. (wrote \cup durable)' \subseteq Tx
    BY <1>5 DEF TypeOK
  <2>3. QED BY <1>1, <1>2, <2>1, <2>2, NoneLifetimes
<1>7. Block'
  BY <1>1, <1>2, BlockLower
<1>8. CASE Vanishes
  <2>1. ~open'
    BY <1>8 DEF Vanishes
  <2>2. Savepoints' /\ Writes'
    BY <1>1, <1>2, <1>8, <2>1, LevelsGone
  <2>3. QED
    <3>1. Discarding /\ FreeIdle'
      BY <2>1 DEF Discarding, FreeIdle
    <3>2. wrote' = wrote
      BY <2>1
    <3>3. ASSUME NEW u \in durable' \ durable, NEW v \in lineage'[u] PROVE FALSE
      <4>1. u = t /\ open /\ Height = 0
        BY <3>3
      <4>2. kind[t] # "direct"
        BY <1>1, <1>3, <3>3, <4>1 DEF Lifetimes, Lineages
      <4>3. QED BY <1>1, <1>3, <4>1, <4>2 DEF Block
    <3>4. DurableWasCommitted'
      BY <1>1, <1>2, <3>3, DurableKept
    <3>5. Acked'
      BY <1>1, <1>2, <1>4, <3>1, <3>2, AckedKept
    <3>6. QED BY <1>5, <1>6, <1>7, <2>2, <3>1, <3>4, <3>5 DEF TransactionInv
<1>9. CASE Stays({t})
  <2>1. /\ Height' = Height /\ open' = open
        /\ \A i \in 1 .. Height : /\ session'.levels[i].by = session.levels[i].by
                                  /\ session'.levels[i].name = session.levels[i].name
                                  /\ session.levels[i].writes \subseteq session'.levels[i].writes
    BY <1>9 DEF Stays
  <2>2. Savepoints'
    BY <1>1, <1>2, <1>4, <2>1, SavepointsLower
  <2>3. Writes'
    BY <1>1, <1>2, <1>9, WritesAdded
  <2>4. Pending(session) \subseteq Pending(session)'
    BY <2>1 DEF Pending, Height
  <2>5. Discarding
    BY <2>4 DEF Discarding
  <2>6. FreeIdle'
    <3>1. Depth' = Depth /\ \A j \in 1 .. Depth : kind'[active'[j]] = kind[active[j]]
      BY DEF registryVars, Depth
    <3>2. NothingLeftOpen' <=> NothingLeftOpen
      BY DEF NothingLeftOpen
    <3>3. QED BY <1>1, <2>1, <3>1, <3>2 DEF FreeIdle
  <2>7. ASSUME NEW u \in durable' \ durable, NEW v \in lineage'[u] PROVE FALSE
    <3>1. u = t /\ open /\ Height = 0
      BY <2>7
    <3>2. kind[t] # "direct"
      BY <1>1, <1>3, <2>7, <3>1 DEF Lifetimes, Lineages
    <3>3. QED BY <1>1, <1>3, <3>1, <3>2 DEF Block
  <2>8. DurableWasCommitted'
    BY <1>1, <1>2, <2>7, DurableKept
  <2>9. ASSUME wrote' = wrote \cup {t}, open',
               Height = 0 => t \in durable',
               Height # 0 => t \in session'.levels[Height].writes
        PROVE  AckedOne(t)'
    <3>1. Height # 0 => t \in Pending(session)'
      <4>1. Height # 0 => Height \in 1 .. Height'
        BY <1>4, <2>1
      <4>2. QED BY <2>9, <4>1 DEF Pending, Height
    <3>2. lineage[t] # {} => \E v \in lineage'[t] : fate'[v] = "open"
      BY <1>3
    <3>3. ASSUME lineage[t] = {}, NothingLeftOpen PROVE Height = 0
      <4>1. \A j \in 1 .. Depth : kind[active[j]] = "direct"
        BY <1>3, <3>3
      <4>2. QED BY <1>1, <1>4, <2>1, <2>9, <3>3, <4>1 DEF FreeIdle
    <3>4. NothingLeftOpen' <=> NothingLeftOpen
      BY DEF NothingLeftOpen
    <3>5. lineage'[t] = lineage[t]
      OBVIOUS
    <3>6. QED BY <2>9, <3>1, <3>2, <3>3, <3>4, <3>5 DEF AckedOne
  <2>10. \A u \in wrote' : u \in wrote \/ AckedOne(u)'
    BY <2>9
  <2>11. Acked'
    BY <1>1, <1>2, <1>4, <2>5, <2>10, AckedKept
  <2>12. QED BY <1>5, <1>6, <1>7, <2>2, <2>3, <2>5, <2>6, <2>8, <2>11 DEF TransactionInv
<1>10. QED BY <1>8, <1>9

\* A handle is dropped, or an object is destroyed whose lifetime has ended.
LEMMA QuietStep ==
  ASSUME TransactionInv, IInv', NoneMoves, UNCHANGED << serverVars, historyVars >>
  PROVE  TransactionInv' /\ Discarding
<1>1. /\ IInv /\ TypeOK /\ Lifetimes /\ Block /\ Savepoints /\ Writes
      /\ DurableWasCommitted /\ Acked /\ FreeIdle
  BY DEF TransactionInv
<1>2. /\ session' = session /\ open' = open /\ unread' = unread /\ durable' = durable
      /\ addr' = addr /\ wrote' = wrote /\ fate' = fate /\ lineage' = lineage
  BY DEF serverVars, historyVars
<1>3. Lower /\ Aging
  BY <1>1, LowerFacts, AgingFacts
<1>4. TypeOK'
  BY <1>1, <1>2 DEF TypeOK, IInv
<1>5. Lifetimes'
  <2>1. \A u \in (wrote \cup durable)' : u \in wrote \cup durable \/ reg[u]
    BY <1>2
  <2>2. (wrote \cup durable)' \subseteq Tx
    BY <1>1, <1>2 DEF TypeOK
  <2>3. QED BY <1>1, <2>1, <2>2, NoneLifetimes
<1>6. Stays({})
  BY <1>1, <1>2, SteadyStays
<1>7. Savepoints' /\ Writes'
  BY <1>1, <1>6, LevelsStay
<1>8. Block'
  BY <1>1, <1>3, <1>6, BlockLower
<1>9. Discarding
  BY <1>2 DEF Discarding
<1>10. DurableWasCommitted' /\ Acked'
  BY <1>1, <1>2 DEF DurableWasCommitted, Acked, AckedOne, NothingLeftOpen
<1>11. FreeIdle'
  <2>1. /\ Depth' = Depth /\ Height' = Height
        /\ \A j \in 1 .. Depth : kind'[active'[j]] = kind[active[j]]
    BY <1>2 DEF NoneMoves, Depth, Height
  <2>2. QED BY <1>1, <1>2, <2>1 DEF FreeIdle, NothingLeftOpen
<1>12. QED BY <1>4, <1>5, <1>7, <1>8, <1>9, <1>10, <1>11 DEF TransactionInv

LEMMA StillbornStep ==
  ASSUME TransactionInv, IInv', NEW t \in Tx, Stillborn(t),
         NEW outcome \in Outcomes, outcome # "done", fate'[t] = BirthFate(outcome),
         ServerTypeOK', durable' = durable, wrote' = wrote,
         fate' \in [Tx -> Fates], lineage' \in [Tx -> SUBSET Tx],
         NEW a \in Names, \A j \in 1 .. Depth : kind[active[j]] = "nested" => addr[active[j]] # a,
         Vanishes \/ Stays({}) \/ Grows(t, a),
         outcome \in {"error", "refused", "lost"} => Vanishes \/ Stays({})
  PROVE  TransactionInv' /\ Discarding
<1>1. /\ IInv /\ TypeOK /\ Lifetimes /\ Block /\ Savepoints /\ Writes
      /\ DurableWasCommitted /\ Acked /\ FreeIdle
  BY DEF TransactionInv
<1>2. Lower /\ Aging
  BY <1>1, LowerFacts, AgingFacts
<1>3. /\ addr' = addr /\ active' = active /\ kind' = kind /\ Depth' = Depth
      /\ fate[t] = "unborn" /\ fate'[t] \notin {"unborn", "open"}
      /\ \A u \in Tx : u # t => fate'[u] = fate[u] /\ lineage'[u] = lineage[u]
  BY DEF Stillborn, Depth
<1>4. TypeOK'
  BY <1>1, <1>3 DEF TypeOK, IInv, ServerTypeOK, Names
<1>5. Lifetimes'
  BY <1>1, StillbornLifetimes
<1>6. Block'
  BY <1>1, <1>2, BlockLower
<1>7. /\ Savepoints' /\ Writes' /\ (open' => open)
      /\ open' => Pending(session) \subseteq Pending(session)'
  <2>1. CASE Vanishes
    <3>1. ~open' /\ open
      BY <2>1 DEF Vanishes
    <3>2. QED BY <1>1, <1>2, <2>1, <3>1, LevelsGone
  <2>2. CASE Stays({})
    <3>1. open' = open
      BY <2>2 DEF Stays
    <3>2. QED BY <1>1, <2>2, <3>1, LevelsStay
  <2>3. CASE Grows(t, a)
    <3>1. \A j \in 1 .. Depth : active[j] # t
      BY <1>1, <1>3, StackFacts, UnbornEnclosesNothing
    <3>2. Savepoints'
      BY <1>1, <1>2, <1>3, <2>3, <3>1, SavepointsGrown DEF Lower
    <3>3. Writes'
      BY <1>1, <2>3, WritesBegun
    <3>4. /\ Height \in Nat /\ Height' = Height + 1 /\ open
          /\ \A i \in 1 .. Height : session'.levels[i] = session.levels[i]
      BY <1>1, <2>3, SessionFacts DEF Grows
    <3>5. \A i \in 1 .. Height : i \in 1 .. Height'
      BY <3>4
    <3>6. Pending(session) \subseteq Pending(session)'
      BY <3>4, <3>5 DEF Pending, Height
    <3>7. QED BY <3>2, <3>3, <3>4, <3>6
  <2>4. QED BY <2>1, <2>2, <2>3
<1>8. Discarding
  BY <1>7 DEF Discarding
<1>9. DurableWasCommitted'
  BY <1>1, <1>2, DurableKept
<1>10. Acked'
  <2>1. \A v \in Tx : ~(fate[v] = "open" /\ fate'[v] = "committed")
    BY <1>3
  <2>2. QED BY <1>1, <1>2, <1>7, <1>8, <2>1, AckedKept
<1>11. FreeIdle'
  <2>1. CASE fate'[t] = "unfinished"
    BY <2>1 DEF FreeIdle, NothingLeftOpen
  <2>2. CASE fate'[t] # "unfinished"
    <3>1. Vanishes \/ Stays({})
      BY <2>2 DEF BirthFate, Unfinished, Outcomes
    <3>2. CASE Vanishes
      BY <3>2 DEF FreeIdle, Vanishes
    <3>3. CASE Stays({})
      <4>1. NothingLeftOpen' => NothingLeftOpen
        BY <1>2 DEF NothingLeftOpen, Aging
      <4>2. QED BY <1>1, <1>3, <3>3, <4>1 DEF FreeIdle, Stays
    <3>4. QED BY <3>1, <3>2, <3>3
  <2>3. QED BY <2>1, <2>2
<1>12. QED BY <1>4, <1>5, <1>6, <1>7, <1>8, <1>9, <1>10, <1>11 DEF TransactionInv

LEMMA BornStep ==
  ASSUME TransactionInv, IInv', NEW t \in Tx, Born(t),
         ServerTypeOK', durable' = durable, wrote' = wrote,
         addr' \in [Tx -> Names], fate' \in [Tx -> Fates], lineage' \in [Tx -> SUBSET Tx],
         NEW a \in Names, \A j \in 1 .. Depth : kind[active[j]] = "nested" => addr[active[j]] # a,
         kind'[t] = "nested" => addr'[t] = a /\ Height # 0 /\ Grows(t, a),
         \/ kind'[t] = "direct" /\ Stays({})
         \/ kind'[t] # "direct" /\ open' /\ session'.xact # "idle" /\ (Grows(t, a) \/ Stays({}))
  PROVE  TransactionInv' /\ Discarding
<1>1. /\ IInv /\ TypeOK /\ Lifetimes /\ Block /\ Savepoints /\ Writes
      /\ DurableWasCommitted /\ Acked /\ FreeIdle
  BY DEF TransactionInv
<1>2. Aging
  BY <1>1, AgingFacts
<1>3. /\ Depth \in Nat /\ Height \in Nat
      /\ Depth' = Depth + 1 /\ active'[Depth + 1] = t
      /\ \A j \in 1 .. Depth : active'[j] = active[j]
      /\ fate[t] = "unborn" /\ fate'[t] = "open"
  <2>1. active' = Append(active, t) /\ fate[t] = "unborn" /\ fate'[t] = "open"
    BY <1>1 DEF Born, TypeOK
  <2>2. QED BY <1>1, <2>1, BornStack, StackFacts, SessionFacts
<1>4. \A j \in 1 .. Depth : active[j] \in Tx /\ active[j] # t
  BY <1>1, <1>3, StackFacts, UnbornEnclosesNothing
<1>5. \A j \in 1 .. Depth : kind'[active[j]] = kind[active[j]] /\ addr'[active[j]] = addr[active[j]]
  BY <1>4 DEF Born
<1>6. \A u \in Tx : u # t => fate'[u] = fate[u]
  BY <1>1 DEF Born, TypeOK
<1>7. kind'[t] = "direct" => Depth = 0
  BY <1>1, StackFacts DEF Born, SubKind
<1>8. TypeOK'
  BY <1>1 DEF TypeOK, IInv, ServerTypeOK, Names
<1>9. Lifetimes'
  BY <1>1, BornLifetimes
<1>10. Block'
  <2>1. CASE kind'[t] = "direct" /\ Stays({})
    <3>1. \A j \in 1 .. Depth' : kind'[active'[j]] = "direct"
      BY <1>3, <1>7, <2>1
    <3>2. QED BY <1>1, <2>1, <3>1, BlockBorn
  <2>2. CASE open' /\ session'.xact # "idle" /\ (Grows(t, a) \/ Stays({}))
    BY <1>1, <2>2, BlockBorn
  <2>3. QED BY <2>1, <2>2
<1>11. Grows(t, a) \/ Stays({})
  OBVIOUS
<1>12. Savepoints'
  <2>1. CASE Grows(t, a)
    BY <1>1, <1>3, <1>4, <1>5, <1>6, <2>1, SavepointsGrown
  <2>2. CASE Stays({}) /\ ~Grows(t, a)
    BY <1>1, <1>3, <1>5, <1>6, <2>2, SavepointsBorn
  <2>3. QED BY <1>11, <2>1, <2>2
<1>13. Writes'
  BY <1>1, <1>11, WritesBegun
<1>14. (open' => open) /\ Pending(session) \subseteq Pending(session)'
  <2>1. CASE Grows(t, a)
    <3>1. /\ Height' = Height + 1 /\ open
          /\ \A i \in 1 .. Height : session'.levels[i] = session.levels[i]
      BY <2>1 DEF Grows
    <3>2. \A i \in 1 .. Height : i \in 1 .. Height'
      BY <1>3, <3>1
    <3>3. QED BY <3>1, <3>2 DEF Pending, Height
  <2>2. CASE Stays({})
    <3>1. /\ Height' = Height /\ open' = open
          /\ \A i \in 1 .. Height : session.levels[i].writes \subseteq session'.levels[i].writes
      BY <2>2 DEF Stays
    <3>2. QED BY <3>1 DEF Pending, Height
  <2>3. QED BY <1>11, <2>1, <2>2
<1>15. Discarding
  BY <1>14 DEF Discarding
<1>16. DurableWasCommitted'
  BY <1>1, <1>2, DurableKept
<1>17. Acked'
  <2>1. \A v \in Tx : ~(fate[v] = "open" /\ fate'[v] = "committed")
    BY <1>3, <1>6
  <2>2. QED BY <1>1, <1>2, <1>14, <1>15, <2>1, AckedKept
<1>18. FreeIdle'
  <2>1. CASE kind'[t] # "direct"
    <3>1. Depth + 1 \in 1 .. Depth' /\ kind'[active'[Depth + 1]] # "direct"
      BY <1>3, <2>1
    <3>2. QED BY <3>1 DEF FreeIdle
  <2>2. CASE kind'[t] = "direct"
    <3>1. Stays({})
      BY <2>2
    <3>2. NothingLeftOpen' => NothingLeftOpen
      BY <1>2 DEF NothingLeftOpen, Aging
    <3>3. open /\ NothingLeftOpen => Height = 0
      BY <1>1, <1>7, <2>2 DEF FreeIdle
    <3>4. QED BY <3>1, <3>2, <3>3 DEF FreeIdle, Stays
  <2>3. QED BY <2>1, <2>2
<1>19. QED
  BY <1>8, <1>9, <1>10, <1>12, <1>13, <1>15, <1>16, <1>17, <1>18 DEF TransactionInv

\* The lifetime of the current transaction ends: commit(), rollback() or the
\* destructor.
LEMMA OverStep ==
  ASSUME TransactionInv, IInv', NEW t \in Tx, reg[t], current = t, Over(t),
         ServerTypeOK', wrote' = wrote, fate' \in [Tx -> Fates],
         Block', Savepoints', Writes', Discarding, open' => open,
         durable \subseteq durable', durable' \subseteq durable \cup Pending(session),
         durable' # durable =>
           /\ kind[t] \in {"top", "sub"}
           /\ fate'[t] \in {"committed", "commit_failed", "unfinished"},
         fate'[t] = "committed" =>
           open' /\ (Pending(session) \subseteq durable' \/ kind[t] = "nested"),
         \/ kind[t] = "nested"
         \/ fate'[t] \in {"unfinished", "abandoned"}
         \/ kind[t] = "direct" /\ open' = open /\ Height' = Height
         \/ open' => Height' = 0
  PROVE  TransactionInv' /\ Discarding
<1>1. /\ IInv /\ TypeOK /\ Lifetimes /\ Block /\ Savepoints /\ Writes
      /\ DurableWasCommitted /\ Acked /\ FreeIdle
  BY DEF TransactionInv
<1>2. Aging
  BY <1>1, AgingFacts
<1>3. /\ addr' = addr /\ lineage' = lineage
      /\ \A u \in Tx : u # t => fate'[u] = fate[u] /\ kind'[u] = kind[u]
      /\ Depth \in Nat \ {0} /\ Depth' = Depth - 1 /\ active[Depth] = t
      /\ \A j \in 1 .. Depth' : active'[j] = active[j] /\ j \in 1 .. Depth /\ j # Depth
  BY <1>1, OverStack DEF Over, Top, Depth
<1>4. TypeOK'
  BY <1>1, <1>3 DEF TypeOK, IInv, ServerTypeOK, Names
<1>5. ASSUME NEW u \in Pending(session), NEW v \in lineage[u]
      PROVE  v \in Tx /\ v \in lineage[v] /\ fate[v] \in NotUndone /\ fate[u] # "unborn" /\ u \in Tx
  <2>1. PICK i \in 1 .. Height : u \in session.levels[i].writes
    BY PendingIsLevelled
  <2>2. u \in Tx /\ lineage[u] \subseteq Tx
    <3>1. session.levels[i].writes \in SUBSET Tx
      BY <1>1, SessionFacts
    <3>2. u \in Tx
      BY <2>1, <3>1
    <3>3. QED BY <1>1, <3>2 DEF TypeOK
  <2>3. Placed(u, i)
    BY <1>1, <2>1 DEF Writes
  <2>4. QED BY <1>1, <1>5, <2>2, <2>3 DEF Placed, Lifetimes, Lineages
<1>6. Lifetimes'
  <2>1. ASSUME NEW u \in Pending(session) PROVE fate[u] # "unborn"
    <3>1. PICK i \in 1 .. Height : u \in session.levels[i].writes
      BY PendingIsLevelled
    <3>2. QED BY <1>1, <3>1 DEF Writes, Placed
  <2>2. \A u \in durable' : fate[u] # "unborn"
    BY <1>1, <2>1 DEF Lifetimes, Lives
  <2>3. durable' \subseteq Tx
    BY DEF ServerTypeOK
  <2>4. QED BY <1>1, <2>2, <2>3, OverLifetimes
<1>7. DurableWasCommitted'
  <2>1. ASSUME NEW u \in durable' \ durable, NEW v \in lineage'[u]
        PROVE  fate'[v] \in {"committed", "commit_failed", "unfinished", "abandoned"}
    <3>1. /\ u \in Pending(session) /\ v \in lineage[u]
          /\ kind[t] \in {"top", "sub"} /\ fate'[t] \in {"committed", "commit_failed", "unfinished"}
      BY <1>3, <2>1
    <3>2. v \in Tx /\ v \in lineage[v] /\ fate[v] \in NotUndone
      BY <1>5, <3>1
    <3>3. ASSUME v # t, fate[v] = "open" PROVE FALSE
      <4>1. PICK j \in 1 .. Depth : active[j] = v
        BY <1>1, <3>2, <3>3, StackFacts DEF Lifetimes, Lives
      <4>2. j \in 1 .. Depth'
        BY <1>3, <3>3, <4>1
      <4>3. kind[active[j]] = "direct"
        BY <1>1, <3>1, <4>2, OutermostIsAlone
      <4>4. QED BY <1>1, <3>2, <4>1, <4>3 DEF Lifetimes, Lineages
    <3>4. QED BY <1>3, <3>1, <3>2, <3>3 DEF NotUndone
  <2>2. QED BY <1>1, <1>2, <2>1, DurableKept
<1>8. Acked'
  <2>1. ASSUME kind[t] = "nested" PROVE \E r \in lineage[t] : fate'[r] = "open"
    <3>1. PICK r \in lineage[t] : reg[r] /\ kind[r] \in {"top", "sub"}
      BY <1>1, <2>1, WriterPlaced
    <3>2. fate[r] = "open" /\ r # t /\ r \in Tx
      BY <1>1, <2>1, <3>1, WriterPlaced DEF TypeOK
    <3>3. QED BY <1>3, <3>1, <3>2
  <2>2. \A v \in Tx : fate[v] = "open" /\ fate'[v] = "committed" =>
           /\ open'
           /\ \/ Pending(session) \subseteq durable'
              \/ \E r \in lineage[v] : fate'[r] = "open"
    BY <1>3, <2>1
  <2>3. \A u \in wrote' : u \in wrote \/ AckedOne(u)'
    OBVIOUS
  <2>4. QED BY <1>1, <1>2, <2>2, <2>3, AckedKept
<1>9. FreeIdle'
  <2>1. CASE kind[t] = "nested"
    <3>1. PICK j \in 1 .. Depth' : kind[active[j]] # "direct"
      <4>1. kind[active[Depth]] \in IF Depth = 1 THEN {"direct", "top"}
                                    ELSE IF Depth = 2 /\ kind[active[1]] = "direct" THEN {"sub"}
                                    ELSE {"nested"}
        BY <1>1, <1>3 DEF Lifetimes, StackShape
      <4>2. Depth # 1 /\ (Depth = 2 => kind[active[1]] # "direct")
        BY <1>3, <2>1, <4>1
      <4>3. CASE Depth = 2
        BY <1>3, <4>2, <4>3
      <4>4. CASE Depth > 2
        <5>1. 2 \in 1 .. Depth /\ 2 \in 1 .. Depth'
          BY <1>3, <4>4
        <5>2. kind[active[2]] # "direct"
          BY <1>1, <5>1 DEF Lifetimes, StackShape
        <5>3. QED BY <5>1, <5>2
      <4>5. QED BY <1>3, <4>2, <4>3, <4>4
    <3>2. kind'[active'[j]] = kind[active[j]]
      <4>1. active[j] \in Tx /\ active[j] # t
        BY <1>1, <1>3, StackFacts
      <4>2. QED BY <1>3, <4>1
    <3>3. QED BY <3>1, <3>2 DEF FreeIdle
  <2>2. CASE fate'[t] \in {"unfinished", "abandoned"}
    BY <2>2 DEF FreeIdle, NothingLeftOpen
  <2>3. CASE kind[t] = "direct" /\ open' = open /\ Height' = Height
    <3>1. Depth = 1
      <4>1. kind[active[Depth]] \in IF Depth = 1 THEN {"direct", "top"}
                                    ELSE IF Depth = 2 /\ kind[active[1]] = "direct" THEN {"sub"}
                                    ELSE {"nested"}
        BY <1>1, <1>3 DEF Lifetimes, StackShape
      <4>2. QED BY <1>3, <2>3, <4>1
    <3>2. NothingLeftOpen' => NothingLeftOpen
      BY <1>2 DEF NothingLeftOpen, Aging
    <3>3. \A j \in 1 .. Depth : kind[active[j]] = "direct"
      BY <1>3, <2>3, <3>1
    <3>4. QED BY <1>1, <2>3, <3>2, <3>3 DEF FreeIdle
  <2>4. CASE open' => Height' = 0
    BY <2>4 DEF FreeIdle
  <2>5. QED BY <2>1, <2>2, <2>3, <2>4
<1>10. QED BY <1>4, <1>6, <1>7, <1>8, <1>9 DEF TransactionInv


-----------------------------------------------------------------------------
(* The actions.                                                            *)

\* Every step keeps the invariant and discards no write but those of the
\* transaction it ends.
Kept == TransactionInv' /\ Discarding

LEMMA ConstructIsBorn ==
  ASSUME IInv, TypeOK, NEW t \in Tx, NEW k, Construct(t, k), fate[t] = "unborn",
         Becomes(t, "open"),
         \A u \in Tx \ {t} : addr'[u] = addr[u] /\ lineage'[u] = lineage[u],
         IF active = <<>>
           THEN (k = "direct" /\ lineage'[t] = {}) \/ (k = "top" /\ lineage'[t] = {t})
           ELSE k = SubKind(Top) /\ lineage'[t] = {t} \cup lineage[Top]
  PROVE  Born(t) /\ kind'[t] = k
<1>1. kind' = [kind EXCEPT ![t] = k] /\ kind \in [Tx -> Kinds \cup {"none"}]
  BY DEF Construct, IInv, RegistryTypeOK
<1>2. kind'[t] = k /\ \A u \in Tx \ {t} : kind'[u] = kind[u]
  BY <1>1
<1>3. active' = Append(active, t) /\ reg' = [reg EXCEPT ![t] = TRUE]
  BY DEF Construct
<1>4. fate' = [fate EXCEPT ![t] = "open"]
  BY DEF Becomes
<1>5. QED BY <1>2, <1>3, <1>4 DEF Born

\* The current transaction is the one on top, and is registered.
LEMMA CurrentFacts ==
  ASSUME IInv, NEW p \in Tx, IsCurrent(p)
  PROVE  active # <<>> /\ Top = p /\ reg[p] /\ current = p /\ p \in alive
BY TopFacts, NoTxAssumption DEF IsCurrent, Top

LEMMA GivenUpIsStillborn ==
  ASSUME TypeOK, NEW t \in Tx, NEW outcome \in Outcomes, outcome # "done", fate[t] = "unborn",
         UNCHANGED << registryVars, addr >>, Becomes(t, BirthFate(outcome)),
         NEW L, L = IF active = <<>> THEN {} ELSE lineage[Top],
         lineage' = [lineage EXCEPT ![t] = {t} \cup L]
  PROVE  Stillborn(t) /\ fate'[t] = BirthFate(outcome) /\ fate' \in [Tx -> Fates]
<1>1. BirthFate(outcome) \in {"unfinished", "stillborn"}
  BY DEF BirthFate
<1>2. /\ fate'[t] = BirthFate(outcome) /\ fate' \in [Tx -> Fates]
      /\ \A u \in Tx \ {t} : fate'[u] = fate[u]
  BY <1>1 DEF Becomes, TypeOK, Fates
<1>3. lineage'[t] = {t} \cup L /\ \A u \in Tx \ {t} : lineage'[u] = lineage[u]
  BY DEF TypeOK
<1>4. QED BY <1>1, <1>2, <1>3 DEF Stillborn, registryVars

LEMMA BeginDirectStep ==
  ASSUME TransactionInv, IInv', NEW t \in Tx, BeginDirect(t)
  PROVE  Kept
<1>1. /\ IInv /\ TypeOK /\ active = <<>> /\ Depth = 0
  BY TopFacts, StackFacts DEF TransactionInv, BeginDirect, Begin
<1>2. /\ Construct(t, "direct") /\ fate[t] = "unborn" /\ Becomes(t, "open")
      /\ session' = session /\ open' = open /\ unread' = unread /\ durable' = durable
      /\ addr' = addr /\ wrote' = wrote /\ lineage' = lineage
  BY DEF BeginDirect, Begin, serverVars
<1>3. lineage'[t] = {}
  BY <1>2 DEF TransactionInv, Lifetimes, Lives
<1>4. Born(t) /\ kind'[t] = "direct"
  BY <1>1, <1>2, <1>3, ConstructIsBorn
<1>5. Stays({})
  BY <1>1, <1>2, SteadyStays
<1>6. ServerTypeOK'
  BY <1>1, <1>2 DEF TypeOK, ServerTypeOK, Names
<1>7. addr' \in [Tx -> Names] /\ fate' \in [Tx -> Fates] /\ lineage' \in [Tx -> SUBSET Tx]
  BY <1>1, <1>2 DEF TypeOK, Names, Becomes, Fates
<1>8. NoAddr \in Names
  BY DEF Names
<1>9. \A j \in 1 .. Depth : kind[active[j]] = "nested" => addr[active[j]] # NoAddr
  BY <1>1
<1>10. QED BY <1>2, <1>4, <1>5, <1>6, <1>7, <1>8, <1>9, BornStep DEF Kept

\* START TRANSACTION: on the connection, or within a direct transaction
LEMMA StartStep ==
  ASSUME TransactionInv, IInv', NEW t \in Tx, NEW outcome \in Outcomes, NEW k \in {"top", "sub"},
         fate[t] = "unborn",
         Execute(Command("start", t, NoAddr), outcome),
         IF outcome = "done" THEN Construct(t, k) ELSE UNCHANGED registryVars,
         Becomes(t, BirthFate(outcome)),
         lineage' = [lineage EXCEPT ![t] = {t}],
         UNCHANGED << addr, wrote >>,
         IF active = <<>> THEN k = "top" ELSE k = "sub" /\ kind[Top] = "direct"
  PROVE  Kept
<1>1. IInv /\ TypeOK /\ Block /\ Lifetimes
  BY DEF TransactionInv
<1>2. /\ Depth \in Nat /\ (active = <<>> <=> Depth = 0)
      /\ active # <<>> => lineage[Top] = {} /\ Depth = 1
  <2>1. /\ Depth \in Nat /\ (active = <<>> <=> Depth = 0)
    BY <1>1, StackFacts
  <2>2. ASSUME active # <<>> PROVE lineage[Top] = {} /\ Depth = 1
    <3>1. Depth \in 1 .. Depth /\ active[Depth] = Top /\ kind[active[Depth]] = "direct"
      BY <2>1, <2>2 DEF Top, Depth
    <3>2. lineage[active[Depth]] = {}
      BY <1>1, <3>1 DEF Lifetimes, Lineages
    <3>3. kind[active[Depth]] \in IF Depth = 1 THEN {"direct", "top"}
                                  ELSE IF Depth = 2 /\ kind[active[1]] = "direct" THEN {"sub"}
                                  ELSE {"nested"}
      BY <1>1, <3>1 DEF Lifetimes, StackShape
    <3>4. QED BY <3>1, <3>2, <3>3
  <2>3. QED BY <2>1, <2>2
<1>3. NoAddr \in Names /\ \A j \in 1 .. Depth : kind[active[j]] # "nested"
  BY <1>1, <1>2 DEF Names, Lifetimes, StackShape
<1>4. /\ ServerTypeOK' /\ durable' = durable
      /\ Vanishes \/ Stays({}) \/ Grows(t, NoAddr)
      /\ outcome = "done" => open /\ open' /\ session'.xact # "idle"
      /\ outcome \in {"error", "refused", "lost"} => Vanishes \/ Stays({})
  BY <1>1, <1>3, BeginEffect
<1>5. lineage' \in [Tx -> SUBSET Tx] /\ lineage'[t] = {t} /\ \A u \in Tx \ {t} : lineage'[u] = lineage[u]
  BY <1>1 DEF TypeOK
<1>6. CASE outcome = "done"
  <2>1. BirthFate(outcome) = "open"
    BY <1>6 DEF BirthFate, Unfinished
  <2>2. k = "sub" => k = SubKind(Top)
    BY DEF SubKind
  <2>3. Born(t) /\ kind'[t] = k
    BY <1>1, <1>2, <1>5, <1>6, <2>1, <2>2, ConstructIsBorn
  <2>4. ~Vanishes
    BY <1>4, <1>6 DEF Vanishes
  <2>5. addr' \in [Tx -> Names] /\ fate' \in [Tx -> Fates]
    BY <1>1, <2>1 DEF TypeOK, Names, Becomes, Fates
  <2>6. QED BY <1>3, <1>4, <1>5, <1>6, <2>3, <2>4, <2>5, BornStep DEF Kept
<1>7. CASE outcome # "done"
  <2> DEFINE L == IF active = <<>> THEN {} ELSE lineage[Top]
  <2>1. lineage' = [lineage EXCEPT ![t] = {t} \cup L]
    BY <1>2
  <2>2. Stillborn(t) /\ fate'[t] = BirthFate(outcome) /\ fate' \in [Tx -> Fates]
    BY <1>1, <1>7, <2>1, GivenUpIsStillborn
  <2>3. QED BY <1>3, <1>4, <1>5, <1>7, <2>2, StillbornStep DEF Kept
<1>8. QED BY <1>6, <1>7

LEMMA BeginTopStep ==
  ASSUME TransactionInv, IInv', NEW t \in Tx, BeginTop(t)
  PROVE  Kept
<1>1. active = <<>>
  BY TopFacts DEF TransactionInv, BeginTop
<1>2. PICK outcome \in Outcomes : Started(t, outcome, Begin(t, "top"))
  BY DEF BeginTop
<1>3. /\ Execute(Command("start", t, NoAddr), outcome)
      /\ Becomes(t, BirthFate(outcome))
      /\ lineage' = [lineage EXCEPT ![t] = {t}]
      /\ UNCHANGED << addr, wrote >> /\ fate[t] = "unborn"
      /\ IF outcome = "done" THEN Construct(t, "top") ELSE UNCHANGED registryVars
  BY <1>2 DEF Started, Begin, BeginTop
<1>4. QED BY <1>1, <1>3, StartStep

LEMMA BeginSubStep ==
  ASSUME TransactionInv, IInv', NEW p \in Tx, NEW t \in Tx, BeginSub(p, t)
  PROVE  Kept
<1>1. active # <<>> /\ Top = p /\ kind[p] = "direct"
  BY CurrentFacts DEF TransactionInv, BeginSub
<1>2. PICK outcome \in Outcomes : Started(t, outcome, Subtransaction(p, t))
  BY DEF BeginSub
<1>3. /\ Execute(Command("start", t, NoAddr), outcome)
      /\ Becomes(t, BirthFate(outcome))
      /\ lineage' = [lineage EXCEPT ![t] = {t}]
      /\ UNCHANGED << addr, wrote >> /\ fate[t] = "unborn"
      /\ IF outcome = "done" THEN Construct(t, "sub") ELSE UNCHANGED registryVars
  BY <1>1, <1>2 DEF Started, Subtransaction, SubKind, BeginSub
<1>4. QED BY <1>1, <1>3, StartStep

LEMMA BeginNestedStep ==
  ASSUME TransactionInv, IInv', NEW p \in Tx, NEW t \in Tx, BeginNested(p, t)
  PROVE  Kept
<1>1. /\ IInv /\ TypeOK /\ Block /\ Lifetimes
      /\ active # <<>> /\ Top = p /\ kind[p] # "direct" /\ fate[t] = "unborn"
  BY CurrentFacts DEF TransactionInv, BeginNested
<1>2. PICK a \in Addr \ { addr[u] : u \in alive }, outcome \in Outcomes :
        /\ Execute(Command("savepoint", t, a), outcome)
        /\ IF outcome = "done"
             THEN Subtransaction(p, t) /\ addr' = [addr EXCEPT ![t] = a]
             ELSE UNCHANGED << registryVars, addr >>
        /\ Becomes(t, BirthFate(outcome))
  BY DEF BeginNested
<1>3. lineage' = [lineage EXCEPT ![t] = {t} \cup lineage[p]] /\ wrote' = wrote
  BY DEF BeginNested
<1>4. a \in Names /\ \A j \in 1 .. Depth : kind[active[j]] = "nested" => addr[active[j]] # a
  <2>1. \A j \in 1 .. Depth : active[j] \in alive
    BY <1>1, StackFacts DEF IInv, Owned
  <2>2. QED BY <2>1 DEF Names
<1>5. /\ ServerTypeOK' /\ durable' = durable
      /\ Vanishes \/ Stays({}) \/ Grows(t, a)
      /\ outcome = "done" => open' /\ session'.xact # "idle" /\ Grows(t, a) /\ Height # 0
      /\ outcome \in {"error", "refused", "lost"} => Vanishes \/ Stays({})
  <2>1. Execute(Command("savepoint", t, a), outcome)
    BY <1>2
  <2>2. QED BY <1>1, <1>4, <2>1, BeginEffect
<1>6. /\ lineage' \in [Tx -> SUBSET Tx] /\ lineage'[t] = {t} \cup lineage[p]
      /\ \A u \in Tx \ {t} : lineage'[u] = lineage[u]
  BY <1>1, <1>3 DEF TypeOK
<1>7. CASE outcome = "done"
  <2>1. BirthFate(outcome) = "open" /\ Construct(t, "nested") /\ SubKind(p) = "nested"
    BY <1>1, <1>2, <1>7 DEF BirthFate, Unfinished, Subtransaction, SubKind
  <2>2. /\ addr' \in [Tx -> Names] /\ addr'[t] = a
        /\ \A u \in Tx \ {t} : addr'[u] = addr[u]
    BY <1>1, <1>2, <1>4, <1>7 DEF TypeOK, Names
  <2>3. Becomes(t, "open") /\ fate' \in [Tx -> Fates]
    BY <1>1, <1>2, <2>1 DEF TypeOK, Becomes, Fates
  <2>4. Born(t) /\ kind'[t] = "nested"
    BY <1>1, <1>6, <2>1, <2>2, <2>3, ConstructIsBorn
  <2>5. QED BY <1>3, <1>4, <1>5, <1>6, <1>7, <2>2, <2>3, <2>4, BornStep DEF Kept
<1>8. CASE outcome # "done"
  <2> DEFINE L == IF active = <<>> THEN {} ELSE lineage[Top]
  <2>1. lineage' = [lineage EXCEPT ![t] = {t} \cup L]
    BY <1>1, <1>3
  <2>2. UNCHANGED << registryVars, addr >> /\ Becomes(t, BirthFate(outcome))
    BY <1>2, <1>8
  <2>3. Stillborn(t) /\ fate'[t] = BirthFate(outcome) /\ fate' \in [Tx -> Fates]
    BY <1>1, <1>8, <2>1, <2>2, GivenUpIsStillborn
  <2>4. QED BY <1>3, <1>4, <1>5, <1>6, <1>8, <2>3, StillbornStep DEF Kept
<1>9. QED BY <1>7, <1>8


\* execute() and send() of a statement that writes, and get_result()
LEMMA StatementStep ==
  ASSUME TransactionInv, IInv', NEW t \in Tx, Write(t) \/ Send(t) \/ GetResult(t)
  PROVE  Kept
<1>1. IInv /\ TypeOK /\ Block
  BY DEF TransactionInv
<1>2. reg[t] /\ current = t /\ UNCHANGED << registryVars, addr, fate, lineage >>
  BY DEF Write, Send, GetResult, Usable, IsCurrent, historyVars
<1>3. CASE Write(t)
  <2>1. PICK outcome \in Outcomes :
          /\ Execute(Command("write", t, NoAddr), outcome)
          /\ wrote' = IF outcome = "done" THEN wrote \cup {t} ELSE wrote
    BY <1>3 DEF Write
  <2>2. /\ ServerTypeOK'
        /\ Vanishes \/ Stays({t})
        /\ durable \subseteq durable'
        /\ durable' \subseteq durable \cup (IF open /\ Height = 0 THEN {t} ELSE {})
        /\ outcome = "done" =>
             /\ open'
             /\ Height = 0 => t \in durable'
             /\ Height # 0 => Stays({t}) /\ t \in session'.levels[Height].writes
    BY <1>1, <2>1, WriteEffect
  <2>3. QED BY <1>2, <2>1, <2>2, WriteStep DEF Kept
<1>4. CASE Send(t)
  <2> DEFINE c == Command("write", t, NoAddr)
  <2>1. /\ open /\ open' = open /\ unread' = "full" /\ wrote' = wrote
        /\ Succeed(c) \/ Err(c)
    BY <1>4 DEF Send, Ready, historyVars
  <2>2. /\ session' \in Sessions(Names, Tx) /\ Stays({t})
        /\ durable' = durable \/ durable' = durable \cup (IF Height = 0 THEN {t} ELSE {})
    <3>1. CASE Succeed(c)
      BY <1>1, <2>1, <3>1, WriteSucceeds
    <3>2. CASE Err(c)
      BY <1>1, <2>1, <3>2, WriteFails
    <3>3. QED BY <2>1, <3>1, <3>2
  <2> HIDE DEF c
  <2>3. ServerTypeOK'
    BY <1>1, <2>1, <2>2 DEF ServerTypeOK, TypeOK
  <2>4. /\ durable \subseteq durable'
        /\ durable' \subseteq durable \cup (IF open /\ Height = 0 THEN {t} ELSE {})
    BY <2>1, <2>2
  <2>5. QED BY <1>2, <2>1, <2>2, <2>3, <2>4, WriteStep DEF Kept
<1>5. CASE GetResult(t)
  <2>1. wrote' = wrote /\ unread' \in {"none", "tail"} /\ durable' = durable
    BY <1>5 DEF GetResult, Lose, historyVars
  <2>2. (session' = session /\ open' = open) \/ (open' = FALSE /\ session' = Idle)
    BY <1>5 DEF GetResult, Lose
  <2>3. ServerTypeOK'
    BY <1>1, <2>1, <2>2, IdleFacts DEF ServerTypeOK, TypeOK, Names
  <2>4. Vanishes \/ Stays({t})
    <3>1. CASE session' = session /\ open' = open
      BY <1>1, <3>1, SteadyStays DEF Stays
    <3>2. CASE open /\ open' = FALSE /\ session' = Idle
      BY <3>2 DEF Vanishes
    <3>3. CASE ~open /\ open' = FALSE /\ session' = Idle
      <4>1. Height = 0 /\ session.xact = "idle" /\ open' = open
        BY <1>1, <3>3 DEF Block, TypeOK
      <4>2. Height' = 0 /\ session'.xact = "idle"
        BY <3>3, IdleFacts DEF Height
      <4>3. QED BY <4>1, <4>2 DEF Stays
    <3>4. QED BY <2>2, <3>1, <3>2, <3>3
  <2>5. QED BY <1>2, <2>1, <2>3, <2>4, WriteStep DEF Kept
<1>6. QED BY <1>3, <1>4, <1>5

LEMMA ResetIsOver ==
  ASSUME IInv, TypeOK, NEW t \in Tx, reg[t], current = t, Reset(t),
         NEW f \in Fates \ {"unborn", "open"}, Becomes(t, f),
         \A u \in Tx \ {t} : kind'[u] = kind[u],
         UNCHANGED << addr, lineage >>
  PROVE  Over(t) /\ fate'[t] = f /\ fate' \in [Tx -> Fates]
<1>1. active # <<>> /\ Top = t
  BY CurrentFacts DEF IsCurrent
<1>2. active' = SubSeq(active, 1, Depth - 1) /\ reg' = [reg EXCEPT ![t] = FALSE]
  BY EndedIsFront DEF Reset, Depth
<1>3. fate'[t] = f /\ fate' \in [Tx -> Fates] /\ \A u \in Tx \ {t} : fate'[u] = fate[u]
  BY DEF Becomes, TypeOK
<1>4. QED BY <1>1, <1>2, <1>3 DEF Over

\* The lifetime of the current transaction ends without a statement.
LEMMA QuietEndStep ==
  ASSUME TransactionInv, IInv', NEW t \in Tx, reg[t], current = t, Over(t),
         UNCHANGED serverVars, wrote' = wrote, fate' \in [Tx -> Fates],
         (kind[t] = "direct" /\ fate'[t] = "ended") \/ fate'[t] = "abandoned"
  PROVE  Kept
<1>1. IInv /\ TypeOK /\ Lifetimes /\ Block /\ Savepoints /\ Writes
  BY DEF TransactionInv
<1>2. /\ ServerTypeOK' /\ durable' = durable /\ open' = open /\ Height' = Height
      /\ Block' /\ Savepoints' /\ Writes' /\ Discarding
      /\ fate'[t] # "committed"
  BY <1>1, QuietlyEnds
<1>3. QED BY <1>2, OverStep DEF Kept

\* It ends with a rollback.
LEMMA RollbackEndStep ==
  ASSUME TransactionInv, IInv', NEW t \in Tx, reg[t], current = t, Over(t),
         kind[t] \in {"top", "sub", "nested"}, NEW outcome \in Outcomes,
         Execute(RollbackCommand(t), outcome), fate'[t] = RollbackFate(outcome),
         wrote' = wrote, fate' \in [Tx -> Fates]
  PROVE  Kept
<1>1. IInv /\ TypeOK /\ Lifetimes /\ Block /\ Savepoints /\ Writes
  BY DEF TransactionInv
<1>2. CASE kind[t] = "nested"
  <2>1. Execute(Command("rollback_to", t, addr[t]), outcome)
    BY <1>2 DEF RollbackCommand
  <2>2. /\ ServerTypeOK' /\ durable' = durable /\ (open' => open)
        /\ Block' /\ Savepoints' /\ Writes' /\ Discarding
        /\ fate'[t] # "committed"
    BY <1>1, <1>2, <2>1, NestedRollsBack
  <2>3. QED BY <1>2, <2>2, OverStep DEF Kept
<1>3. CASE kind[t] \in {"top", "sub"}
  <2>1. Execute(Command("rollback", t, NoAddr), outcome)
    BY <1>3 DEF RollbackCommand
  <2>2. /\ ServerTypeOK' /\ durable' = durable /\ (open' => open)
        /\ Block' /\ Savepoints' /\ Writes' /\ Discarding
        /\ fate'[t] # "committed"
        /\ open' => Height' = 0 \/ fate'[t] = "unfinished"
    BY <1>1, <1>3, <2>1, OutermostRollsBack
  <2>3. QED BY <1>3, <2>2, OverStep DEF Kept
<1>4. QED BY <1>2, <1>3

\* It ends with a commit.
LEMMA CommitEndStep ==
  ASSUME TransactionInv, IInv', NEW t \in Tx, reg[t], current = t, Over(t),
         kind[t] \in {"top", "sub", "nested"}, NEW outcome \in Outcomes,
         Execute(CommitCommand(t), outcome), fate'[t] = CommitFate(outcome),
         wrote' = wrote, fate' \in [Tx -> Fates]
  PROVE  Kept
<1>1. IInv /\ TypeOK /\ Lifetimes /\ Block /\ Savepoints /\ Writes
  BY DEF TransactionInv
<1>2. CASE kind[t] = "nested"
  <2>1. Execute(Command("release", t, addr[t]), outcome)
    BY <1>2 DEF CommitCommand
  <2>2. /\ ServerTypeOK' /\ durable' = durable /\ (open' => open)
        /\ Block' /\ Savepoints' /\ Writes' /\ Discarding
        /\ fate'[t] = "committed" => open'
    BY <1>1, <1>2, <2>1, NestedCommits
  <2>3. QED BY <1>2, <2>2, OverStep DEF Kept
<1>3. CASE kind[t] \in {"top", "sub"}
  <2>1. Execute(Command("commit", t, NoAddr), outcome)
    BY <1>3 DEF CommitCommand
  <2>2. /\ ServerTypeOK' /\ (open' => open)
        /\ durable \subseteq durable' /\ durable' \subseteq durable \cup Pending(session)
        /\ durable' # durable => fate'[t] \in {"committed", "commit_failed", "unfinished"}
        /\ Block' /\ Savepoints' /\ Writes' /\ Discarding
        /\ fate'[t] = "committed" => open' /\ Pending(session) \subseteq durable'
        /\ open' => Height' = 0 \/ fate'[t] = "unfinished"
    BY <1>1, <1>3, <2>1, OutermostCommits
  <2>3. QED BY <1>3, <2>2, OverStep DEF Kept
<1>4. QED BY <1>2, <1>3

\* commit() and rollback() of a program that ends its transactions in order
LEMMA FinishStep ==
  ASSUME TransactionInv, IInv', ~OutOfOrder, NEW t \in Tx, Commit(t) \/ Rollback(t)
  PROVE  Kept
<1>1. IInv /\ TypeOK
  BY DEF TransactionInv
<1>2. Finish(t) /\ current = t /\ reg[t] /\ kind[t] \in TransactionKinds
  <2>1. Finish(t) /\ current = t /\ kind[t] \in TransactionKinds
    BY DEF Commit, Rollback, Finish
  <2>2. QED BY <1>1, <2>1, TopFacts, NoTxAssumption
<1>3. Reset(t) /\ kind' = kind /\ wrote' = wrote /\ UNCHANGED << addr, lineage >> /\ IsCurrent(t)
  BY <1>2 DEF Finish, Commit, Rollback, IsCurrent
<1>4. CASE kind[t] = "direct"
  <2>1. UNCHANGED serverVars /\ Becomes(t, "ended")
    BY <1>4 DEF Commit, Rollback
  <2>2. Over(t) /\ fate'[t] = "ended" /\ fate' \in [Tx -> Fates]
    BY <1>1, <1>2, <1>3, <2>1, ResetIsOver DEF Fates
  <2>3. QED BY <1>2, <1>3, <1>4, <2>1, <2>2, QuietEndStep
<1>5. CASE kind[t] # "direct" /\ Commit(t)
  <2>1. PICK outcome \in Outcomes : Execute(CommitCommand(t), outcome) /\ Becomes(t, CommitFate(outcome))
    BY <1>3, <1>5 DEF Commit
  <2>2. CommitFate(outcome) \in Fates \ {"unborn", "open"}
    BY DEF CommitFate, Fates
  <2>3. Over(t) /\ fate'[t] = CommitFate(outcome) /\ fate' \in [Tx -> Fates]
    BY <1>1, <1>2, <1>3, <2>1, <2>2, ResetIsOver
  <2>4. QED BY <1>2, <1>3, <1>5, <2>1, <2>3, CommitEndStep DEF TransactionKinds
<1>6. CASE kind[t] # "direct" /\ Rollback(t)
  <2>1. PICK outcome \in Outcomes : Execute(RollbackCommand(t), outcome) /\ Becomes(t, RollbackFate(outcome))
    BY <1>3, <1>6 DEF Rollback
  <2>2. RollbackFate(outcome) \in Fates \ {"unborn", "open"}
    BY DEF RollbackFate, Fates
  <2>3. Over(t) /\ fate'[t] = RollbackFate(outcome) /\ fate' \in [Tx -> Fates]
    BY <1>1, <1>2, <1>3, <2>1, <2>2, ResetIsOver
  <2>4. QED BY <1>2, <1>3, <1>6, <2>1, <2>3, RollbackEndStep DEF TransactionKinds
<1>7. QED BY <1>4, <1>5, <1>6


LEMMA ReleaseStep ==
  ASSUME TransactionInv, IInv', NEW t \in Tx, Release(t)
  PROVE  Kept
<1>1. NoneMoves /\ UNCHANGED << serverVars, historyVars >>
  BY DEF Release, Drop, NoneMoves, historyVars
<1>2. QED BY <1>1, QuietStep DEF Kept

LEMMA DestructStep ==
  ASSUME TransactionInv, IInv', NEW t \in Tx, Destruct(t)
  PROVE  Kept
<1>1. IInv /\ TypeOK /\ Lifetimes
  BY DEF TransactionInv
<1>2. /\ Destroy(t) /\ dying = t /\ wrote' = wrote /\ UNCHANGED << addr, lineage >>
      /\ \A u \in Tx \ {t} : kind'[u] = kind[u]
  BY DEF Destruct, Destroy, IInv, RegistryTypeOK, TransactionInv
<1>3. CASE ~reg[t]
  <2>1. UNCHANGED << serverVars, fate, reg, active >>
    BY <1>2, <1>3 DEF Destruct, Destroy
  <2>2. \A j \in 1 .. Depth : active[j] \in Tx \ {t}
    BY <1>1, <1>3, StackFacts
  <2>3. NoneMoves /\ UNCHANGED << serverVars, historyVars >>
    BY <1>2, <2>1, <2>2 DEF NoneMoves, historyVars
  <2>4. QED BY <2>3, QuietStep DEF Kept
<1>4. CASE reg[t]
  <2>1. current = t /\ Reset(t) /\ kind[t] \in TransactionKinds
    <3>1. \A u \in Tx : prev[u] # t
      BY <1>1, <1>2, NoTxAssumption DEF IInv, Owned
    <3>2. current = t /\ Reset(t)
      BY <1>1, <1>2, <1>4, <3>1, UnreferencedIsTop DEF Destroy
    <3>3. PICK j \in 1 .. Depth : active[j] = t
      BY <1>1, <1>4, StackFacts
    <3>4. kind[active[j]] \in TransactionKinds
      BY <1>1, <3>3 DEF Lifetimes, StackShape, TransactionKinds
    <3>5. QED BY <3>2, <3>3, <3>4
  <2>2. CASE kind[t] # "direct" /\ AttemptRollback /\ IsCurrent(t)
    <3>1. PICK outcome \in Outcomes : Execute(RollbackCommand(t), outcome) /\ Becomes(t, RollbackFate(outcome))
      BY <1>4, <2>2 DEF Destruct
    <3>2. RollbackFate(outcome) \in Fates \ {"unborn", "open"}
      BY DEF RollbackFate, Fates
    <3>3. Over(t) /\ fate'[t] = RollbackFate(outcome) /\ fate' \in [Tx -> Fates]
      BY <1>1, <1>2, <1>4, <2>1, <3>1, <3>2, ResetIsOver
    <3>4. QED BY <1>2, <1>4, <2>1, <2>2, <3>1, <3>3, RollbackEndStep DEF TransactionKinds
  <2>3. CASE kind[t] # "direct" /\ ~(AttemptRollback /\ IsCurrent(t))
    <3>1. UNCHANGED serverVars /\ Becomes(t, "abandoned")
      BY <1>4, <2>3 DEF Destruct
    <3>2. Over(t) /\ fate'[t] = "abandoned" /\ fate' \in [Tx -> Fates]
      BY <1>1, <1>2, <1>4, <2>1, <3>1, ResetIsOver DEF Fates
    <3>3. QED BY <1>2, <1>4, <2>1, <3>1, <3>2, QuietEndStep
  <2>4. CASE kind[t] = "direct"
    <3>1. UNCHANGED serverVars /\ Becomes(t, "ended")
      BY <1>4, <2>4 DEF Destruct
    <3>2. Over(t) /\ fate'[t] = "ended" /\ fate' \in [Tx -> Fates]
      BY <1>1, <1>2, <1>4, <2>1, <3>1, ResetIsOver DEF Fates
    <3>3. QED BY <1>2, <1>4, <2>1, <2>4, <3>1, <3>2, QuietEndStep
  <2>5. QED BY <2>2, <2>3, <2>4
<1>5. QED BY <1>1, <1>3, <1>4 DEF IInv, RegistryTypeOK

LEMMA NextTransactionInv ==
  ASSUME TransactionInv, ~OutOfOrder, Next
  PROVE  Kept
<1>1. IInv'
  <2>1. IInv
    BY DEF TransactionInv
  <2>2. QED BY <2>1, TransactionStepIsRegistryStep, NextIInv, StutterIInv
<1>2. ASSUME NEW t \in Tx, BeginDirect(t) PROVE Kept
  BY <1>1, <1>2, BeginDirectStep
<1>3. ASSUME NEW t \in Tx, BeginTop(t) PROVE Kept
  BY <1>1, <1>3, BeginTopStep
<1>4. ASSUME NEW p \in Tx, NEW t \in Tx, BeginSub(p, t) PROVE Kept
  BY <1>1, <1>4, BeginSubStep
<1>5. ASSUME NEW p \in Tx, NEW t \in Tx, BeginNested(p, t) PROVE Kept
  BY <1>1, <1>5, BeginNestedStep
<1>6. ASSUME NEW t \in Tx, Write(t) \/ Send(t) \/ GetResult(t) PROVE Kept
  BY <1>1, <1>6, StatementStep
<1>7. ASSUME NEW t \in Tx, Commit(t) \/ Rollback(t) PROVE Kept
  BY <1>1, <1>7, FinishStep
<1>8. ASSUME NEW t \in Tx, Release(t) PROVE Kept
  BY <1>1, <1>8, ReleaseStep
<1>9. ASSUME NEW t \in Tx, Destruct(t) PROVE Kept
  BY <1>1, <1>9, DestructStep
<1>10. QED
  BY <1>2, <1>3, <1>4, <1>5, <1>6, <1>7, <1>8, <1>9 DEF Next

LEMMA StutterTransactionInv ==
  ASSUME TransactionInv, UNCHANGED vars
  PROVE  Kept
<1>1. IInv'
  BY StutterIInv DEF TransactionInv, vars
<1>2. NoneMoves /\ UNCHANGED << serverVars, historyVars >>
  BY DEF vars, registryVars, historyVars, NoneMoves
<1>3. QED BY <1>1, <1>2, QuietStep DEF Kept

LEMMA InitTransactionInv == Init => TransactionInv
<1> SUFFICES ASSUME Init PROVE TransactionInv
  OBVIOUS
<1>1. /\ IInv /\ active = <<>> /\ Depth = 0 /\ \A t \in Tx : reg[t] = FALSE
  BY InitIInv, EmptySeq DEF Init, RegistryInit, Depth
<1>2. /\ session = Idle /\ Height = 0 /\ open = TRUE /\ durable = {} /\ wrote = {}
      /\ fate = [t \in Tx |-> "unborn"] /\ lineage = [t \in Tx |-> {}]
  BY IdleFacts DEF Init, Height
<1>3. TypeOK
  BY <1>1, <1>2, IdleFacts DEF TypeOK, IInv, Init, Fates, Names
<1>4. Lifetimes
  BY <1>1, <1>2 DEF Lifetimes, StackShape, Lives, Lineages
<1>5. Block
  BY <1>1, <1>2, IdleFacts DEF Block
<1>6. Savepoints /\ Writes
  BY <1>1, <1>2 DEF Savepoints, Writes
<1>7. DurableWasCommitted /\ Acked /\ FreeIdle
  BY <1>2 DEF DurableWasCommitted, Acked, FreeIdle
<1>8. QED BY <1>1, <1>3, <1>4, <1>5, <1>6, <1>7 DEF TransactionInv

\* The inductive invariant holds of every program that ends its transactions
\* in order, whatever becomes of its statements and of the connection.
THEOREM TransactionInvariant ==
  ASSUME ~OutOfOrder
  PROVE  Spec => []TransactionInv
<1>1. Init => TransactionInv
  BY InitTransactionInv
<1>2. TransactionInv /\ [Next]_vars => TransactionInv'
  BY NextTransactionInv, StutterTransactionInv DEF Kept
<1>3. QED BY <1>1, <1>2, PTL DEF Spec

-----------------------------------------------------------------------------
(* What must hold.                                                         *)

\* The variables keep their types: the session is always one that the server
\* can be in, so no command is applied to a level or a savepoint that is not
\* there.
THEOREM TransactionTypeCorrect ==
  ASSUME ~OutOfOrder
  PROVE  Spec => []TypeOK
<1>1. TransactionInv => TypeOK
  BY DEF TransactionInv
<1>2. QED BY <1>1, TransactionInvariant, PTL

\* RELEASE SAVEPOINT and ROLLBACK TO of a nested transaction mean the savepoint
\* its own constructor made, at any depth of nesting, however often addresses
\* are reused and whatever savepoints earlier rollbacks have left behind.
THEOREM SavepointIsAlwaysOwn ==
  ASSUME ~OutOfOrder
  PROVE  Spec => []SavepointIsOwn
<1>1. TransactionInv => SavepointIsOwn
  <2> SUFFICES ASSUME TransactionInv, NEW t \in Tx, kind[t] = "nested", reg[t], open
               PROVE  /\ Named(session, addr[t]) # {}
                      /\ session.levels[Newest(session, addr[t])].by = t
    BY DEF SavepointIsOwn
  <2>1. PICK j \in 1 .. Depth : active[j] = t
    BY StackFacts DEF TransactionInv
  <2>2. PICK i \in 2 .. Height : Own(t, i)
    BY <2>1 DEF TransactionInv, Savepoints
  <2>3. QED BY <2>2, NewestIsOwn DEF TransactionInv, Own
<1>2. QED BY <1>1, TransactionInvariant, PTL

\* Nothing that was rolled back or is still open, at any level that encloses
\* it, is durable.
THEOREM DurableWasAlwaysCommitted ==
  ASSUME ~OutOfOrder
  PROVE  Spec => []DurableWasCommitted
<1>1. TransactionInv => DurableWasCommitted
  BY DEF TransactionInv
<1>2. QED BY <1>1, TransactionInvariant, PTL

\* A write that succeeded is durable once commit() of every transaction that
\* encloses it has returned.
THEOREM AcknowledgedIsAlwaysDurable ==
  ASSUME ~OutOfOrder
  PROVE  Spec => []AcknowledgedIsDurable
<1>1. TransactionInv => AcknowledgedIsDurable
  <2> SUFFICES ASSUME TransactionInv, NEW t \in wrote
               PROVE  /\ lineage[t] # {} /\ (\A v \in lineage[t] : fate[v] = "committed") => t \in durable
                      /\ lineage[t] = {} /\ NothingLeftOpen => t \in durable
    BY DEF AcknowledgedIsDurable
  <2>1. AckedOne(t)
    BY DEF TransactionInv, Acked
  <2>2. QED BY <2>1 DEF AckedOne
<1>2. QED BY <1>1, TransactionInvariant, PTL

\* A connection without a transaction object has no transaction open on the
\* server, unless the server was not told of the end of one.
THEOREM FreeAlwaysMeansIdle ==
  ASSUME ~OutOfOrder
  PROVE  Spec => []FreeMeansIdle
<1>1. TransactionInv => FreeMeansIdle
  <2> SUFFICES ASSUME TransactionInv, current = NoTx, open, NothingLeftOpen
               PROVE  session.xact = "idle"
    BY DEF FreeMeansIdle
  <2>1. Depth = 0
    BY TopFacts, StackFacts DEF TransactionInv
  <2>2. Height = 0
    BY <2>1 DEF TransactionInv, FreeIdle
  <2>3. QED BY <2>2 DEF TransactionInv, Block
<1>2. QED BY <1>1, TransactionInvariant, PTL

\* A write is discarded only together with a transaction that encloses it, and
\* never by one whose commit() returned.
THEOREM OnlyOwnWritesAreDiscarded ==
  ASSUME ~OutOfOrder
  PROVE  Spec => RollbackDiscardsOwn
<1>1. TransactionInv /\ [Next]_vars => [Discarding]_vars
  BY NextTransactionInv DEF Kept
<1>2. [Discarding]_vars =>
        [ open' =>
            \A u \in Pending(session) \ (Pending(session)' \cup durable') :
              lineage[u] # {} =>
                \E v \in lineage[u] : fate'[v] \notin {"open", "committed"} ]_vars
  BY DEF Discarding
<1>3. QED BY <1>1, <1>2, TransactionInvariant, PTL DEF Spec, RollbackDiscardsOwn
=============================================================================
