--------------------------- MODULE RegistryProofs ---------------------------
(***************************************************************************)
(* For every set of transaction objects: while the program ends its        *)
(* transactions in order, the raw pointer and the m_previous pointers of   *)
(* Registry describe the documented stack and never dangle, nothing is     *)
(* dereferenced through a null pointer, and every step is one of           *)
(* TransactionOrder or leaves the stack alone.                             *)
(*                                                                         *)
(* CurrentIsTop is not inductive: that the object a destructor deregisters *)
(* is the current one follows from the reference counts.  An object is     *)
(* destroyed only when no m_previous points to it, but the next object up  *)
(* in the stack would have such a pointer; so it is the top.               *)
(***************************************************************************)
EXTENDS Registry, SequenceTheorems, TLAPS

\* An object occurs once in the stack.
Distinct ==
  \A i, j \in 1 .. Len(active) : active[i] = active[j] => i = j

\* The reference counts: an object that is not being destroyed lives because
\* of a pointer to it; one that is being destroyed has no pointer to it left.
Owned ==
  /\ \A t \in Tx : reg[t] => t \in alive
  /\ \A t \in Tx : t \notin alive => ~held[t] /\ prev[t] = NoTx
  /\ \A t \in Tx : prev[t] \in alive \cup {NoTx}
  /\ \A t \in alive : t # dying => held[t] \/ \E u \in Tx : prev[u] = t
  /\ dying # NoTx => dying \in alive /\ ~held[dying] /\ \A u \in Tx : prev[u] # dying

IInv == RegistryTypeOK /\ NeverCrashes /\ CurrentIsTop /\ Distinct /\ Owned

-----------------------------------------------------------------------------
\* A nonempty sequence without its last element
LEMMA FrontFacts ==
  ASSUME NEW S, NEW s \in Seq(S), s # <<>>
  PROVE  /\ SubSeq(s, 1, Len(s) - 1) \in Seq(S)
         /\ Len(SubSeq(s, 1, Len(s) - 1)) = Len(s) - 1
         /\ \A i \in 1 .. (Len(s) - 1) : SubSeq(s, 1, Len(s) - 1)[i] = s[i]
<1> DEFINE k == Len(s) - 1
<1>1. /\ Len(s) \in Nat \ {0} /\ 1 \in Int /\ k \in Int
      /\ \A i \in 1 .. k : s[i] \in S
  BY EmptySeq, ElementOfSeq, LenProperties
<1> HIDE DEF k
<1>2. /\ SubSeq(s, 1, k) \in Seq(S)
      /\ Len(SubSeq(s, 1, k)) = IF 1 <= k THEN k - 1 + 1 ELSE 0
      /\ \A i \in 1 .. k - 1 + 1 : SubSeq(s, 1, k)[i] = s[1 + i - 1]
  BY <1>1, SubSeqProperties
<1>3. k \in Nat
  BY <1>1 DEF k
<1>4. Len(SubSeq(s, 1, k)) = k /\ \A i \in 1 .. k : SubSeq(s, 1, k)[i] = s[i]
  BY <1>2, <1>3
<1>5. QED BY <1>2, <1>4 DEF k

\* The stack and its top are what CurrentIsTop says; stated once.
LEMMA TopFacts ==
  ASSUME IInv
  PROVE  /\ current # NoTx => active # <<>> /\ Len(active) \in Nat \ {0}
                              /\ current = active[Len(active)] /\ current \in Tx
                              /\ reg[current] /\ current \in alive
         /\ current = NoTx => active = <<>>
BY NoTxAssumption DEF IInv, RegistryTypeOK, CurrentIsTop, Top, Owned

\* An object with no m_previous pointing to it is not below another one in
\* the stack.
LEMMA UnreferencedIsTop ==
  ASSUME IInv, NEW t \in Tx, reg[t], \A u \in Tx : prev[u] # t
  PROVE  current = t
<1>1. PICK i \in 1 .. Len(active) : active[i] = t
  BY DEF IInv, CurrentIsTop
<1>2. Len(active) \in Nat /\ active \in Seq(Tx)
  BY DEF IInv, RegistryTypeOK
<1>3. CASE i = Len(active)
  BY <1>1, <1>2, <1>3 DEF IInv, CurrentIsTop, Top
<1>4. CASE i # Len(active)
  <2>1. i + 1 \in 1 .. Len(active) /\ i + 1 # 1 /\ (i + 1) - 1 = i
    BY <1>2, <1>4
  <2>2. prev[active[i + 1]] = active[i] /\ active[i + 1] \in Tx
    BY <1>2, <2>1 DEF IInv, CurrentIsTop
  <2>3. QED BY <1>1, <2>2
<1>5. QED BY <1>3, <1>4

\* When the lifetime of the current transaction ends, the stack loses its top.
LEMMA EndedIsFront ==
  ASSUME IInv, NEW t \in Tx, reg[t], current = t
  PROVE  Ended(t) = SubSeq(active, 1, Len(active) - 1)
<1> DEFINE n == Len(active)
<1> DEFINE k == CHOOSE i \in 1 .. n : active[i] = t
<1>1. active \in Seq(Tx) /\ n \in Nat \ {0} /\ active # <<>> /\ active[n] = t
  BY TopFacts, NoTxAssumption DEF IInv, RegistryTypeOK
<1>2. n \in 1 .. n
  BY <1>1
<1>3. k \in 1 .. n /\ active[k] = t
  BY <1>1, <1>2
<1>4. k = n
  BY <1>1, <1>2, <1>3 DEF IInv, Distinct
<1>5. Ended(t) = [ i \in 1 .. n - 1 |-> IF i < k THEN active[i] ELSE active[i + 1] ]
  BY DEF Ended
<1> HIDE DEF k, n
<1>6. Ended(t) = [ i \in 1 .. n - 1 |-> active[i] ]
  BY <1>1, <1>4, <1>5
<1>7. n - 1 \in Nat /\ \A i \in 1 .. n - 1 : active[i] \in Tx
  BY <1>1 DEF n
<1>8. Ended(t) \in Seq(Tx) /\ Len(Ended(t)) = n - 1
  BY <1>6, <1>7
<1>9. /\ SubSeq(active, 1, n - 1) \in Seq(Tx)
      /\ Len(SubSeq(active, 1, n - 1)) = n - 1
      /\ \A i \in 1 .. (n - 1) : SubSeq(active, 1, n - 1)[i] = active[i]
  BY <1>1, FrontFacts DEF n
<1>10. Ended(t) = SubSeq(active, 1, n - 1)
  BY <1>6, <1>8, <1>9, SeqEqual
<1>11. QED BY <1>10 DEF n

LEMMA InitIInv == RegistryInit => IInv
<1> SUFFICES ASSUME RegistryInit PROVE IInv
  OBVIOUS
<1>1. RegistryTypeOK
  BY EmptySeq DEF RegistryInit, RegistryTypeOK
<1>2. NeverCrashes
  BY DEF RegistryInit, NeverCrashes
<1>3. Len(active) = 0 /\ active = <<>>
  BY DEF RegistryInit
<1>4. CurrentIsTop
  BY <1>3 DEF RegistryInit, CurrentIsTop
<1>5. Distinct
  BY <1>3 DEF Distinct
<1>6. Owned
  BY DEF RegistryInit, Owned
<1>7. QED BY <1>1, <1>2, <1>4, <1>5, <1>6 DEF IInv

\* The constructors
LEMMA ConstructIInv ==
  ASSUME IInv, Running, NEW t \in Tx, NEW k \in Kinds, Construct(t, k)
  PROVE  IInv'
<1>1. active \in Seq(Tx) /\ Len(active) \in Nat /\ current \in alive \cup {NoTx} /\ t \notin alive
  BY TopFacts DEF IInv, RegistryTypeOK, Construct
<1>2. /\ active' = Append(active, t) /\ active' \in Seq(Tx)
      /\ Len(active') = Len(active) + 1 /\ active' # <<>>
      /\ active'[Len(active')] = t
      /\ \A i \in 1 .. Len(active) : active'[i] = active[i]
  BY <1>1 DEF Construct
<1>3. RegistryTypeOK'
  BY <1>1, <1>2 DEF IInv, RegistryTypeOK, Construct, Kinds
<1>4. NeverCrashes'
  BY DEF IInv, NeverCrashes, Construct
<1>5. \A i \in 1 .. Len(active) : active[i] \in alive /\ active[i] # t
  BY <1>1 DEF IInv, CurrentIsTop, Owned
<1>6. CurrentIsTop'
  <2>1. current' = t /\ active' # <<>> /\ Top' = t
    BY <1>2 DEF Construct, Top
  <2>2. ASSUME NEW i \in 1 .. Len(active')
        PROVE  prev'[active'[i]] = IF i = 1 THEN NoTx ELSE active'[i - 1]
    <3>1. CASE i = Len(active')
      <4>1. prev'[active'[i]] = current
        BY <1>2, <3>1 DEF Construct, IInv, RegistryTypeOK
      <4>2. CASE active = <<>>
        BY <1>1, <1>2, <3>1, <4>1, <4>2 DEF IInv, CurrentIsTop
      <4>3. CASE active # <<>>
        <5>1. i - 1 = Len(active) /\ i # 1 /\ i - 1 \in 1 .. Len(active)
          BY <1>1, <1>2, <3>1, <4>3
        <5>2. QED BY <1>2, <4>1, <4>3, <5>1 DEF IInv, CurrentIsTop, Top
      <4>4. QED BY <4>2, <4>3
    <3>2. CASE i # Len(active')
      <4>1. i \in 1 .. Len(active)
        BY <1>1, <1>2, <3>2
      <4>2. active'[i] = active[i] /\ prev'[active[i]] = prev[active[i]]
        BY <1>1, <1>2, <1>5, <4>1 DEF Construct, IInv, RegistryTypeOK
      <4>3. i # 1 => active'[i - 1] = active[i - 1]
        BY <1>1, <1>2, <4>1
      <4>4. QED BY <4>1, <4>2, <4>3 DEF IInv, CurrentIsTop
    <3>3. QED BY <3>1, <3>2
  <2>3. ASSUME NEW u \in Tx
        PROVE  reg'[u] <=> \E i \in 1 .. Len(active') : active'[i] = u
    <3>1. CASE u = t
      BY <1>1, <1>2, <3>1 DEF Construct, IInv, RegistryTypeOK
    <3>2. CASE u # t
      <4>1. reg'[u] = reg[u]
        BY <3>2 DEF Construct, IInv, RegistryTypeOK
      <4>2. (\E i \in 1 .. Len(active) : active[i] = u) <=> (\E i \in 1 .. Len(active') : active'[i] = u)
        BY <1>1, <1>2, <3>2
      <4>3. QED BY <4>1, <4>2 DEF IInv, CurrentIsTop
    <3>3. QED BY <3>1, <3>2
  <2>4. QED BY <2>1, <2>2, <2>3 DEF CurrentIsTop
<1>7. Distinct'
  BY <1>1, <1>2, <1>5 DEF IInv, Distinct
<1>8. Owned'
  <2>1. dying = NoTx /\ dying' = NoTx
    BY DEF Running, Construct
  <2>2. \A u \in Tx : u # t => prev'[u] = prev[u] /\ held'[u] = held[u] /\ reg'[u] = reg[u]
    BY DEF Construct, IInv, RegistryTypeOK
  <2>3. prev'[t] = current /\ held'[t] /\ alive' = alive \cup {t} /\ prev[t] = NoTx
    BY <1>1 DEF Construct, IInv, RegistryTypeOK, Owned
  <2>4. \A u \in alive : u \in Tx /\ u # NoTx
    BY NoTxAssumption DEF IInv, RegistryTypeOK
  <2>5. QED BY <1>1, <2>1, <2>2, <2>3, <2>4 DEF IInv, Owned
<1>9. QED BY <1>3, <1>4, <1>6, <1>7, <1>8 DEF IInv

\* Deregistration of the current transaction, the part that is common to
\* commit(), rollback(), finish() and the destructors: the stack loses its
\* top and nothing else changes.
LEMMA ResetStack ==
  ASSUME IInv, NEW t \in Tx, reg[t], current = t, Reset(t),
         NEW S \in SUBSET Tx, S = {t} \/ S = {},
         prev' = [u \in Tx |-> IF u \in S THEN NoTx ELSE prev[u]]
  PROVE  /\ reg' \in [Tx -> BOOLEAN] /\ current' \in Tx \cup {NoTx} /\ active' \in Seq(Tx)
         /\ CurrentIsTop' /\ Distinct'
<1> DEFINE n == Len(active)
<1>1. /\ active \in Seq(Tx) /\ n \in Nat \ {0} /\ active # <<>>
      /\ Top = t /\ active[n] = t
  BY TopFacts, NoTxAssumption DEF IInv, CurrentIsTop, RegistryTypeOK, Top
<1>2. active' = SubSeq(active, 1, n - 1)
  BY EndedIsFront DEF Reset
<1>3. /\ active' \in Seq(Tx) /\ Len(active') = n - 1
      /\ \A i \in 1 .. (n - 1) : active'[i] = active[i]
  BY <1>1, <1>2, FrontFacts
<1>4. \A i \in 1 .. (n - 1) : active[i] # t /\ active[i] \in Tx
  BY <1>1 DEF IInv, Distinct
<1>5. reg' = [reg EXCEPT ![t] = FALSE] /\ current' = prev[t]
  BY DEF Reset
<1>6. \A u \in Tx : u # t => prev'[u] = prev[u]
  OBVIOUS
<1>7. reg' \in [Tx -> BOOLEAN] /\ current' \in Tx \cup {NoTx}
  BY <1>5 DEF IInv, RegistryTypeOK
<1>8. CurrentIsTop'
  <2>1. current' = IF active' = <<>> THEN NoTx ELSE Top'
    <3>1. prev[t] = IF n = 1 THEN NoTx ELSE active[n - 1]
      <4>1. n \in 1 .. Len(active)
        BY <1>1
      <4>2. prev[active[n]] = IF n = 1 THEN NoTx ELSE active[n - 1]
        BY <4>1 DEF IInv, CurrentIsTop
      <4>3. QED BY <1>1, <4>2
    <3>2. CASE n = 1
      BY <1>3, <1>5, <3>1, <3>2
    <3>3. CASE n # 1
      <4>1. n - 1 \in 1 .. (n - 1) /\ active' # <<>> /\ Top' = active'[n - 1]
        BY <1>1, <1>3, <3>3 DEF Top
      <4>2. QED BY <1>3, <1>5, <3>1, <3>3, <4>1
    <3>4. QED BY <3>2, <3>3
  <2>2. ASSUME NEW i \in 1 .. Len(active')
        PROVE  prev'[active'[i]] = IF i = 1 THEN NoTx ELSE active'[i - 1]
    <3>1. i \in 1 .. (n - 1) /\ i \in 1 .. n /\ (i # 1 => i - 1 \in 1 .. (n - 1))
      BY <1>1, <1>3
    <3>2. prev'[active'[i]] = prev[active[i]]
      BY <1>3, <1>4, <1>6, <3>1
    <3>3. prev[active[i]] = IF i = 1 THEN NoTx ELSE active[i - 1]
      BY <3>1 DEF IInv, CurrentIsTop
    <3>4. i # 1 => active'[i - 1] = active[i - 1]
      BY <1>3, <3>1
    <3>5. QED BY <3>2, <3>3, <3>4
  <2>3. ASSUME NEW u \in Tx
        PROVE  reg'[u] <=> \E i \in 1 .. Len(active') : active'[i] = u
    <3>1. CASE u = t
      BY <1>3, <1>4, <1>5, <3>1 DEF IInv, RegistryTypeOK
    <3>2. CASE u # t
      <4>1. reg'[u] = reg[u]
        BY <1>5, <3>2 DEF IInv, RegistryTypeOK
      <4>2. (\E i \in 1 .. n : active[i] = u) <=> (\E i \in 1 .. Len(active') : active'[i] = u)
        BY <1>1, <1>3, <3>2
      <4>3. QED BY <4>1, <4>2 DEF IInv, CurrentIsTop
    <3>3. QED BY <3>1, <3>2
  <2>4. QED BY <2>1, <2>2, <2>3 DEF CurrentIsTop
<1>9. Distinct'
  BY <1>1, <1>3 DEF IInv, Distinct
<1>10. QED BY <1>3, <1>7, <1>8, <1>9

\* commit() and rollback()
LEMMA FinishIInv ==
  ASSUME IInv, ~OutOfOrder, NEW t \in Tx, Finish(t)
  PROVE  IInv'
<1>1. current = t /\ reg[t] /\ dying = NoTx
  BY TopFacts, NoTxAssumption DEF Finish, Running
<1>2. Reset(t) /\ UNCHANGED << alive, kind, prev, held, dying, crashed >>
  BY <1>1 DEF Finish
<1>3. prev' = [u \in Tx |-> IF u \in {} THEN NoTx ELSE prev[u]]
  BY <1>2 DEF IInv, RegistryTypeOK
<1>4. /\ reg' \in [Tx -> BOOLEAN] /\ current' \in Tx \cup {NoTx} /\ active' \in Seq(Tx)
      /\ CurrentIsTop' /\ Distinct'
  <2>1. {} \in SUBSET Tx
    OBVIOUS
  <2>2. QED BY <1>1, <1>2, <1>3, <2>1, ResetStack
<1>5. RegistryTypeOK' /\ NeverCrashes'
  BY <1>2, <1>4 DEF IInv, RegistryTypeOK, NeverCrashes
<1>6. Owned'
  <2>1. \A u \in Tx : reg'[u] => reg[u]
    BY <1>2 DEF Reset, IInv, RegistryTypeOK
  <2>2. QED BY <1>2, <2>1 DEF IInv, Owned
<1>7. QED BY <1>4, <1>5, <1>6 DEF IInv

\* An object loses its m_previous: the object it pointed to either has
\* another owner or is the next to be destroyed.
LEMMA ReleasePrevious ==
  ASSUME IInv, NEW t \in Tx, t \in alive,
         dying = NoTx \/ dying = t,
         prev' = [prev EXCEPT ![t] = NoTx],
         dying' = IF Unowned(prev[t], t) THEN prev[t] ELSE NoTx,
         held' = held,
         alive' = alive \/ (alive' = alive \ {t} /\ dying = t)
  PROVE  /\ \A u \in Tx : u \notin alive' => ~held'[u] /\ prev'[u] = NoTx
         /\ \A u \in Tx : prev'[u] \in alive' \cup {NoTx}
         /\ \A u \in alive' : u # dying' /\ (alive' = alive => u # dying)
              => held'[u] \/ \E v \in Tx : prev'[v] = u
         /\ dying' # NoTx => dying' \in alive' /\ ~held'[dying'] /\ \A u \in Tx : prev'[u] # dying'
<1>1. /\ \A u \in Tx : u # t => prev'[u] = prev[u]
      /\ prev'[t] = NoTx
      /\ alive \subseteq Tx /\ NoTx \notin alive
  BY NoTxAssumption DEF IInv, RegistryTypeOK
<1>2. /\ \A u \in Tx : u \notin alive => ~held[u] /\ prev[u] = NoTx
      /\ \A u \in Tx : prev[u] \in alive \cup {NoTx}
      /\ \A u \in alive : u # dying => held[u] \/ \E v \in Tx : prev[v] = u
      /\ dying # NoTx => dying \in alive /\ ~held[dying] /\ \A u \in Tx : prev[u] # dying
  BY DEF IInv, Owned
<1>3. \A u \in Tx : u \notin alive' => ~held'[u] /\ prev'[u] = NoTx
  BY <1>1, <1>2
<1>4. \A u \in Tx : prev'[u] \in alive' \cup {NoTx}
  <2>1. ASSUME NEW u \in Tx, u # t PROVE prev'[u] \in alive' \cup {NoTx}
    <3>1. prev'[u] = prev[u] /\ prev[u] \in alive \cup {NoTx}
      BY <1>1, <1>2, <2>1
    <3>2. alive' # alive => prev[u] # t
      BY <1>1, <1>2
    <3>3. QED BY <3>1, <3>2
  <2>2. QED BY <1>1, <2>1
<1>5. ASSUME NEW u \in alive', u # dying', alive' = alive => u # dying
      PROVE  held'[u] \/ \E v \in Tx : prev'[v] = u
  <2>1. u \in alive /\ u # dying /\ u \in Tx /\ u # NoTx
    BY <1>1, <1>5
  <2>2. CASE held[u]
    BY <2>2
  <2>3. CASE ~held[u]
    <3>1. PICK v \in Tx : prev[v] = u
      BY <1>2, <2>1, <2>3
    <3>2. CASE v # t
      BY <1>1, <3>1, <3>2
    <3>3. CASE v = t
      <4>1. ~Unowned(u, t)
        BY <1>5, <3>1, <3>3
      <4>2. PICK w \in Tx \ {t} : prev[w] = u
        BY <2>1, <2>3, <4>1 DEF Unowned
      <4>3. QED BY <1>1, <4>2
    <3>4. QED BY <3>2, <3>3
  <2>4. QED BY <2>2, <2>3
<1>6. ASSUME dying' # NoTx
      PROVE  dying' \in alive' /\ ~held'[dying'] /\ \A u \in Tx : prev'[u] # dying'
  <2>1. dying' = prev[t] /\ ~held[prev[t]] /\ \A v \in Tx \ {t} : prev[v] # prev[t]
    BY <1>6 DEF Unowned
  <2>2. prev[t] \in alive /\ prev[t] # NoTx
    BY <1>2, <1>6, <2>1
  <2>3. alive' # alive => prev[t] # t
    BY <1>2, NoTxAssumption
  <2>4. QED BY <1>1, <2>1, <2>2, <2>3
<1>7. QED BY <1>3, <1>4, <1>5, <1>6

\* pipeline::finish()
LEMMA FinishPipelineIInv ==
  ASSUME IInv, ~OutOfOrder, NEW t \in Tx, FinishPipeline(t)
  PROVE  IInv'
<1>1. /\ current = t /\ reg[t] /\ dying = NoTx /\ t \in alive /\ Reset(t)
      /\ prev' = [prev EXCEPT ![t] = NoTx]
      /\ dying' = IF Unowned(prev[t], t) THEN prev[t] ELSE NoTx
      /\ UNCHANGED << alive, kind, held, crashed >>
  BY DEF FinishPipeline, Running, IInv, Owned
<1>2. prev' = [u \in Tx |-> IF u \in {t} THEN NoTx ELSE prev[u]]
  BY <1>1 DEF IInv, RegistryTypeOK
<1>3. /\ reg' \in [Tx -> BOOLEAN] /\ current' \in Tx \cup {NoTx} /\ active' \in Seq(Tx)
      /\ CurrentIsTop' /\ Distinct'
  <2>1. {t} \in SUBSET Tx
    OBVIOUS
  <2>2. QED BY <1>1, <1>2, <2>1, ResetStack
<1>4. RegistryTypeOK' /\ NeverCrashes'
  BY <1>1, <1>3 DEF IInv, RegistryTypeOK, NeverCrashes
<1>5. Owned'
  <2>1. \A u \in Tx : reg'[u] => reg[u]
    BY <1>1 DEF Reset, IInv, RegistryTypeOK
  <2>2. \A u \in Tx : reg'[u] => u \in alive'
    BY <1>1, <2>1 DEF IInv, Owned
  <2>3. \A u \in alive' : u # NoTx
    BY <1>1, NoTxAssumption DEF IInv, RegistryTypeOK
  <2>4. QED BY <1>1, <2>2, <2>3, ReleasePrevious DEF Owned
<1>6. QED BY <1>3, <1>4, <1>5 DEF IInv

\* The program gives up a shared_ptr.
LEMMA DropIInv ==
  ASSUME IInv, NEW t \in Tx, Drop(t)
  PROVE  IInv'
<1>1. /\ dying = NoTx /\ held[t]
      /\ held' = [held EXCEPT ![t] = FALSE]
      /\ dying' = IF \E u \in Tx : prev[u] = t THEN NoTx ELSE t
      /\ UNCHANGED << alive, kind, reg, prev, current, crashed, active >>
  BY DEF Drop, Running
<1>2. RegistryTypeOK' /\ NeverCrashes' /\ CurrentIsTop' /\ Distinct'
  BY <1>1 DEF IInv, RegistryTypeOK, NeverCrashes, CurrentIsTop, Distinct, Top
<1>3. Owned'
  <2>1. \A u \in Tx : u # t => held'[u] = held[u]
    BY <1>1 DEF IInv, RegistryTypeOK
  <2>2. ~held'[t] /\ t \in alive
    BY <1>1 DEF IInv, RegistryTypeOK, Owned
  <2>3. \A u \in alive : u \in Tx /\ u # NoTx
    BY NoTxAssumption DEF IInv, RegistryTypeOK
  <2>4. QED BY <1>1, <2>1, <2>2, <2>3 DEF IInv, Owned
<1>4. QED BY <1>2, <1>3 DEF IInv

\* The destructor
LEMMA DestroyIInv ==
  ASSUME IInv, NEW t \in Tx, Destroy(t)
  PROVE  IInv'
<1>1. /\ dying = t /\ t \in alive
      /\ alive' = alive \ {t}
      /\ kind' = [kind EXCEPT ![t] = "none"]
      /\ prev' = [prev EXCEPT ![t] = NoTx]
      /\ dying' = IF Unowned(prev[t], t) THEN prev[t] ELSE NoTx
      /\ UNCHANGED << held, crashed >>
  BY NoTxAssumption DEF Destroy, IInv, Owned
<1>2. /\ reg' \in [Tx -> BOOLEAN] /\ current' \in Tx \cup {NoTx} /\ active' \in Seq(Tx)
      /\ CurrentIsTop' /\ Distinct'
      /\ \A u \in Tx : reg'[u] => reg[u] /\ u # t
  <2>1. CASE reg[t]
    <3>1. Reset(t)
      BY <2>1 DEF Destroy
    <3>2. current = t
      <4>1. \A u \in Tx : prev[u] # t
        BY <1>1, NoTxAssumption DEF IInv, Owned
      <4>2. QED BY <2>1, <4>1, UnreferencedIsTop
    <3>3. prev' = [u \in Tx |-> IF u \in {t} THEN NoTx ELSE prev[u]] /\ {t} \in SUBSET Tx
      BY <1>1 DEF IInv, RegistryTypeOK
    <3>4. \A u \in Tx : reg'[u] => reg[u] /\ u # t
      BY <3>1 DEF Reset, IInv, RegistryTypeOK
    <3>5. QED BY <2>1, <3>1, <3>2, <3>3, <3>4, ResetStack
  <2>2. CASE ~reg[t]
    <3>1. UNCHANGED << reg, current, active >>
      BY <2>2 DEF Destroy
    <3>2. \A i \in 1 .. Len(active) : active[i] \in Tx /\ active[i] # t
      BY <2>2 DEF IInv, CurrentIsTop, RegistryTypeOK
    <3>3. \A i \in 1 .. Len(active) : prev'[active[i]] = prev[active[i]]
      BY <1>1, <3>2 DEF IInv, RegistryTypeOK
    <3>4. CurrentIsTop'
      BY <3>1, <3>3 DEF IInv, CurrentIsTop, Top
    <3>5. QED BY <2>2, <3>1, <3>4 DEF IInv, RegistryTypeOK, Distinct
  <2>3. QED BY <2>1, <2>2
<1>3. RegistryTypeOK' /\ NeverCrashes'
  <2>1. dying' \in Tx \cup {NoTx}
    BY <1>1 DEF IInv, RegistryTypeOK
  <2>2. prev' \in [Tx -> Tx \cup {NoTx}] /\ kind' \in [Tx -> Kinds \cup {"none"}]
    BY <1>1 DEF IInv, RegistryTypeOK
  <2>3. QED BY <1>1, <1>2, <2>1, <2>2 DEF IInv, RegistryTypeOK, NeverCrashes
<1>4. Owned'
  <2>1. \A u \in Tx : reg'[u] => u \in alive'
    BY <1>1, <1>2 DEF IInv, Owned
  <2>2. alive' # alive
    BY <1>1
  <2>3. QED BY <1>1, <2>1, <2>2, ReleasePrevious DEF Owned
<1>5. QED BY <1>2, <1>3, <1>4 DEF IInv

\* Every step of the program or of a destructor keeps the invariant.
LEMMA NextIInv ==
  ASSUME IInv, ~OutOfOrder, RegistryNext
  PROVE  IInv'
<1>1. ASSUME NEW t \in Tx, NEW k \in {"direct", "top"}, Begin(t, k) PROVE IInv'
  <2>1. k \in Kinds /\ Running /\ Construct(t, k)
    BY <1>1 DEF Kinds, TransactionKinds, Begin
  <2>2. QED BY <2>1, ConstructIInv
<1>2. ASSUME NEW p \in Tx, NEW t \in Tx, Subtransaction(p, t) PROVE IInv'
  <2>1. SubKind(p) \in Kinds /\ Running /\ Construct(t, SubKind(p))
    BY <1>2 DEF Kinds, TransactionKinds, SubKind, Subtransaction
  <2>2. QED BY <2>1, ConstructIInv
<1>3. ASSUME NEW p \in Tx, NEW t \in Tx, Pipeline(p, t) PROVE IInv'
  <2>1. "pipeline" \in Kinds /\ Running /\ Construct(t, "pipeline")
    BY <1>3 DEF Kinds, Pipeline
  <2>2. QED BY <2>1, ConstructIInv
<1>4. ASSUME NEW p \in Tx, NEW t \in Tx, Guard(p, t) PROVE IInv'
  <2>1. reg[p] /\ current \in alive
    <3>1. reg[p]
      BY <1>4 DEF Guard
    <3>2. current # NoTx
      <4>1. PICK i \in 1 .. Len(active) : active[i] = p
        BY <3>1 DEF IInv, CurrentIsTop
      <4>2. active # <<>>
        BY <4>1
      <4>3. QED BY <4>2, TopFacts
    <3>3. QED BY <3>1, <3>2, TopFacts
  <2>2. "guard" \in Kinds /\ Running /\ Construct(t, "guard")
    BY <1>4, <2>1 DEF Kinds, Guard
  <2>3. QED BY <2>2, ConstructIInv
<1>5. ASSUME NEW t \in Tx, Finish(t) PROVE IInv'
  BY <1>5, FinishIInv
<1>6. ASSUME NEW t \in Tx, FinishPipeline(t) PROVE IInv'
  BY <1>6, FinishPipelineIInv
<1>7. ASSUME NEW t \in Tx, Drop(t) PROVE IInv'
  BY <1>7, DropIInv
<1>8. ASSUME NEW t \in Tx, Destroy(t) PROVE IInv'
  BY <1>8, DestroyIInv
<1>9. QED BY <1>1, <1>2, <1>3, <1>4, <1>5, <1>6, <1>7, <1>8 DEF RegistryNext

LEMMA StutterIInv ==
  ASSUME IInv, UNCHANGED registryVars
  PROVE  IInv'
<1>1. RegistryTypeOK' /\ NeverCrashes' /\ CurrentIsTop' /\ Distinct'
  BY DEF IInv, registryVars, RegistryTypeOK, NeverCrashes, CurrentIsTop, Distinct, Top
<1>2. Owned'
  BY DEF IInv, registryVars, Owned
<1>3. QED BY <1>1, <1>2 DEF IInv

-----------------------------------------------------------------------------
\* The inductive invariant holds of every behaviour in which the program ends
\* its transactions in order.
THEOREM RegistryInvariant ==
  ASSUME ~OutOfOrder
  PROVE  RegistrySafeSpec => []IInv
<1>1. RegistryInit => IInv
  BY InitIInv
<1>2. IInv /\ [RegistryNext]_registryVars => IInv'
  BY NextIInv, StutterIInv
<1>3. QED BY <1>1, <1>2, PTL DEF RegistrySafeSpec

\* The state of the objects and of the connection has its type.
THEOREM RegistryTypeCorrect ==
  ASSUME ~OutOfOrder
  PROVE  RegistrySafeSpec => []RegistryTypeOK
<1>1. IInv => RegistryTypeOK
  BY DEF IInv
<1>2. QED BY <1>1, RegistryInvariant, PTL

\* m_current_transaction is the top of the documented stack and the m_previous
\* pointers link the rest of it, for any number of objects.
THEOREM CurrentIsAlwaysTop ==
  ASSUME ~OutOfOrder
  PROVE  RegistrySafeSpec => []CurrentIsTop
<1>1. IInv => CurrentIsTop
  BY DEF IInv
<1>2. QED BY <1>1, RegistryInvariant, PTL

\* Neither the raw pointer nor a m_previous ever dangles, and an object lives
\* exactly as long as a shared_ptr to it.
THEOREM PointersAlwaysAlive ==
  ASSUME ~OutOfOrder
  PROVE  RegistrySafeSpec => []PointersAlive
<1>1. IInv => PointersAlive
  <2> SUFFICES ASSUME IInv PROVE PointersAlive
    OBVIOUS
  <2>1. current \in alive \cup {NoTx}
    BY TopFacts
  <2>2. \A t \in Tx : prev[t] \in alive \cup {NoTx}
    BY DEF IInv, Owned
  <2>3. \A t \in Tx \ {dying} :
          t \in alive <=> held[t] \/ \E u \in Tx : prev[u] = t
    BY NoTxAssumption DEF IInv, Owned
  <2>4. QED BY <2>1, <2>2, <2>3 DEF PointersAlive
<1>2. QED BY <1>1, RegistryInvariant, PTL

\* A program that keeps the order never makes the library follow a null
\* m_connection or m_current_transaction.
THEOREM InOrderNeverCrashes ==
  ASSUME ~OutOfOrder
  PROVE  RegistrySafeSpec => []NeverCrashes
<1>1. IInv => NeverCrashes
  BY DEF IInv
<1>2. QED BY <1>1, RegistryInvariant, PTL

-----------------------------------------------------------------------------
(* Every step is one of TransactionOrder or leaves the stack alone.        *)

LEMMA ConstructBegins ==
  ASSUME IInv, NEW t \in Tx, NEW k, Construct(t, k)
  PROVE  Order!Next
<1>1. \A i \in 1 .. Len(active) : active[i] # t
  <2>1. ~reg[t]
    BY DEF Construct, IInv, Owned
  <2>2. QED BY <2>1 DEF IInv, CurrentIsTop
<1>2. active' = Append(active, t)
  BY DEF Construct
<1>3. QED BY <1>1, <1>2 DEF Order!Next, Order!Begin

LEMMA ResetEnds ==
  ASSUME IInv, NEW t \in Tx, reg[t], current = t, Reset(t)
  PROVE  Order!Next
<1>1. active # <<>> /\ Top = t
  BY TopFacts, NoTxAssumption DEF Top
<1>2. active' = SubSeq(active, 1, Len(active) - 1)
  BY EndedIsFront DEF Reset
<1>3. QED BY <1>1, <1>2 DEF Order!Next, Order!End

LEMMA StepImplementsOrder ==
  ASSUME IInv, ~OutOfOrder, RegistryNext
  PROVE  Order!Next \/ UNCHANGED active
<1>1. ASSUME NEW t \in Tx, NEW k \in {"direct", "top"}, Begin(t, k) PROVE Order!Next
  BY <1>1, ConstructBegins DEF Begin
<1>2. ASSUME NEW p \in Tx, NEW t \in Tx, Subtransaction(p, t) PROVE Order!Next
  BY <1>2, ConstructBegins DEF Subtransaction
<1>3. ASSUME NEW p \in Tx, NEW t \in Tx, Pipeline(p, t) PROVE Order!Next
  BY <1>3, ConstructBegins DEF Pipeline
<1>4. ASSUME NEW p \in Tx, NEW t \in Tx, Guard(p, t)
      PROVE  Order!Next \/ UNCHANGED active
  <2>1. Construct(t, "guard") \/ Crash
    BY <1>4 DEF Guard
  <2>2. QED BY <2>1, ConstructBegins DEF Crash
<1>5. ASSUME NEW t \in Tx, Finish(t) PROVE Order!Next \/ UNCHANGED active
  <2>1. CASE reg[t]
    <3>1. Reset(t) /\ current = t
      BY <1>5, <2>1 DEF Finish
    <3>2. QED BY <2>1, <3>1, ResetEnds
  <2>2. CASE ~reg[t]
    BY <1>5, <2>2 DEF Finish, Crash
  <2>3. QED BY <2>1, <2>2
<1>6. ASSUME NEW t \in Tx, FinishPipeline(t) PROVE Order!Next
  BY <1>6, ResetEnds DEF FinishPipeline
<1>7. ASSUME NEW t \in Tx, Drop(t) PROVE UNCHANGED active
  BY <1>7 DEF Drop
<1>8. ASSUME NEW t \in Tx, Destroy(t) PROVE Order!Next \/ UNCHANGED active
  <2>1. CASE reg[t]
    <3>1. Reset(t)
      BY <1>8, <2>1 DEF Destroy
    <3>2. \A u \in Tx : prev[u] # t
      BY <1>8, NoTxAssumption DEF Destroy, IInv, Owned
    <3>3. current = t
      BY <2>1, <3>2, UnreferencedIsTop
    <3>4. QED BY <2>1, <3>1, <3>3, ResetEnds
  <2>2. CASE ~reg[t]
    BY <1>8, <2>2 DEF Destroy
  <2>3. QED BY <2>1, <2>2
<1>9. QED
  BY <1>1, <1>2, <1>3, <1>4, <1>5, <1>6, <1>7, <1>8 DEF RegistryNext

\* The objects of one connection implement the documented ordering: new
\* transactions go on top, and only the top one's lifetime ends.
THEOREM RegistryImplementsOrder ==
  ASSUME ~OutOfOrder
  PROVE  RegistrySafeSpec => ImplementsTransactionOrder
<1>1. RegistryInit => Order!Init
  BY DEF RegistryInit, Order!Init
<1>2. IInv /\ [RegistryNext]_registryVars => [Order!Next]_active
  BY StepImplementsOrder DEF registryVars
<1>3. QED
  BY <1>1, <1>2, RegistryInvariant, PTL
  DEF RegistrySafeSpec, ImplementsTransactionOrder, Order!Spec
=============================================================================
