----------------------------- MODULE PoolProofs -----------------------------
(***************************************************************************)
(* For every set of threads, connections and pools: no connection is ever  *)
(* in two places, what waits in a list is free, m_attached is exact, no    *)
(* pool is used after it was destroyed, and get() hands out only what it   *)
(* promises.                                                               *)
(*                                                                         *)
(* None of these is inductive.  They are taken in five layers, each of     *)
(* which the later ones rely on: what the variables of a call hold at each *)
(* of its labels (Typed, InCallOK); that who shares a pool keeps it alive  *)
(* (PoolsAlive); that a connection has one owner and an open one has one   *)
(* (OneOwner, Accounted); what an owner knows of it (PlaceOK): only the    *)
(* owner changes its link or status, so what get() or push() has seen to   *)
(* still holds some steps of other threads later; and the counters         *)
(* (CountsOK), where a decrement relies on the connection being among      *)
(* those counted.  Nothing is assumed of the sets of threads, connections  *)
(* and pools: that finitely many connections are open is an invariant.     *)
(***************************************************************************)
EXTENDS Pool, FiniteSetTheorems, SequenceTheorems, TLAPS

\* No connection is in the list twice.
NoRepeat(s) == \A i, j \in 1 .. Len(s) : s[i] = s[j] => i = j

\* TypeOK, except that the counters are not known to be at least zero; and
\* what the label of a thread says of the variables of its call.
Typed ==
  /\ pc \in [Thread -> Labels]
  /\ item \in [Thread -> Conn \cup {NoConn}]
  /\ pool \in [Thread -> PoolId \cup {NoPool}]
  /\ target \in [Thread -> PoolId \cup {NoPool}]
  /\ mine \in [Thread -> SUBSET Conn]
  /\ exists \in SUBSET Conn
  /\ link \in [Conn -> PoolId \cup {NoPool}]
  /\ status \in [Conn -> Statuses]
  /\ ended \in SUBSET Conn
  /\ lapsed \in SUBSET ended
  /\ nEnded \in 0 .. MaxEnded
  /\ handle \in [PoolId -> BOOLEAN]
  /\ alive \in [PoolId -> BOOLEAN]
  /\ items \in [PoolId -> Seq(Conn)]
  /\ attached \in [PoolId -> Int]

InCallOK ==
  \A th \in Thread :
    /\ pc[th] = "idle" => item[th] = NoConn /\ pool[th] = NoPool
    /\ pc[th] = "relink" => item[th] \in mine[th] /\ pool[th] = NoPool
    /\ pc[th] \in {"pull", "create", "leave"} => item[th] = NoConn /\ pool[th] \in PoolId
    /\ pc[th] \in {"check", "count", "uncount", "validate", "push"} =>
         item[th] \in Conn /\ pool[th] \in PoolId

\* A shared_ptr keeps its pool alive; a pool that is gone has no list.
PoolsAlive ==
  /\ \A p \in PoolId : handle[p] => alive[p]
  /\ \A p \in PoolId : ~alive[p] => items[p] = <<>>
  /\ NoUseAfterFree

\* No connection is in two places: with two threads, in two calls, with a
\* thread and in a call (but for that of attach(), which is about a connection
\* the thread keeps), twice in a list or in two, or in a list and outside.
LentOnce == \A th, u \in Thread : \A c \in mine[th] : c \in mine[u] => th = u
HeldOnce == \A th, u \in Thread : item[th] # NoConn /\ item[th] = item[u] => th = u
HeldOrLent == \A th, u \in Thread : item[th] \in mine[u] => th = u /\ pc[th] = "relink"
ListedOnce ==
  /\ \A p \in PoolId : NoRepeat(items[p])
  /\ \A p, q \in PoolId : \A c \in Elements(items[p]) : c \in Elements(items[q]) => p = q
ListedAlone ==
  \A p \in PoolId : \A c \in Elements(items[p]) : \A th \in Thread :
    c \notin mine[th] /\ c # item[th]

OneOwner == LentOnce /\ HeldOnce /\ HeldOrLent /\ ListedOnce /\ ListedAlone

\* What is in some place is open, and what is open is in some place.
Accounted ==
  /\ \A th \in Thread : mine[th] \subseteq exists
  /\ \A th \in Thread : item[th] # NoConn => item[th] \in exists
  /\ \A p \in PoolId : Elements(items[p]) \subseteq exists
  /\ \A c \in exists : \/ \E th \in Thread : c \in mine[th] \/ item[th] = c
                       \/ \E p \in PoolId : c \in Elements(items[p])

\* What is known of a connection at each place: a closed one is as if it had
\* never been open, and a call knows what it has seen to.
ClosedIsBlank ==
  \A c \in Conn \ exists : link[c] = NoPool /\ status[c] = "idle" /\ c \notin ended
HeldIsSeenTo ==
  \A th \in Thread :
    /\ pc[th] \in {"check", "push"} => status[item[th]] = "idle" /\ link[item[th]] = NoPool
    /\ pc[th] = "count" => /\ status[item[th]] = "idle" /\ link[item[th]] = pool[th]
                           /\ SeesEnd => item[th] \notin lapsed
    /\ pc[th] = "uncount" => link[item[th]] = pool[th]

PlaceOK == ClosedIsBlank /\ ListedIsFree /\ HeldIsSeenTo

\* The counters are exact and of their type.
CountsOK ==
  /\ IsFiniteSet(exists)
  /\ attached \in [PoolId -> Nat]
  /\ AttachedIsExact

IInv == Typed /\ InCallOK /\ PoolsAlive /\ OneOwner /\ Accounted /\ PlaceOK /\ CountsOK

-----------------------------------------------------------------------------
(* The lists                                                               *)

\* The list of a new pool, and of one that is gone
LEMMA EmptyList == <<>> \in Seq(Conn) /\ Elements(<<>>) = {} /\ NoRepeat(<<>>)
BY EmptySeq DEF Elements, NoRepeat

\* push_back() adds a connection and nothing else.
LEMMA PushedList ==
  ASSUME NEW s \in Seq(Conn), NEW c \in Conn
  PROVE  /\ Append(s, c) \in Seq(Conn)
         /\ Elements(Append(s, c)) = Elements(s) \cup {c}
         /\ NoRepeat(s) /\ c \notin Elements(s) => NoRepeat(Append(s, c))
<1> DEFINE t == Append(s, c)
<1>1. /\ t \in Seq(Conn) /\ Len(s) \in Nat /\ Len(t) = Len(s) + 1
      /\ t[Len(s) + 1] = c /\ \A i \in 1 .. Len(s) : t[i] = s[i]
  BY AppendProperties, LenProperties
<1> HIDE DEF t
<1>2. Elements(t) = Elements(s) \cup {c}
  <2>1. ASSUME NEW x \in Elements(t) PROVE x \in Elements(s) \cup {c}
    BY <1>1, <2>1 DEF Elements
  <2>2. ASSUME NEW x \in Elements(s) PROVE x \in Elements(t)
    <3>1. PICK i \in 1 .. Len(s) : x = s[i]
      BY <2>2 DEF Elements
    <3>2. i \in 1 .. Len(t) /\ t[i] = x
      BY <1>1, <3>1
    <3>3. QED BY <3>2 DEF Elements
  <2>3. c \in Elements(t)
    <3>1. Len(s) + 1 \in 1 .. Len(t)
      BY <1>1
    <3>2. QED BY <1>1, <3>1 DEF Elements
  <2>4. QED BY <2>1, <2>2, <2>3
<1>3. NoRepeat(s) /\ c \notin Elements(s) => NoRepeat(t)
  BY <1>1 DEF NoRepeat, Elements
<1>4. QED BY <1>1, <1>2, <1>3 DEF t

\* pop_back() removes the last connection and nothing else.
LEMMA PoppedList ==
  ASSUME NEW s \in Seq(Conn), s # <<>>
  PROVE  LET t == SubSeq(s, 1, Len(s) - 1)
         IN  /\ t \in Seq(Conn)
             /\ s[Len(s)] \in Elements(s) /\ s[Len(s)] \in Conn
             /\ Elements(t) \subseteq Elements(s)
             /\ NoRepeat(s) => NoRepeat(t) /\ Elements(t) = Elements(s) \ {s[Len(s)]}
<1> DEFINE k == Len(s) - 1
<1> DEFINE t == SubSeq(s, 1, k)
<1>1. /\ Len(s) \in Nat \ {0} /\ 1 \in Int /\ k \in Int
      /\ \A i \in 1 .. Len(s) : s[i] \in Conn
  BY EmptySeq, ElementOfSeq, LenProperties
<1>2. /\ t \in Seq(Conn) /\ Len(t) = k /\ k \in Nat /\ Len(s) = k + 1
      /\ \A i \in 1 .. k : t[i] = s[i]
  <2>1. \A i \in 1 .. k : s[i] \in Conn
    BY <1>1
  <2> HIDE DEF k
  <2>2. /\ t \in Seq(Conn)
        /\ Len(t) = IF 1 <= k THEN k - 1 + 1 ELSE 0
        /\ \A i \in 1 .. k - 1 + 1 : t[i] = s[1 + i - 1]
    BY <1>1, <2>1, SubSeqProperties
  <2>3. k \in Nat /\ Len(s) = k + 1
    BY <1>1 DEF k
  <2>4. QED BY <2>2, <2>3
<1> HIDE DEF k, t
<1>3. Len(s) \in 1 .. Len(s)
  BY <1>1
<1>4. s[Len(s)] \in Elements(s) /\ s[Len(s)] \in Conn
  BY <1>1, <1>3 DEF Elements
<1>5. Elements(t) \subseteq Elements(s)
  BY <1>2 DEF Elements
<1>6. ASSUME NoRepeat(s)
      PROVE  NoRepeat(t) /\ Elements(t) = Elements(s) \ {s[Len(s)]}
  <2>1. NoRepeat(t)
    BY <1>2, <1>6 DEF NoRepeat
  <2>2. s[Len(s)] \notin Elements(t)
    <3>1. \A i \in 1 .. k : s[i] # s[Len(s)]
      BY <1>2, <1>3, <1>6 DEF NoRepeat
    <3>2. QED BY <1>2, <3>1 DEF Elements
  <2>3. ASSUME NEW x \in Elements(s), x # s[Len(s)] PROVE x \in Elements(t)
    <3>1. PICK i \in 1 .. Len(s) : x = s[i]
      BY DEF Elements
    <3>2. i \in 1 .. k
      BY <1>2, <2>3, <3>1
    <3>3. QED BY <1>2, <3>1, <3>2 DEF Elements
  <2>4. QED BY <1>5, <2>1, <2>2, <2>3
<1>7. QED BY <1>2, <1>4, <1>5, <1>6 DEF t, k

\* The rank of the places in keep runs through 1 .. Cardinality(keep), each
\* rank that of one place.
LEMMA Ranks ==
  ASSUME NEW n \in Nat, NEW keep \in SUBSET (1 .. n)
  PROVE  LET R(i) == Cardinality({ j \in keep : j <= i })
         IN  /\ Cardinality(keep) \in Nat
             /\ \A i \in keep : R(i) \in 1 .. Cardinality(keep)
             /\ \A i, j \in keep : R(i) = R(j) => i = j
             /\ \A k \in 1 .. Cardinality(keep) : \E i \in keep : R(i) = k
<1> DEFINE U(i) == { j \in keep : j <= i }
<1> DEFINE m == Cardinality(keep)
<1> DEFINE r == [ i \in keep |-> Cardinality(U(i)) ]
<1>1. IsFiniteSet(keep) /\ m \in Nat
  <2>1. IsFiniteSet(1 .. n)
    BY FS_Interval
  <2>2. QED BY <2>1, FS_Subset, FS_CardinalityType
<1>2. \A i : U(i) \in SUBSET keep /\ IsFiniteSet(U(i)) /\ Cardinality(U(i)) \in Nat
             /\ Cardinality(U(i)) <= m
  BY <1>1, FS_Subset, FS_CardinalityType
<1>3. \A i \in keep : r[i] \in 1 .. m
  <2> SUFFICES ASSUME NEW i \in keep PROVE Cardinality(U(i)) \in 1 .. m
    OBVIOUS
  <2>1. i \in U(i)
    OBVIOUS
  <2>2. Cardinality(U(i)) # 0
    BY <1>2, <2>1, FS_EmptySet
  <2>3. QED BY <1>1, <1>2, <2>2
<1>4. ASSUME NEW i \in keep, NEW j \in keep, i < j
      PROVE  r[i] # r[j]
  <2>1. U(i) \in SUBSET U(j) /\ j \in U(j) /\ j \notin U(i)
    <3>1. i \in Int /\ j \in Int /\ i < j /\ \A x \in keep : x \in Int
      BY <1>4
    <3>2. \A x \in U(i) : x \in keep /\ x <= j
      BY <3>1
    <3>3. j <= j /\ ~(j <= i)
      BY <3>1
    <3>4. QED BY <3>2, <3>3
  <2>2. Cardinality(U(i)) # Cardinality(U(j))
    BY <1>2, <2>1, FS_Subset
  <2>3. QED BY <2>2
<1>5. \A i, j \in keep : r[i] = r[j] => i = j
  <2> SUFFICES ASSUME NEW i \in keep, NEW j \in keep, r[i] = r[j], i # j
               PROVE  FALSE
    OBVIOUS
  <2>1. i < j \/ j < i
    OBVIOUS
  <2>2. QED BY <1>4, <2>1
<1>6. r \in Injection(keep, 1 .. m)
  BY <1>3, <1>5 DEF Injection, IsInjective
<1>7. IsFiniteSet(1 .. m) /\ Cardinality(1 .. m) = m
  BY <1>1, FS_Interval
<1>8. r \in Surjection(keep, 1 .. m)
  BY <1>6, <1>7, FS_Injection
<1>9. \A k \in 1 .. m : \E i \in keep : r[i] = k
  BY <1>8 DEF Surjection
<1>10. QED BY <1>1, <1>3, <1>5, <1>9

\* erase_invalid() removes the invalid connections and nothing else.
LEMMA KeptList ==
  ASSUME NEW s \in Seq(Conn)
  PROVE  /\ Kept(s) \in Seq(Conn)
         /\ Elements(Kept(s)) = { c \in Elements(s) : Valid(c) }
         /\ NoRepeat(s) => NoRepeat(Kept(s))
<1> DEFINE keep == { i \in 1 .. Len(s) : Valid(s[i]) }
<1> DEFINE R(i) == Cardinality({ j \in keep : j <= i })
<1> DEFINE m == Cardinality(keep)
<1> DEFINE at == [ k \in 1 .. m |-> CHOOSE i \in keep : R(i) = k ]
<1>1. Len(s) \in Nat /\ keep \in SUBSET (1 .. Len(s)) /\ \A i \in 1 .. Len(s) : s[i] \in Conn
  BY ElementOfSeq, LenProperties
<1>2. /\ m \in Nat
      /\ \A i \in keep : R(i) \in 1 .. m
      /\ \A i, j \in keep : R(i) = R(j) => i = j
      /\ \A k \in 1 .. m : \E i \in keep : R(i) = k
  <2> HIDE DEF keep
  <2>1. QED BY <1>1, Ranks
<1> DEFINE t == [ k \in 1 .. m |-> s[at[k]] ]
<1>3. Kept(s) = t
  BY DEF Kept
<1> HIDE DEF m, R
<1>4. \A k \in 1 .. m : at[k] \in keep /\ R(at[k]) = k
  <2> HIDE DEF keep
  <2>1. QED BY <1>2
<1> HIDE DEF at
<1>5. t \in Seq(Conn) /\ Len(t) = m /\ \A k \in 1 .. m : t[k] = s[at[k]]
  BY <1>1, <1>2, <1>4
<1> HIDE DEF t
<1>6. Elements(t) = { c \in Elements(s) : Valid(c) }
  <2>1. ASSUME NEW k \in 1 .. m PROVE t[k] \in Elements(s) /\ Valid(t[k])
    BY <1>4, <1>5 DEF Elements
  <2>2. ASSUME NEW c \in Elements(s), Valid(c) PROVE c \in Elements(t)
    <3>1. PICK i \in 1 .. Len(s) : c = s[i]
      BY DEF Elements
    <3>2. i \in keep
      BY <2>2, <3>1
    <3> DEFINE k == R(i)
    <3>3. k \in 1 .. m /\ at[k] = i
      <4> HIDE DEF keep
      <4>1. QED BY <1>2, <1>4, <3>2
    <3>4. c = t[k]
      BY <1>5, <3>1, <3>3
    <3>5. QED BY <1>5, <3>3, <3>4 DEF Elements
  <2>3. QED BY <1>5, <2>1, <2>2 DEF Elements
<1>7. ASSUME NoRepeat(s) PROVE NoRepeat(t)
  <2> SUFFICES ASSUME NEW k \in 1 .. m, NEW l \in 1 .. m, t[k] = t[l] PROVE k = l
    BY <1>5 DEF NoRepeat
  <2>1. at[k] = at[l]
    BY <1>4, <1>5, <1>7 DEF NoRepeat
  <2>2. QED BY <1>4, <2>1
<1>8. QED BY <1>3, <1>5, <1>6, <1>7

-----------------------------------------------------------------------------
(* Types                                                                   *)

\* What is closed is forgotten; the rest of the connections are as before.
LEMMA ClosedTyped ==
  ASSUME Typed, NEW C \in SUBSET Conn, Close(C)
  PROVE  /\ exists' \in SUBSET Conn
         /\ link' \in [Conn -> PoolId \cup {NoPool}]
         /\ status' \in [Conn -> Statuses]
         /\ ended' \in SUBSET Conn
         /\ lapsed' \in SUBSET ended'
         /\ nEnded' \in 0 .. MaxEnded
BY DEF Typed, Close, Statuses

LEMMA LetGoTyped ==
  ASSUME Typed, NEW p \in PoolId, NEW others \in BOOLEAN, LetGo(p, others)
  PROVE  /\ exists' \in SUBSET Conn
         /\ link' \in [Conn -> PoolId \cup {NoPool}]
         /\ status' \in [Conn -> Statuses]
         /\ ended' \in SUBSET Conn
         /\ lapsed' \in SUBSET ended'
         /\ nEnded' \in 0 .. MaxEnded
         /\ alive' \in [PoolId -> BOOLEAN]
         /\ items' \in [PoolId -> Seq(Conn)]
<1>1. CASE others
  BY <1>1 DEF Typed, LetGo, serverVars
<1>2. CASE ~others
  <2>1. items[p] \in Seq(Conn) /\ Elements(items[p]) \in SUBSET Conn
    BY ElementOfSeq, LenProperties DEF Typed, Elements
  <2>2. Close(Elements(items[p]))
    BY <1>2 DEF LetGo
  <2>3. alive' \in [PoolId -> BOOLEAN] /\ items' \in [PoolId -> Seq(Conn)]
    BY <1>2, EmptyList DEF Typed, LetGo
  <2>4. QED BY <2>1, <2>2, <2>3, ClosedTyped
<1>3. QED BY <1>1, <1>2

LEMMA InitTyped == Init => Typed /\ InCallOK
<1> SUFFICES ASSUME Init PROVE Typed /\ InCallOK
  OBVIOUS
<1>1. Typed
  BY EmptyList, MaxEndedAssumption DEF Init, Typed, Labels, Statuses
<1>2. InCallOK
  BY DEF Init, InCallOK
<1>3. QED BY <1>1, <1>2

LEMMA StepTyped ==
  ASSUME Typed, InCallOK, [Next]_vars
  PROVE  Typed' /\ InCallOK'
<1> USE NoConnAssumption, NoPoolAssumption DEF Goto, Set, poolVars, serverVars
<1>1. ASSUME NEW th \in Thread, NEW p \in PoolId, Get(th, p)
      PROVE  Typed' /\ InCallOK'
  <2>1. Typed'
    BY <1>1 DEF Typed, Get, Labels
  <2>2. InCallOK'
    BY <1>1 DEF Typed, InCallOK, Get
  <2>3. QED BY <2>1, <2>2
<1>2. ASSUME NEW th \in Thread, Pull(th)
      PROVE  Typed' /\ InCallOK'
  <2> DEFINE s == items[pool[th]]
  <2>1. pool[th] \in PoolId /\ s \in Seq(Conn)
    BY <1>2 DEF Typed, InCallOK, Pull
  <2>2. s # <<>> => s[Len(s)] \in Conn /\ SubSeq(s, 1, Len(s) - 1) \in Seq(Conn)
    BY <2>1, PoppedList
  <2>3. Typed'
    <3>1. CASE s = <<>>
      BY <1>2, <3>1 DEF Typed, Pull, Labels
    <3>2. CASE s # <<>>
      <4> HIDE DEF s
      <4>1. /\ pc' = [pc EXCEPT ![th] = "check"] /\ item' = [item EXCEPT ![th] = s[Len(s)]]
            /\ items' = [items EXCEPT ![pool[th]] = SubSeq(s, 1, Len(s) - 1)]
        BY <1>2, <3>2 DEF Pull, s
      <4>2. item' \in [Thread -> Conn \cup {NoConn}] /\ items' \in [PoolId -> Seq(Conn)]
        BY <2>1, <2>2, <3>2, <4>1 DEF Typed
      <4>3. pc' \in [Thread -> Labels]
        BY <4>1 DEF Typed, Labels
      <4>4. UNCHANGED << pool, target, mine, exists, link, serverVars, handle, alive, attached >>
        BY <1>2 DEF Pull
      <4>5. QED BY <4>2, <4>3, <4>4 DEF Typed
    <3>3. QED BY <3>1, <3>2
  <2>4. InCallOK'
    BY <1>2, <2>1, <2>2 DEF Typed, InCallOK, Pull
  <2>5. QED BY <2>3, <2>4
<1>3. ASSUME NEW th \in Thread, Check(th)
      PROVE  Typed' /\ InCallOK'
  <2>1. item[th] \in Conn /\ pool[th] \in PoolId
    BY <1>3 DEF InCallOK, Check
  <2>2. CASE Valid(item[th])
    <3>1. Typed'
      BY <1>3, <2>1, <2>2 DEF Typed, Check, Labels
    <3>2. InCallOK'
      BY <1>3, <2>1, <2>2 DEF Typed, InCallOK, Check
    <3>3. QED BY <3>1, <3>2
  <2>3. CASE ~Valid(item[th])
    <3>1. Close({item[th]}) /\ {item[th]} \in SUBSET Conn
      BY <1>3, <2>1, <2>3 DEF Check
    <3>2. Typed'
      BY <1>3, <2>1, <2>3, <3>1, ClosedTyped DEF Typed, Check, Labels
    <3>3. InCallOK'
      BY <1>3, <2>1, <2>3 DEF Typed, InCallOK, Check
    <3>4. QED BY <3>2, <3>3
  <2>4. QED BY <2>2, <2>3
<1>4. ASSUME NEW th \in Thread, CreateFails(th)
      PROVE  Typed' /\ InCallOK'
  BY <1>4 DEF Typed, InCallOK, CreateFails, Labels
<1>5. ASSUME NEW th \in Thread, NEW c \in Conn, Create(th, c)
      PROVE  Typed' /\ InCallOK'
  BY <1>5 DEF Typed, InCallOK, Create, Labels
<1>6. ASSUME NEW th \in Thread, Count(th)
      PROVE  Typed' /\ InCallOK'
  <2>1. item[th] \in Conn /\ pool[th] \in PoolId
    BY <1>6 DEF InCallOK, Count
  <2>2. Typed'
    BY <1>6, <2>1 DEF Typed, Count, Labels
  <2>3. InCallOK'
    BY <1>6, <2>1 DEF Typed, InCallOK, Count
  <2>4. QED BY <2>2, <2>3
<1>7. ASSUME NEW th \in Thread, Leave(th)
      PROVE  Typed' /\ InCallOK'
  <2> DEFINE p == pool[th]
  <2> DEFINE others == handle[p] \/ \E u \in Thread \ {th} : pool[u] = p
  <2>1. p \in PoolId /\ others \in BOOLEAN /\ LetGo(p, others)
    BY <1>7 DEF Typed, InCallOK, Leave
  <2> HIDE DEF others
  <2>2. Typed'
    BY <1>7, <2>1, LetGoTyped DEF Typed, Leave, Labels
  <2>3. InCallOK'
    BY <1>7 DEF Typed, InCallOK, Leave
  <2>4. QED BY <2>2, <2>3
<1>8. ASSUME NEW th \in Thread, NEW c \in Conn, GiveBack(th, c)
      PROVE  Typed' /\ InCallOK'
  <2>1. CASE Locks(link[c])
    <3>1. link[c] \in PoolId
      BY <2>1 DEF Typed, Locks
    <3>2. Typed'
      <4>1. mine' \in [Thread -> SUBSET Conn] /\ pool' \in [Thread -> PoolId \cup {NoPool}]
        BY <1>8, <2>1, <3>1 DEF Typed, GiveBack
      <4>2. /\ pc' = [pc EXCEPT ![th] = "uncount"] /\ item' = [item EXCEPT ![th] = c]
            /\ UNCHANGED << target, poolVars, exists, link, serverVars >>
        BY <1>8, <2>1 DEF GiveBack
      <4>3. pc' \in [Thread -> Labels] /\ item' \in [Thread -> Conn \cup {NoConn}]
        BY <4>2 DEF Typed, Labels
      <4>4. QED BY <4>1, <4>2, <4>3 DEF Typed
    <3>3. InCallOK'
      BY <1>8, <2>1, <3>1 DEF Typed, InCallOK, GiveBack
    <3>4. QED BY <3>2, <3>3
  <2>2. CASE ~Locks(link[c])
    <3>1. Close({c}) /\ {c} \in SUBSET Conn
      BY <1>8, <2>2 DEF GiveBack
    <3>2. Typed'
      BY <1>8, <2>2, <3>1, ClosedTyped DEF Typed, GiveBack
    <3>3. InCallOK'
      BY <1>8, <2>2 DEF Typed, InCallOK, GiveBack
    <3>4. QED BY <3>2, <3>3
  <2>3. QED BY <2>1, <2>2
<1>9. ASSUME NEW th \in Thread, Uncount(th)
      PROVE  Typed' /\ InCallOK'
  BY <1>9 DEF Typed, InCallOK, Uncount, Labels
<1>10. ASSUME NEW th \in Thread, Validate(th)
       PROVE  Typed' /\ InCallOK'
  <2>1. item[th] \in Conn /\ pool[th] \in PoolId
    BY <1>10 DEF InCallOK, Validate
  <2>2. CASE Valid(item[th])
    BY <1>10, <2>1, <2>2 DEF Typed, InCallOK, Validate, Labels
  <2>3. CASE ~Valid(item[th])
    <3>1. Close({item[th]}) /\ {item[th]} \in SUBSET Conn
      BY <1>10, <2>1, <2>3 DEF Validate
    <3>2. Typed'
      BY <1>10, <2>1, <2>3, <3>1, ClosedTyped DEF Typed, Validate, Labels
    <3>3. InCallOK'
      BY <1>10, <2>1, <2>3 DEF Typed, InCallOK, Validate
    <3>4. QED BY <3>2, <3>3
  <2>4. QED BY <2>2, <2>3
<1>11. ASSUME NEW th \in Thread, Push(th)
       PROVE  Typed' /\ InCallOK'
  <2>1. item[th] \in Conn /\ pool[th] \in PoolId
    BY <1>11 DEF InCallOK, Push
  <2>2. Append(items[pool[th]], item[th]) \in Seq(Conn)
    BY <2>1, PushedList DEF Typed
  <2>3. Typed'
    BY <1>11, <2>1, <2>2 DEF Typed, Push, Labels
  <2>4. InCallOK'
    BY <1>11, <2>1 DEF Typed, InCallOK, Push
  <2>5. QED BY <2>3, <2>4
<1>12. ASSUME NEW th \in Thread, NEW c \in Conn, NEW q \in PoolId \cup {NoPool}, Attach(th, c, q)
       PROVE  Typed' /\ InCallOK'
  <2>1. Locks(link[c]) => link[c] \in PoolId
    BY DEF Typed, Locks
  <2>2. Typed'
    BY <1>12, <2>1 DEF Typed, Attach, Labels
  <2>3. InCallOK'
    BY <1>12 DEF Typed, InCallOK, Attach
  <2>4. QED BY <2>2, <2>3
<1>13. ASSUME NEW th \in Thread, Relink(th)
       PROVE  Typed' /\ InCallOK'
  <2>1. item[th] \in Conn /\ target[th] \in PoolId \cup {NoPool}
    BY <1>13 DEF Typed, InCallOK, Relink
  <2>2. Locks(target[th]) => target[th] \in PoolId
    BY <2>1 DEF Locks
  <2>3. Typed'
    BY <1>13, <2>1, <2>2 DEF Typed, Relink, Labels
  <2>4. InCallOK'
    BY <1>13 DEF Typed, InCallOK, Relink
  <2>5. QED BY <2>3, <2>4
<1>14. ASSUME NEW th \in Thread, NEW p \in PoolId, EraseInvalid(th, p)
       PROVE  Typed' /\ InCallOK'
  <2> DEFINE C == { c \in Elements(items[p]) : ~Valid(c) }
  <2>1. items[p] \in Seq(Conn) /\ Kept(items[p]) \in Seq(Conn)
    BY KeptList DEF Typed
  <2>2. Close(C) /\ C \in SUBSET Conn
    BY <1>14, <2>1, ElementOfSeq, LenProperties DEF EraseInvalid, Elements
  <2> HIDE DEF C
  <2>3. Typed'
    BY <1>14, <2>1, <2>2, ClosedTyped DEF Typed, EraseInvalid, threadVars
  <2>4. InCallOK'
    BY <1>14 DEF InCallOK, EraseInvalid, threadVars
  <2>5. QED BY <2>3, <2>4
<1>15. ASSUME NEW p \in PoolId, DropPool(p)
       PROVE  Typed' /\ InCallOK'
  <2>1. LetGo(p, \E u \in Thread : pool[u] = p)
    BY <1>15 DEF DropPool
  <2>2. Typed'
    BY <1>15, <2>1, LetGoTyped DEF Typed, DropPool, threadVars
  <2>3. InCallOK'
    BY <1>15 DEF InCallOK, DropPool, threadVars
  <2>4. QED BY <2>2, <2>3
<1>16. ASSUME NEW th \in Thread, NEW c \in Conn, NEW s \in Statuses, Use(th, c, s)
       PROVE  Typed' /\ InCallOK'
  BY <1>16 DEF Typed, InCallOK, Use, threadVars
<1>17. ASSUME NEW c \in Conn, EndSession(c)
       PROVE  Typed' /\ InCallOK'
  <2>1. Typed'
    BY <1>17, MaxEndedAssumption DEF Typed, EndSession, threadVars
  <2>2. InCallOK'
    BY <1>17 DEF InCallOK, EndSession, threadVars
  <2>3. QED BY <2>1, <2>2
<1>18. CASE UNCHANGED vars
  BY <1>18 DEF Typed, InCallOK, vars, Valid
<1>19. QED
  BY <1>1, <1>2, <1>3, <1>4, <1>5, <1>6, <1>7, <1>8, <1>9, <1>10, <1>11, <1>12, <1>13,
     <1>14, <1>15, <1>16, <1>17, <1>18 DEF Next, Continue

-----------------------------------------------------------------------------
(* The lifetime of the pools                                               *)

LEMMA InitPoolsAlive == Init => PoolsAlive
BY DEF Init, PoolsAlive, NoUseAfterFree

\* Pools live as long as somebody shares them.
LEMMA StepPoolsAlive ==
  ASSUME Typed, InCallOK, PoolsAlive, [Next]_vars
  PROVE  PoolsAlive'
<1> USE NoPoolAssumption DEF poolVars, threadVars
<1>1. CASE UNCHANGED << pool, handle, alive, items >>
  BY <1>1 DEF PoolsAlive, NoUseAfterFree
<1>2. ASSUME NEW th \in Thread, NEW p \in PoolId, Get(th, p)
      PROVE  PoolsAlive'
  BY <1>2 DEF Typed, PoolsAlive, NoUseAfterFree, Get
<1>3. ASSUME NEW th \in Thread, Pull(th) \/ Push(th)
      PROVE  PoolsAlive'
  <2>1. pool[th] \in PoolId /\ alive[pool[th]]
    BY <1>3 DEF InCallOK, PoolsAlive, NoUseAfterFree, Pull, Push
  <2>2. UNCHANGED << pool, handle, alive >>
    BY <1>3 DEF Pull, Push
  <2>3. \A q \in PoolId : q # pool[th] => items'[q] = items[q]
    BY <1>3 DEF Typed, Pull, Push
  <2>4. QED BY <2>1, <2>2, <2>3 DEF PoolsAlive, NoUseAfterFree
<1>4. ASSUME NEW th \in Thread, Leave(th)
      PROVE  PoolsAlive'
  <2> DEFINE p == pool[th]
  <2>1. p \in PoolId /\ handle' = handle /\ pool' = [pool EXCEPT ![th] = NoPool]
    BY <1>4 DEF InCallOK, Leave
  <2>2. CASE handle[p] \/ \E u \in Thread \ {th} : pool[u] = p
    <3>1. UNCHANGED << alive, items >>
      BY <1>4, <2>2 DEF Leave, LetGo
    <3>2. QED BY <2>1, <3>1 DEF Typed, PoolsAlive, NoUseAfterFree
  <2>3. CASE ~(handle[p] \/ \E u \in Thread \ {th} : pool[u] = p)
    <3>1. alive' = [alive EXCEPT ![p] = FALSE] /\ items' = [items EXCEPT ![p] = <<>>]
      BY <1>4, <2>3 DEF Leave, LetGo
    <3>2. QED BY <2>1, <2>3, <3>1 DEF Typed, PoolsAlive, NoUseAfterFree
  <2>4. QED BY <2>2, <2>3
<1>5. ASSUME NEW th \in Thread, NEW c \in Conn, GiveBack(th, c)
      PROVE  PoolsAlive'
  <2>1. UNCHANGED << handle, alive, items >>
    BY <1>5 DEF GiveBack
  <2>2. (pool' = [pool EXCEPT ![th] = link[c]] /\ alive[link[c]]) \/ pool' = pool
    BY <1>5 DEF GiveBack, Locks
  <2>3. QED BY <2>1, <2>2 DEF Typed, PoolsAlive, NoUseAfterFree
<1>6. ASSUME NEW th \in Thread, NEW p \in PoolId, EraseInvalid(th, p)
      PROVE  PoolsAlive'
  <2>1. alive[p] /\ UNCHANGED << pool, handle, alive >>
    BY <1>6 DEF PoolsAlive, EraseInvalid
  <2>2. \A q \in PoolId : q # p => items'[q] = items[q]
    BY <1>6 DEF Typed, EraseInvalid
  <2>3. QED BY <2>1, <2>2 DEF PoolsAlive, NoUseAfterFree
<1>7. ASSUME NEW p \in PoolId, DropPool(p)
      PROVE  PoolsAlive'
  <2>1. handle' = [handle EXCEPT ![p] = FALSE] /\ pool' = pool
    BY <1>7 DEF DropPool
  <2>2. CASE \E u \in Thread : pool[u] = p
    <3>1. UNCHANGED << alive, items >>
      BY <1>7, <2>2 DEF DropPool, LetGo
    <3>2. QED BY <2>1, <3>1 DEF Typed, PoolsAlive, NoUseAfterFree
  <2>3. CASE ~\E u \in Thread : pool[u] = p
    <3>1. alive' = [alive EXCEPT ![p] = FALSE] /\ items' = [items EXCEPT ![p] = <<>>]
      BY <1>7, <2>3 DEF DropPool, LetGo
    <3>2. QED BY <2>1, <2>3, <3>1 DEF Typed, PoolsAlive, NoUseAfterFree
  <2>4. QED BY <2>2, <2>3
<1>8. ASSUME NEW th \in Thread,
             \/ Check(th) \/ CreateFails(th) \/ Count(th) \/ Uncount(th)
             \/ Validate(th) \/ Relink(th)
      PROVE  PoolsAlive'
  BY <1>1, <1>8 DEF Check, CreateFails, Count, Uncount, Validate, Relink
<1>9. ASSUME NEW th \in Thread, NEW c \in Conn, Create(th, c)
      PROVE  PoolsAlive'
  BY <1>1, <1>9 DEF Create
<1>10. ASSUME NEW th \in Thread, NEW c \in Conn, NEW q \in PoolId \cup {NoPool}, Attach(th, c, q)
       PROVE  PoolsAlive'
  BY <1>1, <1>10 DEF Attach
<1>11. ASSUME NEW th \in Thread, NEW c \in Conn, NEW s \in Statuses, Use(th, c, s)
       PROVE  PoolsAlive'
  BY <1>1, <1>11 DEF Use
<1>12. ASSUME NEW c \in Conn, EndSession(c)
       PROVE  PoolsAlive'
  BY <1>1, <1>12 DEF EndSession
<1>13. CASE UNCHANGED vars
  BY <1>1, <1>13 DEF vars
<1>14. QED
  BY <1>2, <1>3, <1>4, <1>5, <1>6, <1>7, <1>8, <1>9, <1>10, <1>11, <1>12, <1>13
     DEF Next, Continue

-----------------------------------------------------------------------------
(* Who has a connection                                                    *)

LEMMA InitOwners == Init => OneOwner /\ Accounted
<1> SUFFICES ASSUME Init PROVE OneOwner /\ Accounted
  OBVIOUS
<1>1. \A p \in PoolId : Elements(items[p]) = {} /\ NoRepeat(items[p])
  BY EmptyList DEF Init
<1>2. OneOwner
  BY <1>1 DEF Init, OneOwner, LentOnce, HeldOnce, HeldOrLent, ListedOnce, ListedAlone
<1>3. Accounted
  BY <1>1 DEF Init, Accounted
<1>4. QED BY <1>2, <1>3

\* Threads, calls and lists that let connections go come to no new ones.
LEMMA OwnersLose ==
  ASSUME Typed, OneOwner, Accounted,
         \A th \in Thread : /\ mine'[th] \subseteq mine[th]
                           /\ \/ item'[th] = NoConn
                              \/ item'[th] = item[th] /\ pc'[th] = pc[th],
         \A q \in PoolId : /\ NoRepeat(items'[q])
                           /\ Elements(items'[q]) \subseteq Elements(items[q])
  PROVE  OneOwner'
<1>1. \A th \in Thread : NoConn \notin mine[th]
  BY NoConnAssumption DEF Typed
<1>2. \A q \in PoolId : NoConn \notin Elements(items[q])
  BY NoConnAssumption DEF Typed, Accounted
<1>3. \A th, u \in Thread : \A c \in mine'[th] : c \in mine'[u] => th = u
  BY DEF OneOwner, LentOnce
<1>4. \A th, u \in Thread : item'[th] # NoConn /\ item'[th] = item'[u] => th = u
  BY DEF OneOwner, HeldOnce
<1>5. \A th, u \in Thread : item'[th] \in mine'[u] => th = u /\ pc'[th] = "relink"
  BY <1>1 DEF OneOwner, HeldOrLent
<1>6. \A p, q \in PoolId : \A c \in Elements(items'[p]) : c \in Elements(items'[q]) => p = q
  BY DEF OneOwner, ListedOnce
<1>7. \A p \in PoolId : \A c \in Elements(items'[p]) : \A th \in Thread :
        c \notin mine'[th] /\ c # item'[th]
  BY <1>2 DEF OneOwner, ListedAlone
<1>8. QED BY <1>3, <1>4, <1>5, <1>6, <1>7 DEF OneOwner, LentOnce, HeldOnce, HeldOrLent, ListedOnce, ListedAlone

\* Connections leave the lists and are closed; nothing else moves.
LEMMA ListsLose ==
  ASSUME Typed, OneOwner, Accounted, UNCHANGED << pc, item, mine >>,
         NEW C \in SUBSET Conn, exists' = exists \ C,
         \A q \in PoolId : /\ NoRepeat(items'[q])
                           /\ Elements(items'[q]) = Elements(items[q]) \ C,
         \A c \in C : \E q \in PoolId : c \in Elements(items[q])
  PROVE  OneOwner' /\ Accounted'
<1>1. \A c \in C : \A th \in Thread : c \notin mine[th] /\ c # item[th]
  BY DEF OneOwner, ListedAlone
<1>2. OneOwner'
  BY OwnersLose
<1>3. Accounted'
  BY <1>1 DEF Accounted
<1>4. QED BY <1>2, <1>3

\* So it is when the last shared_ptr to a pool goes.
LEMMA LetGoOwners ==
  ASSUME Typed, OneOwner, Accounted, UNCHANGED mine,
         NEW p \in PoolId, NEW others, LetGo(p, others)
  PROVE  \E C \in SUBSET Conn :
           /\ exists' = exists \ C
           /\ \A q \in PoolId : /\ NoRepeat(items'[q])
                               /\ Elements(items'[q]) = Elements(items[q]) \ C
           /\ \A c \in C : \E q \in PoolId : c \in Elements(items[q])
<1>1. CASE others
  <2>1. exists' = exists \ {} /\ items' = items
    BY <1>1 DEF LetGo
  <2>2. \A q \in PoolId : NoRepeat(items'[q]) /\ Elements(items'[q]) = Elements(items[q]) \ {}
    BY <2>1 DEF OneOwner, ListedOnce
  <2>3. {} \in SUBSET Conn /\ \A c \in {} : \E q \in PoolId : c \in Elements(items[q])
    OBVIOUS
  <2>4. QED BY <2>1, <2>2, <2>3
<1>2. CASE ~others
  <2> DEFINE C == Elements(items[p])
  <2>1. C \in SUBSET Conn
    BY ElementOfSeq, LenProperties DEF Typed, Elements
  <2> HIDE DEF C
  <2>2. exists' = exists \ C /\ items' = [items EXCEPT ![p] = <<>>]
    BY <1>2 DEF LetGo, Close, C
  <2>3. ASSUME NEW q \in PoolId
        PROVE  NoRepeat(items'[q]) /\ Elements(items'[q]) = Elements(items[q]) \ C
    <3>1. CASE q = p
      BY <2>2, <3>1, EmptyList DEF Typed, C
    <3>2. CASE q # p
      BY <2>2, <3>2 DEF Typed, OneOwner, ListedOnce, C
    <3>3. QED BY <3>1, <3>2
  <2>4. QED BY <2>1, <2>2, <2>3 DEF C
<1>3. QED BY <1>1, <1>2

LEMMA StepOwners ==
  ASSUME Typed, InCallOK, OneOwner, Accounted, [Next]_vars
  PROVE  OneOwner' /\ Accounted'
<1> USE NoConnAssumption DEF Goto, Set, poolVars, threadVars, OneOwner
<1>1. /\ pc \in [Thread -> Labels] /\ item \in [Thread -> Conn \cup {NoConn}]
      /\ mine \in [Thread -> SUBSET Conn] /\ exists \in SUBSET Conn
      /\ items \in [PoolId -> Seq(Conn)]
  BY DEF Typed
<1>2. ASSUME NEW th \in Thread, NEW p \in PoolId, Get(th, p)
      PROVE  OneOwner' /\ Accounted'
  <2>1. pc[th] = "idle" /\ pc' = [pc EXCEPT ![th] = "pull"] /\ item[th] = NoConn
        /\ UNCHANGED << item, mine, exists, items >>
    BY <1>2 DEF InCallOK, Get
  <2>2. OneOwner'
    BY <2>1, <1>1 DEF LentOnce, HeldOnce, HeldOrLent, ListedOnce, ListedAlone
  <2>3. Accounted'
    BY <2>1 DEF Accounted
  <2>4. QED BY <2>2, <2>3
<1>3. ASSUME NEW th \in Thread, Pull(th)
      PROVE  OneOwner' /\ Accounted'
  <2> DEFINE p == pool[th]
  <2> DEFINE s == items[p]
  <2> DEFINE c == s[Len(s)]
  <2>1. pc[th] = "pull" /\ p \in PoolId /\ item[th] = NoConn /\ s \in Seq(Conn)
    BY <1>3, <1>1 DEF InCallOK, Pull
  <2>2. CASE s = <<>>
    <3>1. pc' = [pc EXCEPT ![th] = "create"] /\ UNCHANGED << item, mine, exists, items >>
      BY <1>3, <2>2 DEF Pull
    <3>2. OneOwner'
      BY <2>1, <3>1, <1>1 DEF LentOnce, HeldOnce, HeldOrLent, ListedOnce, ListedAlone
    <3>3. Accounted'
      BY <3>1 DEF Accounted
    <3>4. QED BY <3>2, <3>3
  <2>3. CASE s # <<>>
    <3> DEFINE t == SubSeq(s, 1, Len(s) - 1)
    <3>1. /\ pc' = [pc EXCEPT ![th] = "check"] /\ item' = [item EXCEPT ![th] = c]
          /\ items' = [items EXCEPT ![p] = t]
          /\ UNCHANGED << mine, exists >>
      BY <1>3, <2>3 DEF Pull
    <3>2. NoRepeat(s)
      BY <2>1 DEF ListedOnce
    <3>3. c \in Elements(s) /\ c \in Conn /\ NoRepeat(t) /\ Elements(t) = Elements(s) \ {c}
      BY <2>1, <2>3, <3>2, PoppedList
    <3> HIDE DEF p, t, c
    <3>4. \A q \in PoolId : q # p => items'[q] = items[q] /\ c \notin Elements(items[q])
      BY <2>1, <3>1, <3>3, <1>1 DEF ListedOnce
    <3>5. items'[p] = t
      BY <2>1, <3>1, <1>1
    <3>6. \A q \in PoolId : Elements(items'[q]) = Elements(items[q]) \ {c} /\ NoRepeat(items'[q])
      BY <3>3, <3>4, <3>5 DEF ListedOnce
    <3>7. \A u \in Thread : c \notin mine[u] /\ c # item[u]
      BY <2>1, <3>3 DEF ListedAlone
    <3> HIDE DEF s
    <3>8. OneOwner'
      <4>1. \A u \in Thread : /\ item'[u] = IF u = th THEN c ELSE item[u]
                              /\ u # th => pc'[u] = pc[u]
        BY <3>1, <1>1
      <4>2. \A u, v \in Thread : item'[u] # NoConn /\ item'[u] = item'[v] => u = v
        BY <3>7, <4>1 DEF HeldOnce
      <4>3. \A u, v \in Thread : item'[u] \in mine[v] => u = v /\ pc'[u] = "relink"
        BY <3>7, <4>1 DEF HeldOrLent
      <4>4. \A q, r \in PoolId : \A d \in Elements(items'[q]) : d \in Elements(items'[r]) => q = r
        BY <3>6 DEF ListedOnce
      <4>5. \A q \in PoolId : \A d \in Elements(items'[q]) : \A u \in Thread :
              d \notin mine[u] /\ d # item'[u]
        BY <3>6, <4>1 DEF ListedAlone
      <4>6. QED BY <3>1, <3>6, <4>2, <4>3, <4>4, <4>5 DEF LentOnce, HeldOnce, HeldOrLent, ListedOnce, ListedAlone
    <3>9. c \in exists
      BY <2>1, <3>3 DEF Accounted, s
    <3>10. Accounted'
      <4>1. \A u \in Thread : item'[u] = IF u = th THEN c ELSE item[u]
        BY <3>1, <1>1
      <4>2. ASSUME NEW d \in exists
            PROVE  \/ \E u \in Thread : d \in mine[u] \/ item'[u] = d
                   \/ \E q \in PoolId : d \in Elements(items'[q])
        <5>1. CASE d = c
          BY <4>1, <5>1
        <5>2. CASE d # c
          BY <2>1, <3>6, <4>1, <5>2, <1>1 DEF Accounted
        <5>3. QED BY <5>1, <5>2
      <4>3. QED BY <3>1, <3>6, <3>9, <4>1, <4>2 DEF Accounted
    <3>11. QED BY <3>8, <3>10
  <2>4. QED BY <2>2, <2>3
<1>4. ASSUME NEW th \in Thread, Check(th) \/ Validate(th)
      PROVE  OneOwner' /\ Accounted'
  <2> DEFINE c == item[th]
  <2>1. pc[th] \in {"check", "validate"} /\ c \in Conn /\ UNCHANGED << mine, items >>
    BY <1>4 DEF InCallOK, Check, Validate
  <2>2. \A u \in Thread : c \notin mine[u] /\ (u # th => item[u] # c)
    BY <2>1 DEF LentOnce, HeldOnce, HeldOrLent
  <2>3. \A q \in PoolId : c \notin Elements(items[q])
    BY <2>1 DEF ListedAlone
  <2>4. CASE Valid(c)
    <3>1. (\E l \in {"count", "push"} : pc' = [pc EXCEPT ![th] = l]) /\ UNCHANGED << item, exists >>
      BY <1>4, <2>4 DEF Check, Validate
    <3>2. OneOwner'
      BY <2>1, <2>2, <3>1, <1>1 DEF LentOnce, HeldOnce, HeldOrLent, ListedOnce, ListedAlone
    <3>3. Accounted'
      BY <2>1, <3>1 DEF Accounted
    <3>4. QED BY <3>2, <3>3
  <2>5. CASE ~Valid(c)
    <3>1. /\ \E l \in {"pull", "leave"} : pc' = [pc EXCEPT ![th] = l]
          /\ item' = [item EXCEPT ![th] = NoConn] /\ exists' = exists \ {c}
      BY <1>4, <2>5 DEF Check, Validate, Close
    <3>2. OneOwner'
      <4>1. \A u \in Thread : item'[u] = NoConn \/ (item'[u] = item[u] /\ pc'[u] = pc[u])
        <5>1. \A u \in Thread \ {th} : item'[u] = item[u] /\ pc'[u] = pc[u]
          BY <3>1, <1>1
        <5>2. item'[th] = NoConn
          BY <3>1, <1>1
        <5>3. QED BY <5>1, <5>2
      <4>2. QED BY <2>1, <4>1, OwnersLose DEF LentOnce, HeldOnce, HeldOrLent, ListedOnce, ListedAlone
    <3>3. Accounted'
      BY <2>1, <2>2, <2>3, <3>1, <1>1 DEF Accounted
    <3>4. QED BY <3>2, <3>3
  <2>6. QED BY <2>4, <2>5
<1>5. ASSUME NEW th \in Thread, CreateFails(th) \/ Uncount(th)
      PROVE  OneOwner' /\ Accounted'
  <2>1. /\ pc[th] # "relink" /\ \E l \in {"leave", "validate"} : pc' = [pc EXCEPT ![th] = l]
        /\ UNCHANGED << item, mine, exists, items >>
    BY <1>5 DEF CreateFails, Uncount
  <2>2. OneOwner'
    BY <2>1, <1>1 DEF LentOnce, HeldOnce, HeldOrLent, ListedOnce, ListedAlone
  <2>3. Accounted'
    BY <2>1 DEF Accounted
  <2>4. QED BY <2>2, <2>3
<1>6. ASSUME NEW th \in Thread, NEW c \in Conn, Create(th, c)
      PROVE  OneOwner' /\ Accounted'
  <2>1. /\ pc[th] = "create" /\ item[th] = NoConn /\ pc' = [pc EXCEPT ![th] = "count"]
        /\ item' = [item EXCEPT ![th] = c] /\ exists' = exists \cup {c}
        /\ c \notin exists /\ UNCHANGED << mine, items >>
    BY <1>6 DEF InCallOK, Create
  <2>2. \A u \in Thread : c \notin mine[u] /\ c # item[u]
    BY <2>1 DEF Accounted
  <2>3. \A q \in PoolId : c \notin Elements(items[q])
    BY <2>1 DEF Accounted
  <2>4. OneOwner'
    BY <2>1, <2>2, <2>3, <1>1 DEF LentOnce, HeldOnce, HeldOrLent, ListedOnce, ListedAlone
  <2>5. Accounted'
    BY <2>1, <1>1 DEF Accounted
  <2>6. QED BY <2>4, <2>5
<1>7. ASSUME NEW th \in Thread, Count(th)
      PROVE  OneOwner' /\ Accounted'
  <2> DEFINE c == item[th]
  <2>1. /\ pc[th] = "count" /\ c \in Conn /\ pc' = [pc EXCEPT ![th] = "leave"]
        /\ item' = [item EXCEPT ![th] = NoConn] /\ mine' = [mine EXCEPT ![th] = @ \cup {c}]
        /\ UNCHANGED << exists, items >>
    BY <1>7 DEF InCallOK, Count
  <2>2. \A u \in Thread : c \notin mine[u] /\ (u # th => item[u] # c)
    BY <2>1 DEF LentOnce, HeldOnce, HeldOrLent
  <2>3. \A q \in PoolId : c \notin Elements(items[q])
    BY <2>1 DEF ListedAlone
  <2>4. c \in exists
    BY <2>1 DEF Accounted
  <2> HIDE DEF c
  <2>5. OneOwner'
    <3>1. \A u \in Thread : /\ mine'[u] = IF u = th THEN mine[u] \cup {c} ELSE mine[u]
                            /\ item'[u] = IF u = th THEN NoConn ELSE item[u]
                            /\ u # th => pc'[u] = pc[u]
                            /\ NoConn \notin mine'[u]
      BY <2>1, <1>1
    <3>2. \A u, v \in Thread : \A d \in mine'[u] : d \in mine'[v] => u = v
      <4>1. \A u \in Thread : \A d \in mine'[u] : d \in mine[u] \/ (u = th /\ d = c)
        BY <3>1
      <4>2. QED BY <2>2, <4>1 DEF LentOnce
    <3>3. \A u, v \in Thread : item'[u] # NoConn /\ item'[u] = item'[v] => u = v
      BY <3>1 DEF HeldOnce
    <3>4. \A u, v \in Thread : item'[u] \in mine'[v] => u = v /\ pc'[u] = "relink"
      BY <2>2, <3>1 DEF HeldOrLent
    <3>5. \A p \in PoolId : \A d \in Elements(items[p]) : \A u \in Thread :
            d \notin mine'[u] /\ d # item'[u]
      <4>1. \A p \in PoolId : NoConn \notin Elements(items[p])
        BY <1>1 DEF Accounted
      <4>2. \A u \in Thread : \A d \in mine'[u] : d \in mine[u] \/ d = c
        BY <3>1
      <4>3. \A u \in Thread : item'[u] \in {NoConn, item[u]}
        BY <3>1
      <4>4. QED BY <2>3, <4>1, <4>2, <4>3 DEF ListedAlone
    <3>6. QED BY <2>1, <3>2, <3>3, <3>4, <3>5 DEF LentOnce, HeldOnce, HeldOrLent, ListedOnce, ListedAlone
  <2>6. Accounted'
    BY <2>1, <2>4, <1>1 DEF Accounted, c
  <2>7. QED BY <2>5, <2>6
<1>8. ASSUME NEW th \in Thread, Leave(th)
      PROVE  OneOwner' /\ Accounted'
  <2> DEFINE others == handle[pool[th]] \/ \E u \in Thread \ {th} : pool[u] = pool[th]
  <2>1. /\ pc[th] = "leave" /\ item[th] = NoConn /\ pool[th] \in PoolId
        /\ pc' = [pc EXCEPT ![th] = "idle"] /\ item' = item
        /\ mine' = mine /\ LetGo(pool[th], others)
    BY <1>8, <1>1 DEF InCallOK, Leave
  <2> HIDE DEF others
  <2>2. PICK C \in SUBSET Conn :
           /\ exists' = exists \ C
           /\ \A q \in PoolId : /\ NoRepeat(items'[q])
                               /\ Elements(items'[q]) = Elements(items[q]) \ C
           /\ \A c \in C : \E q \in PoolId : c \in Elements(items[q])
    BY <2>1, LetGoOwners
  <2>3. OneOwner'
    <3>1. \A u \in Thread : item'[u] = NoConn \/ (item'[u] = item[u] /\ pc'[u] = pc[u])
      <4>1. \A u \in Thread \ {th} : item'[u] = item[u] /\ pc'[u] = pc[u]
        BY <2>1, <1>1
      <4>2. item'[th] = NoConn
        BY <2>1, <1>1
      <4>3. QED BY <4>1, <4>2
    <3>2. QED BY <2>1, <2>2, <3>1, OwnersLose
  <2>4. \A c \in C : \A u \in Thread : c \notin mine[u] /\ c # item[u]
    BY <2>2 DEF ListedAlone
  <2>5. Accounted'
    BY <2>1, <2>2, <2>4 DEF Accounted
  <2>6. QED BY <2>3, <2>5
<1>9. ASSUME NEW th \in Thread, NEW c \in Conn, GiveBack(th, c)
      PROVE  OneOwner' /\ Accounted'
  <2>1. /\ pc[th] = "idle" /\ item[th] = NoConn /\ c \in mine[th] /\ items' = items
        /\ mine' = [mine EXCEPT ![th] = @ \ {c}]
    BY <1>9 DEF InCallOK, GiveBack
  <2>2. \A u \in Thread : item[u] # c /\ (u # th => c \notin mine[u])
    BY <2>1 DEF LentOnce, HeldOnce, HeldOrLent
  <2>3. \A q \in PoolId : c \notin Elements(items[q])
    BY <2>1 DEF ListedAlone
  <2>4. CASE Locks(link[c])
    <3>1. /\ pc' = [pc EXCEPT ![th] = "uncount"] /\ item' = [item EXCEPT ![th] = c]
          /\ exists' = exists
      BY <1>9, <2>4 DEF GiveBack
    <3>2. OneOwner'
      BY <2>1, <2>2, <2>3, <3>1, <1>1 DEF LentOnce, HeldOnce, HeldOrLent, ListedOnce, ListedAlone
    <3>3. Accounted'
      BY <2>1, <3>1, <1>1 DEF Accounted
    <3>4. QED BY <3>2, <3>3
  <2>5. CASE ~Locks(link[c])
    <3>1. UNCHANGED << pc, item >> /\ exists' = exists \ {c}
      BY <1>9, <2>5 DEF GiveBack, Close
    <3>2. OneOwner'
      BY <2>1, <3>1, <1>1 DEF LentOnce, HeldOnce, HeldOrLent, ListedOnce, ListedAlone
    <3>3. Accounted'
      <4>1. \A u \in Thread : mine'[u] = mine[u] \ {c}
        BY <2>1, <2>2, <1>1
      <4>2. QED BY <2>1, <2>2, <2>3, <3>1, <4>1 DEF Accounted
    <3>4. QED BY <3>2, <3>3
  <2>6. QED BY <2>4, <2>5
<1>10. ASSUME NEW th \in Thread, Push(th)
      PROVE  OneOwner' /\ Accounted'
  <2> DEFINE c == item[th]
  <2> DEFINE p == pool[th]
  <2> DEFINE t == Append(items[p], c)
  <2>1. /\ pc[th] = "push" /\ c \in Conn /\ p \in PoolId /\ items[p] \in Seq(Conn)
        /\ pc' = [pc EXCEPT ![th] = "leave"] /\ item' = [item EXCEPT ![th] = NoConn]
        /\ items' = [items EXCEPT ![p] = t] /\ UNCHANGED << mine, exists >>
    BY <1>10, <1>1 DEF InCallOK, Push
  <2>2. \A u \in Thread : c \notin mine[u] /\ (u # th => item[u] # c)
    BY <2>1 DEF LentOnce, HeldOnce, HeldOrLent
  <2>3. \A q \in PoolId : c \notin Elements(items[q]) /\ NoRepeat(items[q])
    BY <2>1 DEF ListedAlone, ListedOnce
  <2>4. Elements(t) = Elements(items[p]) \cup {c} /\ NoRepeat(t)
    BY <2>1, <2>3, PushedList
  <2>5. c \in exists
    BY <2>1 DEF Accounted
  <2> HIDE DEF c, p, t
  <2>6. \A q \in PoolId : items'[q] = IF q = p THEN t ELSE items[q]
    BY <2>1, <1>1
  <2>7. OneOwner'
    <3>1. \A q \in PoolId : /\ NoRepeat(items'[q])
                            /\ Elements(items'[q]) \subseteq Elements(items[q]) \cup {c}
                            /\ q # p => Elements(items'[q]) = Elements(items[q])
      BY <2>3, <2>4, <2>6
    <3>2. \A u \in Thread : /\ u # th => item'[u] = item[u] /\ pc'[u] = pc[u]
                            /\ item'[u] # c
      BY <2>1, <2>2, <1>1 DEF c
    <3>3. item'[th] = NoConn
      BY <2>1, <1>1
    <3>4. \A q \in PoolId : \A d \in Elements(items'[q]) : \A u \in Thread :
            d \notin mine[u] /\ d # item'[u]
      <4> SUFFICES ASSUME NEW q \in PoolId, NEW d \in Elements(items'[q]), NEW u \in Thread
                   PROVE  d \notin mine[u] /\ d # item'[u]
        OBVIOUS
      <4>1. CASE d = c
        BY <2>2, <3>2, <4>1
      <4>2. CASE d # c
        <5>1. d \in Elements(items[q])
          BY <3>1, <4>2
        <5>2. d # NoConn
          <6>1. d \in exists
            BY <5>1 DEF Accounted
          <6>2. QED BY <6>1, <1>1
        <5>3. QED BY <3>2, <3>3, <5>1, <5>2 DEF ListedAlone
      <4>3. QED BY <4>1, <4>2
    <3>5. \A q, r \in PoolId : \A d \in Elements(items'[q]) : d \in Elements(items'[r]) => q = r
      BY <2>3, <3>1 DEF ListedOnce
    <3>6. \A u, v \in Thread : item'[u] # NoConn /\ item'[u] = item'[v] => u = v
      BY <3>2, <3>3 DEF HeldOnce
    <3>7. \A u, v \in Thread : item'[u] \in mine[v] => u = v /\ pc'[u] = "relink"
      <4>1. \A u \in Thread : NoConn \notin mine[u]
        BY <1>1
      <4>2. QED BY <3>2, <3>3, <4>1 DEF HeldOrLent
    <3>8. LentOnce'
      BY <2>1 DEF LentOnce
    <3>9. QED BY <2>1, <3>1, <3>4, <3>5, <3>6, <3>7, <3>8 DEF HeldOnce, HeldOrLent, ListedOnce, ListedAlone
  <2>8. Accounted'
    <3>1. \A q \in PoolId : Elements(items[q]) \subseteq Elements(items'[q])
                            /\ Elements(items'[q]) \subseteq exists
      BY <2>4, <2>5, <2>6 DEF Accounted
    <3>2. c \in Elements(items'[p])
      BY <2>1, <2>4, <2>6
    <3>3. \A u \in Thread : item'[u] = IF u = th THEN NoConn ELSE item[u]
      BY <2>1, <1>1
    <3>4. QED BY <2>1, <3>1, <3>2, <3>3 DEF Accounted, c
  <2>9. QED BY <2>7, <2>8
<1>11. ASSUME NEW th \in Thread, NEW c \in Conn, NEW q \in PoolId \cup {NoPool}, Attach(th, c, q)
       PROVE  OneOwner' /\ Accounted'
  <2>1. /\ pc[th] = "idle" /\ item[th] = NoConn /\ c \in mine[th]
        /\ pc' = [pc EXCEPT ![th] = "relink"] /\ item' = [item EXCEPT ![th] = c]
        /\ UNCHANGED << mine, exists, items >>
    BY <1>11 DEF InCallOK, Attach
  <2>2. \A u \in Thread : item[u] # c /\ (u # th => c \notin mine[u])
    BY <2>1 DEF LentOnce, HeldOnce, HeldOrLent
  <2>3. OneOwner'
    BY <2>1, <2>2, <1>1 DEF LentOnce, HeldOnce, HeldOrLent, ListedOnce, ListedAlone
  <2>4. Accounted'
    BY <2>1, <1>1 DEF Accounted
  <2>5. QED BY <2>3, <2>4
<1>12. ASSUME NEW th \in Thread, Relink(th)
       PROVE  OneOwner' /\ Accounted'
  <2>1. /\ pc[th] = "relink" /\ item[th] \in mine[th]
        /\ pc' = [pc EXCEPT ![th] = "idle"] /\ item' = [item EXCEPT ![th] = NoConn]
        /\ UNCHANGED << mine, exists, items >>
    BY <1>12 DEF InCallOK, Relink
  <2>2. \A u \in Thread : item'[u] = NoConn \/ (item'[u] = item[u] /\ pc'[u] = pc[u])
    <3>1. \A u \in Thread \ {th} : item'[u] = item[u] /\ pc'[u] = pc[u]
      BY <2>1, <1>1
    <3>2. item'[th] = NoConn
      BY <2>1, <1>1
    <3>3. QED BY <3>1, <3>2
  <2>3. OneOwner'
    BY <2>1, <2>2, OwnersLose DEF LentOnce, HeldOnce, HeldOrLent, ListedOnce, ListedAlone
  <2>4. Accounted'
    <3>1. \A u \in Thread : item[u] = item'[u] \/ u = th
      BY <2>1, <1>1
    <3>2. QED BY <2>1, <2>2, <3>1 DEF Accounted
  <2>5. QED BY <2>3, <2>4
<1>13. ASSUME NEW th \in Thread, NEW p \in PoolId, EraseInvalid(th, p)
       PROVE  OneOwner' /\ Accounted'
  <2> DEFINE C == { c \in Elements(items[p]) : ~Valid(c) }
  <2>1. /\ items' = [items EXCEPT ![p] = Kept(items[p])] /\ exists' = exists \ C
        /\ UNCHANGED << pc, item, mine >>
    BY <1>13 DEF EraseInvalid, Close
  <2>2. items[p] \in Seq(Conn) /\ NoRepeat(items[p])
    BY <1>1 DEF ListedOnce
  <2>3. Elements(Kept(items[p])) = Elements(items[p]) \ C /\ NoRepeat(Kept(items[p]))
    BY <2>2, KeptList
  <2>4. C \in SUBSET Conn
    BY <2>2, ElementOfSeq, LenProperties DEF Elements
  <2>5. \A c \in C : c \in Elements(items[p])
    OBVIOUS
  <2> HIDE DEF C
  <2>6. ASSUME NEW q \in PoolId
        PROVE  NoRepeat(items'[q]) /\ Elements(items'[q]) = Elements(items[q]) \ C
    <3>1. CASE q = p
      BY <2>1, <2>3, <3>1, <1>1
    <3>2. CASE q # p
      BY <2>1, <2>5, <3>2, <1>1 DEF LentOnce, HeldOnce, HeldOrLent, ListedOnce, ListedAlone
    <3>3. QED BY <3>1, <3>2
  <2>7. QED BY <2>1, <2>4, <2>5, <2>6, ListsLose
<1>14. ASSUME NEW p \in PoolId, DropPool(p)
       PROVE  OneOwner' /\ Accounted'
  <2>1. UNCHANGED << pc, item, mine >> /\ LetGo(p, \E u \in Thread : pool[u] = p)
    BY <1>14 DEF DropPool
  <2>2. QED BY <2>1, LetGoOwners, ListsLose
<1>15. CASE UNCHANGED << pc, item, mine, exists, items >>
  BY <1>15 DEF LentOnce, HeldOnce, HeldOrLent, ListedOnce, ListedAlone, Accounted
<1>16. ASSUME NEW th \in Thread, NEW c \in Conn, NEW s \in Statuses, Use(th, c, s)
       PROVE  OneOwner' /\ Accounted'
  BY <1>15, <1>16 DEF Use
<1>17. ASSUME NEW c \in Conn, EndSession(c)
       PROVE  OneOwner' /\ Accounted'
  BY <1>15, <1>17 DEF EndSession
<1>18. CASE UNCHANGED vars
  BY <1>15, <1>18 DEF vars
<1>19. QED
  BY <1>2, <1>3, <1>4, <1>5, <1>6, <1>7, <1>8, <1>9, <1>10, <1>11, <1>12, <1>13, <1>14,
     <1>16, <1>17, <1>18 DEF Next, Continue

-----------------------------------------------------------------------------
(* What is known of a connection                                           *)

Knowing == {"check", "push", "count", "uncount"}

LEMMA InitPlace == Init => PlaceOK
<1> SUFFICES ASSUME Init PROVE PlaceOK
  OBVIOUS
<1>1. ClosedIsBlank /\ HeldIsSeenTo
  BY DEF Init, ClosedIsBlank, HeldIsSeenTo
<1>2. ListedIsFree
  BY EmptyList DEF Init, ListedIsFree
<1>3. QED BY <1>1, <1>2 DEF PlaceOK

\* Closing connections that are in no list any more, nor in a call
LEMMA ClosePlace ==
  ASSUME Typed, PlaceOK, NEW C \in SUBSET Conn, Close(C),
         \A q \in PoolId : Elements(items'[q]) \subseteq Elements(items[q]) \ C,
         \A q \in PoolId : Elements(items[q]) \subseteq Conn,
         \A th \in Thread : pc'[th] \in Knowing =>
           /\ pc'[th] = pc[th] /\ item'[th] = item[th] /\ pool'[th] = pool[th]
           /\ item[th] \in Conn \ C
  PROVE  PlaceOK'
<1>1. /\ exists' = exists \ C /\ ended' = ended \ C /\ lapsed' = lapsed \ C
      /\ \A c \in Conn : /\ link'[c] = IF c \in C THEN NoPool ELSE link[c]
                         /\ status'[c] = IF c \in C THEN "idle" ELSE status[c]
  BY DEF Close
<1>2. ClosedIsBlank'
  BY <1>1 DEF PlaceOK, ClosedIsBlank
<1>3. ListedIsFree'
  BY <1>1 DEF PlaceOK, ListedIsFree
<1>4. HeldIsSeenTo'
  BY <1>1 DEF PlaceOK, HeldIsSeenTo, Knowing
<1>5. QED BY <1>2, <1>3, <1>4 DEF PlaceOK

LEMMA LetGoPlace ==
  ASSUME Typed, InCallOK, OneOwner, PlaceOK,
         NEW p \in PoolId, NEW others, LetGo(p, others),
         \A th \in Thread : pc'[th] \in Knowing =>
           pc'[th] = pc[th] /\ item'[th] = item[th] /\ pool'[th] = pool[th]
  PROVE  PlaceOK'
<1>1. \A q \in PoolId : Elements(items[q]) \subseteq Conn
  BY ElementOfSeq, LenProperties DEF Typed, Elements
<1>2. CASE others
  <2>1. UNCHANGED << items, exists, link, status, ended, lapsed >>
    BY <1>2 DEF LetGo, serverVars
  <2>2. QED BY <2>1 DEF PlaceOK, ClosedIsBlank, ListedIsFree, HeldIsSeenTo, Knowing
<1>3. CASE ~others
  <2> DEFINE C == Elements(items[p])
  <2>1. Close(C) /\ items' = [items EXCEPT ![p] = <<>>]
    BY <1>3 DEF LetGo
  <2>2. \A th \in Thread : pc[th] \in Knowing => item[th] \in Conn \ C
    BY DEF InCallOK, OneOwner, ListedAlone, Knowing
  <2>3. ASSUME NEW q \in PoolId PROVE Elements(items'[q]) \subseteq Elements(items[q]) \ C
    <3>1. CASE q = p
      BY <2>1, <3>1, EmptyList DEF Typed
    <3>2. CASE q # p
      BY <2>1, <3>2 DEF Typed, OneOwner, ListedOnce
    <3>3. QED BY <3>1, <3>2
  <2>4. C \in SUBSET Conn
    BY <1>1
  <2> HIDE DEF C
  <2>5. QED BY <1>1, <2>1, <2>2, <2>3, <2>4, ClosePlace
<1>4. QED BY <1>2, <1>3

\* One thread changes its place in a call and one of its connections c.
LEMMA StepPlace ==
  ASSUME Typed, InCallOK, OneOwner, Accounted, PlaceOK, [Next]_vars
  PROVE  PlaceOK'
<1> USE NoConnAssumption, NoPoolAssumption
    DEF Goto, Set, poolVars, serverVars, threadVars, OneOwner, PlaceOK
<1>1. /\ pc \in [Thread -> Labels] /\ item \in [Thread -> Conn \cup {NoConn}]
      /\ pool \in [Thread -> PoolId \cup {NoPool}] /\ mine \in [Thread -> SUBSET Conn]
      /\ exists \in SUBSET Conn /\ items \in [PoolId -> Seq(Conn)]
      /\ link \in [Conn -> PoolId \cup {NoPool}] /\ status \in [Conn -> Statuses]
      /\ lapsed \in SUBSET ended
  BY DEF Typed
<1>2. \A q \in PoolId : Elements(items[q]) \subseteq Conn
  BY <1>1, ElementOfSeq, LenProperties DEF Elements
\* The call of thread th goes to where nothing is known.
<1>a. ASSUME NEW th \in Thread, NEW l \in Labels \ Knowing, pc' = [pc EXCEPT ![th] = l],
             \A u \in Thread \ {th} : item'[u] = item[u] /\ pool'[u] = pool[u],
             UNCHANGED << exists, items, link, status, ended, lapsed >>
      PROVE  PlaceOK'
  <2>1. \A u \in Thread : pc'[u] \in Knowing =>
          pc'[u] = pc[u] /\ item'[u] = item[u] /\ pool'[u] = pool[u]
    BY <1>1, <1>a
  <2>2. HeldIsSeenTo'
    BY <1>a, <2>1 DEF HeldIsSeenTo, Knowing
  <2>3. QED BY <1>a, <2>2 DEF ClosedIsBlank, ListedIsFree
<1>3. ASSUME NEW th \in Thread, NEW p \in PoolId, Get(th, p)
      PROVE  PlaceOK'
  <2>1. /\ pc' = [pc EXCEPT ![th] = "pull"] /\ "pull" \in Labels \ Knowing
        /\ pool' = [pool EXCEPT ![th] = p]
        /\ UNCHANGED << item, exists, items, link, status, ended, lapsed >>
    BY <1>3 DEF Get, Labels, Knowing
  <2>2. \A u \in Thread \ {th} : item'[u] = item[u] /\ pool'[u] = pool[u]
    BY <1>1, <2>1
  <2>3. QED BY <1>a, <2>1, <2>2
<1>4. ASSUME NEW th \in Thread, Pull(th)
      PROVE  PlaceOK'
  <2> DEFINE p == pool[th]
  <2> DEFINE s == items[p]
  <2> DEFINE c == s[Len(s)]
  <2> DEFINE t == SubSeq(s, 1, Len(s) - 1)
  <2>1. p \in PoolId /\ s \in Seq(Conn)
    BY <1>1, <1>4 DEF InCallOK, Pull
  <2>2. CASE s = <<>>
    <3>1. /\ pc' = [pc EXCEPT ![th] = "create"] /\ "create" \in Labels \ Knowing
          /\ UNCHANGED << item, pool, exists, items, link, status, ended, lapsed >>
      BY <1>4, <2>2 DEF Pull, Labels, Knowing
    <3>2. QED BY <1>a, <3>1
  <2>3. CASE s # <<>>
    <3>1. /\ pc' = [pc EXCEPT ![th] = "check"] /\ item' = [item EXCEPT ![th] = c]
          /\ items' = [items EXCEPT ![p] = t]
          /\ UNCHANGED << pool, exists, link, status, ended, lapsed >>
      BY <1>4, <2>3 DEF Pull
    <3>2. c \in Elements(s) /\ Elements(t) \subseteq Elements(s)
      BY <2>1, <2>3, PoppedList
    <3>3. status[c] = "idle" /\ link[c] = NoPool
      BY <2>1, <3>2 DEF ListedIsFree
    <3> HIDE DEF c, t
    <3>4. \A q \in PoolId : Elements(items'[q]) \subseteq Elements(items[q])
      BY <1>1, <3>1, <3>2
    <3>5. \A u \in Thread \ {th} : pc'[u] = pc[u] /\ item'[u] = item[u]
      BY <1>1, <3>1
    <3>6. pc'[th] = "check" /\ item'[th] = c
      BY <1>1, <3>1
    <3>7. HeldIsSeenTo'
      BY <3>1, <3>3, <3>5, <3>6 DEF HeldIsSeenTo
    <3>8. QED BY <3>1, <3>4, <3>7 DEF ClosedIsBlank, ListedIsFree
  <2>4. QED BY <2>2, <2>3
<1>5. ASSUME NEW th \in Thread, Check(th) \/ Validate(th)
      PROVE  PlaceOK'
  <2> DEFINE c == item[th]
  <2>1. /\ pc[th] \in {"check", "validate"} /\ c \in Conn /\ c \in exists
        /\ UNCHANGED << pool, items >>
    BY <1>5 DEF InCallOK, Accounted, Check, Validate
  <2>2. \A u \in Thread \ {th} : item[u] # c
    BY <2>1 DEF HeldOnce
  <2>3. \A q \in PoolId : c \notin Elements(items[q])
    BY <2>1 DEF ListedAlone
  <2>4. CASE Valid(c)
    <3>1. /\ \/ pc' = [pc EXCEPT ![th] = "count"] /\ link' = [link EXCEPT ![c] = pool[th]]
             \/ pc' = [pc EXCEPT ![th] = "push"] /\ link' = [link EXCEPT ![c] = NoPool]
          /\ UNCHANGED << item, exists, status, ended, lapsed >>
      BY <1>5, <2>4 DEF Check, Validate
    <3>2. status[c] = "idle" /\ (SeesEnd => c \notin lapsed)
      BY <1>1, <2>4 DEF Valid
    <3>3. \A d \in Conn \ {c} : link'[d] = link[d]
      BY <1>1, <3>1
    <3>4. \/ pc'[th] = "count" /\ link'[c] = pool[th]
          \/ pc'[th] = "push" /\ link'[c] = NoPool
      BY <1>1, <2>1, <3>1
    <3>5. \A u \in Thread \ {th} : pc'[u] = pc[u]
      BY <1>1, <3>1
    <3>6. ClosedIsBlank' /\ ListedIsFree'
      BY <1>2, <2>1, <2>3, <3>1, <3>3 DEF ClosedIsBlank, ListedIsFree
    <3>7. HeldIsSeenTo'
      <4>1. \A u \in Thread \ {th} : pc[u] \in Knowing => item[u] \in Conn \ {c}
        BY <2>2 DEF InCallOK, Knowing
      <4>2. QED BY <2>1, <3>1, <3>2, <3>3, <3>4, <3>5, <4>1 DEF HeldIsSeenTo, Knowing
    <3>8. QED BY <3>6, <3>7
  <2>5. CASE ~Valid(c)
    <3>1. /\ \E l \in {"pull", "leave"} : pc' = [pc EXCEPT ![th] = l]
          /\ item' = [item EXCEPT ![th] = NoConn] /\ Close({c})
      BY <1>5, <2>5 DEF Check, Validate
    <3>2. \A u \in Thread : pc'[u] \in Knowing =>
            /\ pc'[u] = pc[u] /\ item'[u] = item[u] /\ pool'[u] = pool[u]
            /\ item[u] \in Conn \ {c}
      BY <1>1, <2>1, <2>2, <3>1 DEF InCallOK, Knowing
    <3>3. \A q \in PoolId : Elements(items'[q]) \subseteq Elements(items[q]) \ {c}
      BY <2>1, <2>3
    <3>4. {c} \in SUBSET Conn
      BY <2>1
    <3>5. QED BY <1>2, <3>1, <3>2, <3>3, <3>4, ClosePlace
  <2>6. QED BY <2>4, <2>5
<1>6. ASSUME NEW th \in Thread, CreateFails(th) \/ Uncount(th)
      PROVE  PlaceOK'
  <2>1. /\ \E l \in {"leave", "validate"} : pc' = [pc EXCEPT ![th] = l]
        /\ UNCHANGED << item, pool, exists, items, link, status, ended, lapsed >>
    BY <1>6 DEF CreateFails, Uncount
  <2>2. {"leave", "validate"} \subseteq Labels \ Knowing
    BY DEF Labels, Knowing
  <2>3. QED BY <1>a, <2>1, <2>2
<1>7. ASSUME NEW th \in Thread, NEW c \in Conn, Create(th, c)
      PROVE  PlaceOK'
  <2>1. /\ c \notin exists /\ pc' = [pc EXCEPT ![th] = "count"]
        /\ item' = [item EXCEPT ![th] = c] /\ exists' = exists \cup {c}
        /\ link' = [link EXCEPT ![c] = pool[th]]
        /\ UNCHANGED << pool, items, status, ended, lapsed >>
    BY <1>7 DEF Create
  <2>2. status[c] = "idle" /\ c \notin lapsed
    BY <1>1, <2>1 DEF ClosedIsBlank
  <2>3. /\ \A u \in Thread : item[u] # c
        /\ \A q \in PoolId : c \notin Elements(items[q])
    BY <2>1 DEF Accounted
  <2>4. \A d \in Conn : link'[d] = IF d = c THEN pool[th] ELSE link[d]
    BY <1>1, <2>1
  <2>5. ClosedIsBlank' /\ ListedIsFree'
    BY <1>2, <2>1, <2>3, <2>4 DEF ClosedIsBlank, ListedIsFree
  <2>6. \A u \in Thread : /\ pc'[u] = IF u = th THEN "count" ELSE pc[u]
                          /\ item'[u] = IF u = th THEN c ELSE item[u]
    BY <1>1, <2>1
  <2>7. HeldIsSeenTo'
    <3>1. \A u \in Thread : pc[u] \in Knowing => item[u] \in Conn \ {c}
      BY <2>3 DEF InCallOK, Knowing
    <3>2. QED BY <2>1, <2>2, <2>4, <2>6, <3>1 DEF HeldIsSeenTo, Knowing
  <2>8. QED BY <2>5, <2>7
<1>8. ASSUME NEW th \in Thread, Count(th)
      PROVE  PlaceOK'
  <2>1. /\ pc' = [pc EXCEPT ![th] = "leave"] /\ "leave" \in Labels \ Knowing
        /\ item' = [item EXCEPT ![th] = NoConn]
        /\ UNCHANGED << pool, exists, items, link, status, ended, lapsed >>
    BY <1>8 DEF Count, Labels, Knowing
  <2>2. \A u \in Thread \ {th} : item'[u] = item[u]
    BY <1>1, <2>1
  <2>3. QED BY <1>a, <2>1, <2>2
<1>9. ASSUME NEW th \in Thread, Leave(th)
      PROVE  PlaceOK'
  <2> DEFINE p == pool[th]
  <2> DEFINE others == handle[p] \/ \E u \in Thread \ {th} : pool[u] = p
  <2>1. /\ p \in PoolId /\ LetGo(p, others) /\ pc' = [pc EXCEPT ![th] = "idle"]
        /\ item' = [item EXCEPT ![th] = NoConn] /\ pool' = [pool EXCEPT ![th] = NoPool]
    BY <1>9 DEF InCallOK, Leave
  <2> HIDE DEF others, p
  <2>2. \A u \in Thread : pc'[u] \in Knowing =>
          pc'[u] = pc[u] /\ item'[u] = item[u] /\ pool'[u] = pool[u]
    BY <1>1, <2>1 DEF Knowing
  <2>3. QED BY <2>1, <2>2, LetGoPlace
<1>10. ASSUME NEW th \in Thread, NEW c \in Conn, GiveBack(th, c)
      PROVE  PlaceOK'
  <2>1. pc[th] = "idle" /\ c \in mine[th] /\ c \in exists /\ items' = items
    BY <1>10 DEF Accounted, GiveBack
  <2>2. \A u \in Thread : item[u] = c => FALSE
    BY <2>1 DEF HeldOrLent
  <2>3. \A q \in PoolId : c \notin Elements(items[q])
    BY <2>1 DEF ListedAlone
  <2>4. CASE Locks(link[c])
    <3>1. /\ pc' = [pc EXCEPT ![th] = "uncount"] /\ item' = [item EXCEPT ![th] = c]
          /\ pool' = [pool EXCEPT ![th] = link[c]]
          /\ UNCHANGED << exists, items, link, status, ended, lapsed >>
      BY <1>10, <2>1, <2>4 DEF GiveBack
    <3>2. \A u \in Thread : /\ pc'[u] = IF u = th THEN "uncount" ELSE pc[u]
                            /\ item'[u] = IF u = th THEN c ELSE item[u]
                            /\ pool'[u] = IF u = th THEN link[c] ELSE pool[u]
      BY <1>1, <3>1
    <3>3. HeldIsSeenTo'
      BY <3>1, <3>2 DEF HeldIsSeenTo
    <3>4. QED BY <3>1, <3>3 DEF ClosedIsBlank, ListedIsFree
  <2>5. CASE ~Locks(link[c])
    <3>1. UNCHANGED << pc, item, pool >> /\ Close({c})
      BY <1>10, <2>5 DEF GiveBack
    <3>2. \A u \in Thread : pc[u] \in Knowing => item[u] \in Conn \ {c}
      BY <2>2 DEF InCallOK, Knowing
    <3>3. \A q \in PoolId : Elements(items'[q]) \subseteq Elements(items[q]) \ {c}
      BY <2>1, <2>3
    <3>4. QED BY <1>2, <3>1, <3>2, <3>3, ClosePlace
  <2>6. QED BY <2>4, <2>5
<1>11. ASSUME NEW th \in Thread, Push(th)
      PROVE  PlaceOK'
  <2> DEFINE c == item[th]
  <2> DEFINE p == pool[th]
  <2> DEFINE t == Append(items[p], c)
  <2>1. /\ pc[th] = "push" /\ c \in Conn /\ p \in PoolId
        /\ pc' = [pc EXCEPT ![th] = "leave"] /\ item' = [item EXCEPT ![th] = NoConn]
        /\ items' = [items EXCEPT ![p] = t]
        /\ UNCHANGED << pool, exists, link, status, ended, lapsed >>
    BY <1>11 DEF InCallOK, Push
  <2>2. status[c] = "idle" /\ link[c] = NoPool
    BY <2>1 DEF HeldIsSeenTo
  <2>3. Elements(t) = Elements(items[p]) \cup {c}
    BY <1>1, <2>1, PushedList
  <2> HIDE DEF c, p, t
  <2>4. \A q \in PoolId : Elements(items'[q]) \subseteq Elements(items[q]) \cup {c}
    BY <1>1, <2>1, <2>3
  <2>5. ListedIsFree'
    BY <2>1, <2>2, <2>4 DEF ListedIsFree
  <2>6. \A u \in Thread : pc'[u] \in Knowing => pc'[u] = pc[u] /\ item'[u] = item[u]
    BY <1>1, <2>1 DEF Knowing
  <2>7. HeldIsSeenTo'
    BY <2>1, <2>6 DEF HeldIsSeenTo, Knowing
  <2>8. QED BY <2>1, <2>5, <2>7 DEF ClosedIsBlank
<1>12. ASSUME NEW th \in Thread, NEW c \in Conn, NEW q \in PoolId \cup {NoPool}, Attach(th, c, q)
       PROVE  PlaceOK'
  <2>1. /\ pc' = [pc EXCEPT ![th] = "relink"] /\ "relink" \in Labels \ Knowing
        /\ item' = [item EXCEPT ![th] = c]
        /\ UNCHANGED << pool, exists, items, link, status, ended, lapsed >>
    BY <1>12 DEF Attach, Labels, Knowing
  <2>2. \A u \in Thread \ {th} : item'[u] = item[u]
    BY <1>1, <2>1
  <2>3. QED BY <1>a, <2>1, <2>2
<1>13. ASSUME NEW th \in Thread, Relink(th)
       PROVE  PlaceOK'
  <2> DEFINE c == item[th]
  <2>1. /\ c \in mine[th] /\ c \in Conn /\ c \in exists
        /\ pc' = [pc EXCEPT ![th] = "idle"] /\ item' = [item EXCEPT ![th] = NoConn]
        /\ link' = [link EXCEPT ![c] = target[th]]
        /\ UNCHANGED << pool, exists, items, status, ended, lapsed >>
    BY <1>1, <1>13 DEF InCallOK, Accounted, Relink
  <2>2. \A u \in Thread \ {th} : item[u] # c
    BY <2>1 DEF HeldOrLent
  <2>3. \A q \in PoolId : c \notin Elements(items[q])
    BY <2>1 DEF ListedAlone
  <2> HIDE DEF c
  <2>4. \A d \in Conn \ {c} : link'[d] = link[d]
    BY <1>1, <2>1
  <2>5. ClosedIsBlank' /\ ListedIsFree'
    BY <1>2, <2>1, <2>3, <2>4 DEF ClosedIsBlank, ListedIsFree
  <2>6. \A u \in Thread : pc'[u] \in Knowing =>
          pc'[u] = pc[u] /\ item'[u] = item[u] /\ item[u] \in Conn \ {c}
    BY <1>1, <2>1, <2>2 DEF InCallOK, Knowing
  <2>7. HeldIsSeenTo'
    BY <2>1, <2>4, <2>6 DEF HeldIsSeenTo, Knowing
  <2>8. QED BY <2>5, <2>7
<1>14. ASSUME NEW th \in Thread, NEW p \in PoolId, EraseInvalid(th, p)
       PROVE  PlaceOK'
  <2> DEFINE C == { c \in Elements(items[p]) : ~Valid(c) }
  <2>1. /\ items' = [items EXCEPT ![p] = Kept(items[p])] /\ Close(C)
        /\ UNCHANGED << pc, item, pool >>
    BY <1>14 DEF EraseInvalid
  <2>2. Elements(Kept(items[p])) = Elements(items[p]) \ C
    BY <1>1, KeptList
  <2>3. C \in SUBSET Conn /\ C \subseteq Elements(items[p])
    BY <1>2
  <2> HIDE DEF C
  <2>4. ASSUME NEW q \in PoolId PROVE Elements(items'[q]) \subseteq Elements(items[q]) \ C
    <3>1. CASE q = p
      BY <1>1, <2>1, <2>2, <3>1
    <3>2. CASE q # p
      BY <1>1, <2>1, <2>3, <3>2 DEF ListedOnce
    <3>3. QED BY <3>1, <3>2
  <2>5. \A u \in Thread : pc[u] \in Knowing => item[u] \in Conn \ C
    BY <2>3 DEF InCallOK, ListedAlone, Knowing
  <2>6. QED BY <1>2, <2>1, <2>3, <2>4, <2>5, ClosePlace
<1>15. ASSUME NEW p \in PoolId, DropPool(p)
       PROVE  PlaceOK'
  <2>1. UNCHANGED << pc, item, pool >> /\ LetGo(p, \E u \in Thread : pool[u] = p)
    BY <1>15 DEF DropPool
  <2>2. QED BY <2>1, LetGoPlace
<1>16. ASSUME NEW th \in Thread, NEW c \in Conn, NEW s \in Statuses, Use(th, c, s)
       PROVE  PlaceOK'
  <2>1. /\ pc[th] = "idle" /\ c \in mine[th] /\ c \in exists
        /\ status' = [status EXCEPT ![c] = s]
        /\ UNCHANGED << pc, item, pool, exists, items, link, ended, lapsed >>
    BY <1>16 DEF Accounted, Use
  <2>2. \A u \in Thread : item[u] = c => FALSE
    BY <2>1 DEF HeldOrLent
  <2>3. \A q \in PoolId : c \notin Elements(items[q])
    BY <2>1 DEF ListedAlone
  <2>4. \A d \in Conn \ {c} : status'[d] = status[d]
    BY <1>1, <2>1
  <2>5. ClosedIsBlank' /\ ListedIsFree'
    BY <1>2, <2>1, <2>3, <2>4 DEF ClosedIsBlank, ListedIsFree
  <2>6. \A u \in Thread : pc[u] \in Knowing => item[u] \in Conn \ {c}
    BY <2>2 DEF InCallOK, Knowing
  <2>7. HeldIsSeenTo'
    BY <2>1, <2>4, <2>6 DEF HeldIsSeenTo, Knowing
  <2>8. QED BY <2>5, <2>7
<1>17. ASSUME NEW c \in Conn, EndSession(c)
       PROVE  PlaceOK'
  <2>1. /\ c \in exists /\ ended' = ended \cup {c}
        /\ lapsed' = IF \E p \in PoolId : c \in Elements(items[p]) THEN lapsed \cup {c} ELSE lapsed
        /\ UNCHANGED << pc, item, pool, exists, items, link, status >>
    BY <1>17 DEF EndSession
  <2>2. ClosedIsBlank' /\ ListedIsFree'
    BY <2>1 DEF ClosedIsBlank, ListedIsFree
  <2>3. \A th \in Thread : item[th] \notin lapsed => item[th] \notin lapsed'
    BY <2>1 DEF ListedAlone
  <2>4. HeldIsSeenTo'
    BY <2>1, <2>3 DEF HeldIsSeenTo
  <2>5. QED BY <2>2, <2>4
<1>18. CASE UNCHANGED vars
  BY <1>18 DEF ClosedIsBlank, ListedIsFree, HeldIsSeenTo, vars
<1>19. QED
  BY <1>3, <1>4, <1>5, <1>6, <1>7, <1>8, <1>9, <1>10, <1>11, <1>12, <1>13, <1>14, <1>15,
     <1>16, <1>17, <1>18 DEF Next, Continue

-----------------------------------------------------------------------------
(* The counters                                                            *)

\* A deleter would count connection c down: this is what Counted asks beside
\* that it is open and linked to the pool.
Owed(c) ==
  \/ \E th \in Thread : c \in mine[th] /\ item[th] # c
  \/ \E th \in Thread : item[th] = c /\ pc[th] = "uncount"

LEMMA InitCounts == Init => CountsOK
<1> SUFFICES ASSUME Init PROVE CountsOK
  OBVIOUS
<1>1. \A p \in PoolId : Counted(p) = {} /\ attached[p] = 0
  BY DEF Init, Counted
<1>2. attached \in [PoolId -> Nat] /\ exists = {}
  BY DEF Init
<1>3. QED BY <1>1, <1>2, FS_EmptySet DEF CountsOK, AttachedIsExact

LEMMA CountedFinite ==
  ASSUME CountsOK, NEW p
  PROVE  IsFiniteSet(Counted(p)) /\ Cardinality(Counted(p)) \in Nat
<1>1. Counted(p) \in SUBSET exists
  BY DEF Counted
<1>2. QED BY <1>1, FS_Subset, FS_CardinalityType DEF CountsOK

\* Closing connections leaves finitely many open.
LEMMA ClosedFinite ==
  ASSUME CountsOK, NEW C, exists' = exists \ C
  PROVE  IsFiniteSet(exists')
<1>1. exists' \in SUBSET exists
  OBVIOUS
<1>2. QED BY <1>1, FS_Subset DEF CountsOK

\* A step that neither counts nor changes what is to be counted
LEMMA CountsKept ==
  ASSUME CountsOK, IsFiniteSet(exists'), attached' = attached,
         \A p \in PoolId : alive'[p] => alive[p] /\ Counted(p)' = Counted(p)
  PROVE  CountsOK'
<1>1. AttachedIsExact'
  BY DEF CountsOK, AttachedIsExact
<1>2. QED BY <1>1 DEF CountsOK

\* A step that adds a connection to those counted against one pool
LEMMA CountsUp ==
  ASSUME CountsOK, exists' = exists, alive' = alive, NEW p \in PoolId \cup {NoPool}, NEW c,
         c \notin Counted(p),
         \A q \in PoolId : Counted(q)' = IF q = p THEN Counted(q) \cup {c} ELSE Counted(q),
         attached' = IF Locks(p) THEN [attached EXCEPT ![p] = @ + 1] ELSE attached
  PROVE  CountsOK'
<1> USE NoPoolAssumption
<1>1. attached \in [PoolId -> Nat] /\ attached' \in [PoolId -> Nat]
  BY DEF CountsOK, Locks
<1>2. \A q \in PoolId : attached'[q] = IF q = p /\ alive[q] THEN attached[q] + 1 ELSE attached[q]
  BY <1>1 DEF Locks
<1>3. Cardinality(Counted(p) \cup {c}) = Cardinality(Counted(p)) + 1
  BY CountedFinite, FS_AddElement
<1>4. ASSUME NEW q \in PoolId, alive'[q] PROVE attached'[q] = Cardinality(Counted(q)')
  <2>1. attached[q] = Cardinality(Counted(q))
    BY <1>4 DEF CountsOK, AttachedIsExact
  <2>2. CASE q = p
    BY <1>2, <1>3, <1>4, <2>1, <2>2
  <2>3. CASE q # p
    BY <1>2, <2>1, <2>3
  <2>4. QED BY <2>2, <2>3
<1>5. QED BY <1>1, <1>4 DEF CountsOK, AttachedIsExact

\* A step that removes one; the counter was at least one.
LEMMA CountsDown ==
  ASSUME CountsOK, exists' = exists, alive' = alive, NEW p \in PoolId \cup {NoPool}, NEW c,
         c \in Counted(p),
         \A q \in PoolId : Counted(q)' = IF q = p THEN Counted(q) \ {c} ELSE Counted(q),
         attached' = IF Locks(p) THEN [attached EXCEPT ![p] = @ - 1] ELSE attached
  PROVE  CountsOK'
<1> USE NoPoolAssumption
<1>1. attached \in [PoolId -> Nat]
  BY DEF CountsOK
<1>2. \A q \in PoolId : attached'[q] = IF q = p /\ alive[q] THEN attached[q] - 1 ELSE attached[q]
  BY <1>1 DEF Locks
<1>3. Cardinality(Counted(p) \ {c}) = Cardinality(Counted(p)) - 1
  BY CountedFinite, FS_RemoveElement
<1>4. Cardinality(Counted(p)) \in Nat /\ Cardinality(Counted(p)) # 0
  BY CountedFinite, FS_EmptySet
<1>5. p \in PoolId /\ alive[p] => attached[p] - 1 \in Nat
  BY <1>4 DEF CountsOK, AttachedIsExact
<1>6. attached' \in [PoolId -> Nat]
  BY <1>1, <1>5 DEF Locks
<1>7. ASSUME NEW q \in PoolId, alive'[q] PROVE attached'[q] = Cardinality(Counted(q)')
  <2>1. attached[q] = Cardinality(Counted(q))
    BY <1>7 DEF CountsOK, AttachedIsExact
  <2>2. CASE q = p
    BY <1>2, <1>3, <1>7, <2>1, <2>2
  <2>3. CASE q # p
    BY <1>2, <2>1, <2>3
  <2>4. QED BY <2>2, <2>3
<1>8. QED BY <1>6, <1>7 DEF CountsOK, AttachedIsExact

\* Closing connections that no deleter would count down
LEMMA ClosedCounts ==
  ASSUME Typed, CountsOK, NEW C \in SUBSET Conn, Close(C), attached' = attached,
         \A p \in PoolId : alive'[p] => alive[p],
         \A c \in C : Owed(c) => ~Locks(link[c]),
         \A c \in Conn \ C : Owed(c)' <=> Owed(c)
  PROVE  CountsOK'
<1>1. exists' = exists \ C /\ \A c \in Conn \ C : link'[c] = link[c]
  BY DEF Close
<1>2. ASSUME NEW p \in PoolId, alive[p] PROVE Counted(p)' = Counted(p)
  <2>1. \A c \in C : c \notin Counted(p)
    BY <1>2, NoPoolAssumption DEF Counted, Owed, Locks
  <2>2. \A c \in C : c \notin Counted(p)'
    BY <1>1 DEF Counted
  <2>3. \A c \in Conn \ C : c \in Counted(p)' <=> c \in Counted(p)
    BY <1>1 DEF Counted, Owed
  <2>4. Counted(p) \subseteq Conn /\ Counted(p)' \subseteq Conn
    BY <1>1 DEF Typed, Counted
  <2>5. QED BY <2>1, <2>2, <2>3, <2>4
<1>3. IsFiniteSet(exists')
  BY <1>1, ClosedFinite
<1>4. QED BY <1>2, <1>3, CountsKept

\* A pool goes, and with it its list.
LEMMA LetGoCounts ==
  ASSUME Typed, OneOwner, CountsOK, NEW p \in PoolId, NEW others, LetGo(p, others),
         attached' = attached, \A c \in Conn : Owed(c)' <=> Owed(c)
  PROVE  CountsOK'
<1>1. CASE others
  <2>1. UNCHANGED << alive, exists, link >>
    BY <1>1 DEF LetGo
  <2>2. \A q \in PoolId : Counted(q)' = Counted(q)
    BY <2>1 DEF Typed, Counted, Owed
  <2>3. QED BY <2>1, <2>2, CountsKept DEF CountsOK
<1>2. CASE ~others
  <2> DEFINE C == Elements(items[p])
  <2>1. Close(C) /\ alive' = [alive EXCEPT ![p] = FALSE]
    BY <1>2 DEF LetGo
  <2>2. C \in SUBSET Conn
    BY ElementOfSeq, LenProperties DEF Typed, Elements
  <2>3. \A c \in C : ~Owed(c)
    BY DEF OneOwner, ListedAlone, Owed
  <2>4. \A q \in PoolId : alive'[q] => alive[q]
    BY <2>1 DEF Typed
  <2> HIDE DEF C
  <2>5. QED BY <2>1, <2>2, <2>3, <2>4, ClosedCounts
<1>3. QED BY <1>1, <1>2

LEMMA StepCounts ==
  ASSUME Typed, InCallOK, PoolsAlive, OneOwner, Accounted, CountsOK, PlaceOK, [Next]_vars
  PROVE  CountsOK'
<1> USE NoConnAssumption, NoPoolAssumption
    DEF Goto, Set, poolVars, serverVars, threadVars, OneOwner
<1>1. /\ pc \in [Thread -> Labels] /\ item \in [Thread -> Conn \cup {NoConn}]
      /\ mine \in [Thread -> SUBSET Conn] /\ exists \in SUBSET Conn
      /\ link \in [Conn -> PoolId \cup {NoPool}]
  BY DEF Typed
\* Nothing is counted, and the same is to be counted.
<1>a. ASSUME UNCHANGED << exists, alive, attached >>,
             \A c \in exists : \A p \in PoolId : (link'[c] = p /\ Owed(c)') <=> (link[c] = p /\ Owed(c))
      PROVE  CountsOK'
  <2>1. \A p \in PoolId : Counted(p)' = Counted(p)
    BY <1>a DEF Counted, Owed
  <2>2. QED BY <1>a, <2>1, CountsKept DEF CountsOK
<1>2. ASSUME NEW th \in Thread, NEW p \in PoolId, Get(th, p)
      PROVE  CountsOK'
  <2>1. /\ pc[th] = "idle" /\ pc' = [pc EXCEPT ![th] = "pull"]
        /\ UNCHANGED << item, mine, exists, link, alive, attached >>
    BY <1>2 DEF Get
  <2>2. \A c \in exists : Owed(c)' <=> Owed(c)
    BY <1>1, <2>1 DEF Owed
  <2>3. QED BY <1>a, <2>1, <2>2
<1>3. ASSUME NEW th \in Thread, Pull(th)
      PROVE  CountsOK'
  <2>1. /\ pc[th] = "pull" /\ pc'[th] # "uncount" /\ item[th] = NoConn
        /\ \A u \in Thread \ {th} : pc'[u] = pc[u] /\ item'[u] = item[u]
        /\ UNCHANGED << mine, exists, link, alive, attached >>
    BY <1>1, <1>3 DEF InCallOK, Pull
  <2>2. item'[th] \notin mine[th]
    <3> DEFINE s == items[pool[th]]
    <3>1. CASE s = <<>>
      BY <1>1, <1>3, <2>1, <3>1 DEF Pull
    <3>2. CASE s # <<>>
      <4>1. pool[th] \in PoolId /\ s \in Seq(Conn)
        BY <1>3 DEF Typed, InCallOK, Pull
      <4>2. s[Len(s)] \in Elements(s)
        BY <3>2, <4>1, PoppedList
      <4>3. s[Len(s)] \notin mine[th]
        BY <4>1, <4>2 DEF ListedAlone
      <4>4. item' = [item EXCEPT ![th] = s[Len(s)]]
        BY <1>3, <3>2 DEF Pull
      <4>5. QED BY <1>1, <4>3, <4>4
    <3>3. QED BY <3>1, <3>2
  <2>3. \A c \in exists : Owed(c)' <=> Owed(c)
    BY <1>1, <2>1, <2>2 DEF Owed
  <2>4. QED BY <1>a, <2>1, <2>3
<1>4. ASSUME NEW th \in Thread, Check(th) \/ Validate(th)
      PROVE  CountsOK'
  <2> DEFINE c == item[th]
  <2>1. /\ pc[th] \in {"check", "validate"} /\ c \in Conn
        /\ UNCHANGED << mine, alive, attached >>
    BY <1>4 DEF InCallOK, Check, Validate
  <2>2. \A u \in Thread : c \notin mine[u] /\ (u # th => item[u] # c)
    BY <2>1 DEF HeldOnce, HeldOrLent
  <2>3. ~Owed(c)
    BY <2>1, <2>2 DEF Owed
  <2>4. CASE Valid(c)
    <3>1. /\ (\E l \in {"count", "push"} : pc' = [pc EXCEPT ![th] = l]) /\ UNCHANGED << item, exists >>
          /\ \E q : link' = [link EXCEPT ![c] = q]
      BY <1>4, <2>4 DEF Check, Validate
    <3>2. \A d \in exists : Owed(d)' <=> Owed(d)
      BY <1>1, <2>1, <3>1 DEF Owed
    <3>3. \A d \in Conn \ {c} : link'[d] = link[d]
      BY <1>1, <3>1
    <3>4. QED BY <1>1, <1>a, <2>1, <2>3, <3>1, <3>2, <3>3
  <2>5. CASE ~Valid(c)
    <3>1. /\ \E l \in {"pull", "leave"} : pc' = [pc EXCEPT ![th] = l]
          /\ item' = [item EXCEPT ![th] = NoConn] /\ Close({c})
      BY <1>4, <2>5 DEF Check, Validate
    <3>2. \A d \in Conn \ {c} : Owed(d)' <=> Owed(d)
      BY <1>1, <2>1, <3>1 DEF Owed
    <3>3. QED BY <2>1, <2>3, <3>1, <3>2, ClosedCounts
  <2>6. QED BY <2>4, <2>5
<1>5. ASSUME NEW th \in Thread, CreateFails(th)
      PROVE  CountsOK'
  <2>1. /\ pc[th] = "create" /\ pc' = [pc EXCEPT ![th] = "leave"]
        /\ UNCHANGED << item, mine, exists, link, alive, attached >>
    BY <1>5 DEF CreateFails
  <2>2. \A c \in exists : Owed(c)' <=> Owed(c)
    BY <1>1, <2>1 DEF Owed
  <2>3. QED BY <1>a, <2>1, <2>2
<1>6. ASSUME NEW th \in Thread, NEW c \in Conn, Create(th, c)
      PROVE  CountsOK'
  <2>1. /\ c \notin exists /\ pc[th] = "create" /\ pc' = [pc EXCEPT ![th] = "count"]
        /\ item[th] = NoConn /\ item' = [item EXCEPT ![th] = c]
        /\ exists' = exists \cup {c} /\ link' = [link EXCEPT ![c] = pool[th]]
        /\ UNCHANGED << mine, alive, attached >>
    BY <1>6 DEF InCallOK, Create
  <2>2. \A u \in Thread : c \notin mine[u] /\ item[u] # c
    BY <2>1 DEF Accounted
  <2>3. \A d \in exists : link'[d] = link[d] /\ (Owed(d)' <=> Owed(d))
    BY <1>1, <2>1 DEF Owed
  <2>4. ~Owed(c)'
    BY <1>1, <2>1, <2>2 DEF Owed
  <2>5. \A p \in PoolId : Counted(p)' = Counted(p)
    BY <2>1, <2>3, <2>4 DEF Counted, Owed
  <2>6. IsFiniteSet(exists')
    BY <2>1, FS_AddElement DEF CountsOK
  <2>7. QED BY <2>1, <2>5, <2>6, CountsKept
<1>7. ASSUME NEW th \in Thread, Count(th)
      PROVE  CountsOK'
  <2>1. PICK c : c = item[th]
    OBVIOUS
  <2>2. /\ pc[th] = "count" /\ c \in Conn /\ c \in exists /\ pool[th] \in PoolId /\ alive[pool[th]]
        /\ pc' = [pc EXCEPT ![th] = "leave"] /\ item' = [item EXCEPT ![th] = NoConn]
        /\ mine' = [mine EXCEPT ![th] = @ \cup {c}]
        /\ attached' = [attached EXCEPT ![pool[th]] = @ + 1]
        /\ UNCHANGED << exists, link, alive >>
    BY <1>7, <2>1 DEF InCallOK, Accounted, PoolsAlive, NoUseAfterFree, Count
  <2>3. \A u \in Thread : c \notin mine[u] /\ (u # th => item[u] # c)
    BY <2>1, <2>2 DEF HeldOnce, HeldOrLent
  <2>4. link[c] = pool[th]
    BY <2>1, <2>2 DEF PlaceOK, HeldIsSeenTo
  <2>5. ~Owed(c)
    BY <2>1, <2>2, <2>3 DEF Owed
  <2>6. Owed(c)'
    <3>1. c \in mine'[th] /\ item'[th] # c
      BY <1>1, <2>1, <2>2
    <3>2. QED BY <3>1 DEF Owed
  <2>7. \A d \in exists \ {c} : Owed(d)' <=> Owed(d)
    <3>1. \A d \in exists \ {c} : \A u \in Thread :
            /\ d \in mine'[u] <=> d \in mine[u]
            /\ item'[u] = d <=> item[u] = d
            /\ item'[u] = d => pc'[u] = pc[u]
      BY <1>1, <2>1, <2>2
    <3>2. QED BY <3>1 DEF Owed
  <2>8. \A q \in PoolId : Counted(q)' = IF q = pool[th] THEN Counted(q) \cup {c} ELSE Counted(q)
    BY <2>2, <2>4, <2>6, <2>7 DEF Counted, Owed
  <2>9. c \notin Counted(pool[th])
    BY <2>5 DEF Counted, Owed
  <2>10. QED BY <2>2, <2>8, <2>9, CountsUp DEF Locks
<1>8. ASSUME NEW th \in Thread, Leave(th)
      PROVE  CountsOK'
  <2> DEFINE others == handle[pool[th]] \/ \E u \in Thread \ {th} : pool[u] = pool[th]
  <2>1. /\ pc[th] = "leave" /\ item[th] = NoConn /\ pool[th] \in PoolId
        /\ pc' = [pc EXCEPT ![th] = "idle"] /\ item' = [item EXCEPT ![th] = NoConn]
        /\ UNCHANGED << mine, attached >> /\ LetGo(pool[th], others)
    BY <1>8 DEF InCallOK, Leave
  <2> HIDE DEF others
  <2>2. \A c \in Conn : Owed(c)' <=> Owed(c)
    BY <1>1, <2>1 DEF Owed
  <2>3. QED BY <2>1, <2>2, LetGoCounts
<1>9. ASSUME NEW th \in Thread, NEW c \in Conn, GiveBack(th, c)
      PROVE  CountsOK'
  <2>1. /\ pc[th] = "idle" /\ item[th] = NoConn /\ c \in mine[th] /\ c \in exists
        /\ mine' = [mine EXCEPT ![th] = @ \ {c}] /\ UNCHANGED << alive, attached >>
    BY <1>9 DEF InCallOK, Accounted, GiveBack
  <2>2. Owed(c)
    BY <2>1 DEF Owed
  <2>3. CASE Locks(link[c])
    <3>1. /\ pc' = [pc EXCEPT ![th] = "uncount"] /\ item' = [item EXCEPT ![th] = c]
          /\ UNCHANGED << exists, link >>
      BY <1>9, <2>3 DEF GiveBack
    <3>2. Owed(c)'
      <4>1. item'[th] = c /\ pc'[th] = "uncount"
        BY <1>1, <3>1
      <4>2. QED BY <4>1 DEF Owed
    <3>3. \A d \in exists \ {c} : Owed(d)' <=> Owed(d)
      <4>1. \A d \in exists \ {c} : \A u \in Thread :
              /\ d \in mine'[u] <=> d \in mine[u]
              /\ item'[u] = d <=> item[u] = d
              /\ item'[u] = d => pc'[u] = pc[u]
        BY <1>1, <2>1, <3>1
      <4>2. QED BY <4>1 DEF Owed
    <3>4. QED BY <1>a, <2>1, <2>2, <3>1, <3>2, <3>3
  <2>4. CASE ~Locks(link[c])
    <3>1. UNCHANGED << pc, item >> /\ Close({c})
      BY <1>9, <2>4 DEF GiveBack
    <3>2. \A d \in Conn \ {c} : Owed(d)' <=> Owed(d)
      <4>1. \A d \in Conn \ {c} : \A u \in Thread : d \in mine'[u] <=> d \in mine[u]
        BY <1>1, <2>1
      <4>2. QED BY <3>1, <4>1 DEF Owed
    <3>3. QED BY <2>1, <2>4, <3>1, <3>2, ClosedCounts
  <2>5. QED BY <2>3, <2>4
<1>10. ASSUME NEW th \in Thread, Uncount(th)
      PROVE  CountsOK'
  <2>1. PICK c : c = item[th]
    OBVIOUS
  <2>2. /\ pc[th] = "uncount" /\ c \in Conn /\ c \in exists /\ pool[th] \in PoolId /\ alive[pool[th]]
        /\ pc' = [pc EXCEPT ![th] = "validate"]
        /\ attached' = [attached EXCEPT ![pool[th]] = @ - 1]
        /\ UNCHANGED << item, mine, exists, link, alive >>
    BY <1>10, <2>1 DEF InCallOK, Accounted, PoolsAlive, NoUseAfterFree, Uncount
  <2>3. \A u \in Thread : c \notin mine[u] /\ (u # th => item[u] # c)
    BY <2>1, <2>2 DEF HeldOnce, HeldOrLent
  <2>4. link[c] = pool[th]
    BY <2>1, <2>2 DEF PlaceOK, HeldIsSeenTo
  <2>5. Owed(c)
    BY <2>1, <2>2 DEF Owed
  <2>6. ~Owed(c)'
    BY <1>1, <2>1, <2>2, <2>3 DEF Owed
  <2>7. \A d \in exists \ {c} : Owed(d)' <=> Owed(d)
    BY <1>1, <2>1, <2>2 DEF Owed
  <2>8. \A q \in PoolId : Counted(q)' = IF q = pool[th] THEN Counted(q) \ {c} ELSE Counted(q)
    BY <2>2, <2>4, <2>6, <2>7 DEF Counted, Owed
  <2>9. c \in Counted(pool[th])
    BY <2>2, <2>4, <2>5 DEF Counted, Owed
  <2>10. QED BY <2>2, <2>8, <2>9, CountsDown DEF Locks
<1>11. ASSUME NEW th \in Thread, Push(th)
       PROVE  CountsOK'
  <2>1. /\ pc[th] = "push" /\ item[th] \in Conn /\ pc' = [pc EXCEPT ![th] = "leave"]
        /\ item' = [item EXCEPT ![th] = NoConn]
        /\ UNCHANGED << mine, exists, link, alive, attached >>
    BY <1>11 DEF InCallOK, Push
  <2>2. item[th] \notin mine[th]
    BY <2>1 DEF HeldOrLent
  <2>3. \A d \in exists : Owed(d)' <=> Owed(d)
    BY <1>1, <2>1, <2>2 DEF Owed
  <2>4. QED BY <1>a, <2>1, <2>3
<1>12. ASSUME NEW th \in Thread, NEW c \in Conn, NEW q \in PoolId \cup {NoPool}, Attach(th, c, q)
       PROVE  CountsOK'
  <2>1. /\ pc[th] = "idle" /\ item[th] = NoConn /\ c \in mine[th] /\ c \in exists
        /\ pc' = [pc EXCEPT ![th] = "relink"] /\ item' = [item EXCEPT ![th] = c]
        /\ attached' = IF Locks(link[c]) THEN [attached EXCEPT ![link[c]] = @ - 1] ELSE attached
        /\ UNCHANGED << mine, exists, link, alive >>
    BY <1>12 DEF InCallOK, Accounted, Attach
  <2>2. \A u \in Thread : item[u] # c /\ (u # th => c \notin mine[u])
    BY <2>1 DEF HeldOrLent, LentOnce
  <2>3. Owed(c)
    BY <2>1 DEF Owed
  <2>4. \A u \in Thread : /\ item'[u] = IF u = th THEN c ELSE item[u]
                          /\ pc'[u] = IF u = th THEN "relink" ELSE pc[u]
    BY <1>1, <2>1
  <2>5. ~Owed(c)'
    BY <2>1, <2>2, <2>4 DEF Owed
  <2>6. \A d \in exists \ {c} : Owed(d)' <=> Owed(d)
    BY <1>1, <2>1, <2>4 DEF Owed
  <2>7. \A p \in PoolId \cup {NoPool} :
          Counted(p)' = IF p = link[c] THEN Counted(p) \ {c} ELSE Counted(p)
    BY <2>1, <2>5, <2>6 DEF Counted, Owed
  <2>8. c \in Counted(link[c]) /\ link[c] \in PoolId \cup {NoPool}
    BY <1>1, <2>1, <2>3 DEF Counted, Owed
  <2>9. QED BY <2>1, <2>7, <2>8, CountsDown
<1>13. ASSUME NEW th \in Thread, Relink(th)
       PROVE  CountsOK'
  <2>1. PICK c : c = item[th]
    OBVIOUS
  <2>2. PICK n : n = target[th]
    OBVIOUS
  <2>3. /\ pc[th] = "relink" /\ c \in mine[th] /\ c \in Conn /\ c \in exists
        /\ n \in PoolId \cup {NoPool}
        /\ pc' = [pc EXCEPT ![th] = "idle"] /\ item' = [item EXCEPT ![th] = NoConn]
        /\ link' = [link EXCEPT ![c] = n]
        /\ attached' = IF Locks(n) THEN [attached EXCEPT ![n] = @ + 1] ELSE attached
        /\ UNCHANGED << mine, exists, alive >>
    BY <1>1, <1>13, <2>1, <2>2 DEF Typed, InCallOK, Accounted, Relink
  <2>4. \A u \in Thread \ {th} : item[u] # c /\ c \notin mine[u]
    BY <2>1, <2>3 DEF HeldOrLent, LentOnce
  <2>5. ~Owed(c)
    BY <2>1, <2>3, <2>4 DEF Owed
  <2>6. \A u \in Thread : /\ item'[u] = IF u = th THEN NoConn ELSE item[u]
                          /\ pc'[u] = IF u = th THEN "idle" ELSE pc[u]
    BY <1>1, <2>1, <2>3
  <2>7. Owed(c)'
    <3>1. c \in mine'[th] /\ item'[th] # c
      BY <2>3, <2>6
    <3>2. QED BY <3>1 DEF Owed
  <2>8. \A d \in exists \ {c} : Owed(d)' <=> Owed(d)
    BY <1>1, <2>1, <2>3, <2>6 DEF Owed
  <2>9. \A d \in Conn : link'[d] = IF d = c THEN n ELSE link[d]
    BY <1>1, <2>1, <2>3
  <2>10. \A q \in PoolId \cup {NoPool} :
          Counted(q)' = IF q = n THEN Counted(q) \cup {c} ELSE Counted(q)
    BY <1>1, <2>1, <2>3, <2>5, <2>7, <2>8, <2>9 DEF Counted, Owed
  <2>11. c \notin Counted(n)
    BY <2>5 DEF Counted, Owed
  <2>12. QED BY <2>3, <2>10, <2>11, CountsUp
<1>14. ASSUME NEW th \in Thread, NEW p \in PoolId, EraseInvalid(th, p)
       PROVE  CountsOK'
  <2> DEFINE C == { c \in Elements(items[p]) : ~Valid(c) }
  <2>1. Close(C) /\ UNCHANGED << pc, item, mine, alive, attached >>
    BY <1>14 DEF EraseInvalid
  <2>2. C \in SUBSET Conn
    BY ElementOfSeq, LenProperties DEF Typed, Elements
  <2>3. \A c \in C : ~Owed(c)
    BY DEF ListedAlone, Owed
  <2> HIDE DEF C
  <2>4. \A c \in Conn : Owed(c)' <=> Owed(c)
    BY <2>1 DEF Owed
  <2>5. QED BY <2>1, <2>2, <2>3, <2>4, ClosedCounts
<1>15. ASSUME NEW p \in PoolId, DropPool(p)
       PROVE  CountsOK'
  <2>1. /\ UNCHANGED << pc, item, mine, attached >>
        /\ LetGo(p, \E u \in Thread : pool[u] = p)
    BY <1>15 DEF DropPool
  <2>2. \A c \in Conn : Owed(c)' <=> Owed(c)
    BY <2>1 DEF Owed
  <2>3. QED BY <2>1, <2>2, LetGoCounts
<1>16. CASE UNCHANGED << pc, item, mine, exists, link, alive, attached >>
  <2>1. \A c \in exists : Owed(c)' <=> Owed(c)
    BY <1>16 DEF Owed
  <2>2. QED BY <1>a, <1>16, <2>1
<1>17. ASSUME NEW th \in Thread, NEW c \in Conn, NEW s \in Statuses, Use(th, c, s)
       PROVE  CountsOK'
  BY <1>16, <1>17 DEF Use
<1>18. ASSUME NEW c \in Conn, EndSession(c)
       PROVE  CountsOK'
  BY <1>16, <1>18 DEF EndSession
<1>19. CASE UNCHANGED vars
  BY <1>16, <1>19 DEF vars
<1>20. QED
  BY <1>2, <1>3, <1>4, <1>5, <1>6, <1>7, <1>8, <1>9, <1>10, <1>11, <1>12, <1>13, <1>14,
     <1>15, <1>17, <1>18, <1>19 DEF Next, Continue

-----------------------------------------------------------------------------
(* The theorems                                                            *)

LEMMA InductiveInvariant == SafeSpec => []IInv
<1>1. Init => IInv
  BY InitTyped, InitPoolsAlive, InitOwners, InitPlace, InitCounts DEF IInv
<1>2. IInv /\ [Next]_vars => IInv'
  <2> SUFFICES ASSUME IInv, [Next]_vars PROVE IInv'
    OBVIOUS
  <2>1. Typed /\ InCallOK /\ PoolsAlive /\ OneOwner /\ Accounted /\ PlaceOK /\ CountsOK
    BY DEF IInv
  <2>2. Typed' /\ InCallOK'
    BY <2>1, StepTyped
  <2>3. PoolsAlive'
    BY <2>1, StepPoolsAlive
  <2>4. OneOwner' /\ Accounted'
    BY <2>1, StepOwners
  <2>5. PlaceOK'
    BY <2>1, StepPlace
  <2>6. CountsOK'
    BY <2>1, StepCounts
  <2>7. QED BY <2>2, <2>3, <2>4, <2>5, <2>6 DEF IInv
<1>3. QED BY <1>1, <1>2, PTL DEF SafeSpec

\* The variables keep their types, for every set of threads, connections and
\* pools; in particular the counters, of type size_t, never drop below zero.
THEOREM TypeCorrect == SafeSpec => []TypeOK
<1>1. IInv => TypeOK
  BY DEF IInv, Typed, CountsOK, TypeOK
<1>2. QED BY <1>1, InductiveInvariant, PTL

\* A thread in a call of pool never works on one that is destroyed: the
\* shared_ptr it took on entry, or by locking the weak_ptr in a deleter, is enough.
THEOREM PoolsOutliveCalls == SafeSpec => []NoUseAfterFree
<1>1. IInv => NoUseAfterFree
  BY DEF IInv, PoolsAlive
<1>2. QED BY <1>1, InductiveInvariant, PTL

\* What waits in a list is idle and has an empty deleter.
THEOREM ListsHoldFreeConnections == SafeSpec => []ListedIsFree
<1>1. IInv => ListedIsFree
  BY DEF IInv, PlaceOK
<1>2. QED BY <1>1, InductiveInvariant, PTL

\* m_attached of a pool that is not destroyed is the number of connections
\* whose deleter is yet to count it down.
THEOREM CountersAreExact == SafeSpec => []AttachedIsExact
<1>1. IInv => AttachedIsExact
  BY DEF IInv, CountsOK
<1>2. QED BY <1>1, InductiveInvariant, PTL

\* The three sets that OnePlace counts, for a connection in each of its places
LEMMA PlacesOfLent ==
  ASSUME Typed, OneOwner, NEW c \in Conn, NEW th \in Thread, c \in mine[th]
  PROVE  Lent(c) = {th} /\ InCall(c) = {} /\ Listed(c) = {}
<1>1. Lent(c) = {th}
  BY DEF OneOwner, LentOnce, Lent
<1>2. InCall(c) = {}
  BY DEF OneOwner, HeldOrLent, InCall
<1>3. Listed(c) = {}
  BY DEF OneOwner, ListedAlone, Listed, Elements
<1>4. QED BY <1>1, <1>2, <1>3

LEMMA PlacesOfHeld ==
  ASSUME Typed, OneOwner, NEW c \in Conn, NEW th \in Thread, c = item[th],
         \A u \in Thread : c \notin mine[u]
  PROVE  Lent(c) = {} /\ InCall(c) = {th} /\ Listed(c) = {}
<1>1. Lent(c) = {}
  BY DEF Lent
<1>2. InCall(c) = {th}
  BY NoConnAssumption DEF OneOwner, HeldOnce, InCall
<1>3. Listed(c) = {}
  BY DEF OneOwner, ListedAlone, Listed, Elements
<1>4. QED BY <1>1, <1>2, <1>3

LEMMA PlacesOfListed ==
  ASSUME Typed, OneOwner, NEW c \in Conn, NEW p \in PoolId, c \in Elements(items[p])
  PROVE  Lent(c) = {} /\ InCall(c) = {} /\ \E x : Listed(c) = {x}
<1>1. Lent(c) = {} /\ InCall(c) = {}
  BY DEF OneOwner, ListedAlone, Lent, InCall
<1>2. PICK i \in 1 .. Len(items[p]) : items[p][i] = c
  BY DEF Elements
<1>3. \A q \in PoolId : \A j \in 1 .. Len(items[q]) : items[q][j] = c => q = p /\ j = i
  <2> SUFFICES ASSUME NEW q \in PoolId, NEW j \in 1 .. Len(items[q]), items[q][j] = c
               PROVE  q = p /\ j = i
    OBVIOUS
  <2>1. c \in Elements(items[q])
    BY DEF Elements
  <2>2. q = p
    BY <2>1 DEF OneOwner, ListedOnce
  <2>3. NoRepeat(items[p])
    BY DEF OneOwner, ListedOnce
  <2>4. QED BY <1>2, <2>2, <2>3 DEF NoRepeat
<1>4. Listed(c) = {<< p, i >>}
  BY <1>2, <1>3 DEF Listed
<1>5. QED BY <1>1, <1>4

\* However many threads take connections, give them back, move them between
\* pools, clean up and let pools go: an open connection is in one place.
THEOREM EachInOnePlace == SafeSpec => []OnePlace
<1>1. IInv => OnePlace
  <2> SUFFICES ASSUME Typed, OneOwner, Accounted, NEW c \in Conn
               PROVE  Cardinality(Lent(c)) + Cardinality(InCall(c)) + Cardinality(Listed(c))
                        = IF c \in exists THEN 1 ELSE 0
    BY DEF IInv, OnePlace
  <2>1. Cardinality({}) = 0 /\ \A x : Cardinality({x}) = 1
    BY FS_EmptySet, FS_Singleton
  <2>2. CASE c \notin exists
    <3>1. Lent(c) = {} /\ InCall(c) = {}
      BY <2>2, NoConnAssumption DEF Accounted, Lent, InCall
    <3>2. Listed(c) = {}
      BY <2>2 DEF Accounted, Listed, Elements
    <3>3. QED BY <2>1, <2>2, <3>1, <3>2
  <2>3. ASSUME NEW th \in Thread, c \in mine[th]
        PROVE  c \in exists /\ Cardinality(Lent(c)) + Cardinality(InCall(c)) + Cardinality(Listed(c)) = 1
    <3>1. Cardinality(Lent(c)) = 1 /\ Cardinality(InCall(c)) = 0 /\ Cardinality(Listed(c)) = 0
      BY <2>1, <2>3, PlacesOfLent, Zenon
    <3>2. QED BY <2>3, <3>1 DEF Accounted
  <2>4. ASSUME NEW th \in Thread, c = item[th], \A u \in Thread : c \notin mine[u]
        PROVE  Cardinality(Lent(c)) + Cardinality(InCall(c)) + Cardinality(Listed(c)) = 1
    <3>1. Cardinality(Lent(c)) = 0 /\ Cardinality(InCall(c)) = 1 /\ Cardinality(Listed(c)) = 0
      BY <2>1, <2>4, PlacesOfHeld, Zenon
    <3>2. QED BY <3>1
  <2>5. ASSUME NEW p \in PoolId, c \in Elements(items[p])
        PROVE  Cardinality(Lent(c)) + Cardinality(InCall(c)) + Cardinality(Listed(c)) = 1
    <3>1. PICK x : Listed(c) = {x}
      BY <2>5, PlacesOfListed
    <3>2. Lent(c) = {} /\ InCall(c) = {}
      BY <2>5, PlacesOfListed
    <3>3. Cardinality(Lent(c)) = 0 /\ Cardinality(InCall(c)) = 0 /\ Cardinality(Listed(c)) = 1
      BY <2>1, <3>1, <3>2, Zenon
    <3>4. QED BY <3>3
  <2>6. QED BY <2>2, <2>3, <2>4, <2>5 DEF Accounted
<1>2. QED BY <1>1, InductiveInvariant, PTL

\* A connection comes to a thread by one step only, the last of get().
LEMMA OnlyCountHandsOut ==
  ASSUME Typed, InCallOK, [Next]_vars, NEW th \in Thread, NEW c \in Conn, HandedOut(th, c)
  PROVE  Count(th) /\ item[th] = c
<1> USE DEF HandedOut, threadVars
<1>1. mine \in [Thread -> SUBSET Conn]
  BY DEF Typed
<1>2. CASE \A u \in Thread : mine'[u] \subseteq mine[u]
  BY <1>2
<1>3. ASSUME NEW u \in Thread, Count(u)
      PROVE  Count(th) /\ item[th] = c
  BY <1>1, <1>3 DEF Count
<1>4. ASSUME NEW u \in Thread,
             \/ \E p \in PoolId : Get(u, p) \/ EraseInvalid(u, p)
             \/ Pull(u) \/ Check(u) \/ CreateFails(u) \/ Leave(u) \/ Uncount(u)
             \/ Validate(u) \/ Push(u) \/ Relink(u)
             \/ \E d \in Conn : Create(u, d)
             \/ \E d \in Conn, q \in PoolId \cup {NoPool} : Attach(u, d, q)
             \/ \E d \in Conn, s \in Statuses : Use(u, d, s)
      PROVE  Count(th) /\ item[th] = c
  <2>1. mine' = mine
    BY <1>4 DEF Get, EraseInvalid, Pull, Check, CreateFails, Leave, Uncount, Validate, Push,
                Relink, Create, Attach, Use
  <2>2. QED BY <1>2, <2>1
<1>5. ASSUME NEW u \in Thread, NEW d \in Conn, GiveBack(u, d)
      PROVE  Count(th) /\ item[th] = c
  <2>1. \A v \in Thread : mine'[v] \subseteq mine[v]
    BY <1>1, <1>5 DEF GiveBack
  <2>2. QED BY <1>2, <2>1
<1>6. ASSUME \/ \E p \in PoolId : DropPool(p)
             \/ \E d \in Conn : EndSession(d)
             \/ UNCHANGED vars
      PROVE  Count(th) /\ item[th] = c
  <2>1. mine' = mine
    BY <1>6 DEF DropPool, EndSession, vars
  <2>2. QED BY <1>2, <2>1
<1>7. QED BY <1>3, <1>4, <1>5, <1>6 DEF Next, Continue

\* get() hands out only connections that are idle and counted against the
\* pool asked, and if v_is_valid() can tell, none that ended in the list.
THEOREM GetIsUsable == SafeSpec => BorrowedIsUsable
<1>1. IInv /\ [Next]_vars =>
        [ \A th \in Thread, c \in Conn : HandedOut(th, c) =>
            /\ status[c] = "idle" /\ link[c] = pool[th]
            /\ SeesEnd => c \notin lapsed ]_vars
  <2> SUFFICES ASSUME IInv, [Next]_vars, NEW th \in Thread, NEW c \in Conn, HandedOut(th, c)
               PROVE  /\ status[c] = "idle" /\ link[c] = pool[th]
                      /\ SeesEnd => c \notin lapsed
    OBVIOUS
  <2>1. pc[th] = "count" /\ item[th] = c
    BY OnlyCountHandsOut DEF IInv, Count
  <2>2. QED BY <2>1 DEF IInv, PlaceOK, HeldIsSeenTo
<1>2. QED BY <1>1, InductiveInvariant, PTL DEF SafeSpec, BorrowedIsUsable

=============================================================================
