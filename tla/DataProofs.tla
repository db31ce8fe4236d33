----------------------------- MODULE DataProofs -----------------------------
(***************************************************************************)
(* What is read and what is sent is in its place: for results of any size, *)
(* slices of any depth, and parameters of any capacity.                    *)
(*                                                                         *)
(* Both are about numbers up to a bound, so the principle of the least     *)
(* number comes first, and from it that a recursive function is what its   *)
(* definition says.                                                        *)
(*                                                                         *)
(* Rows: a row's columns are the consecutive columns of the result from    *)
(* its offset on, and lie in the result.  A name is looked up in the       *)
(* result first, and then again from the row's offset on.                  *)
(*                                                                         *)
(* Types: a type of any nesting is read by taking its columns in order.    *)
(* It is by induction over the nesting, which also says that the functions *)
(* of types are what their recursive definitions say.                      *)
(*                                                                         *)
(* Parameters: gen() finds member and column of every column that fill()   *)
(* writes, bind() goes through its arguments one by one, and the heap      *)
(* objects of a parameter are its own.                                     *)
(***************************************************************************)
EXTENDS RowTypes, Parameter, Integers, FiniteSetTheorems, WellFoundedInduction, TLAPS

-----------------------------------------------------------------------------
(* Numbers up to a bound, and functions of them.                           *)

Smaller == { p \in Nat \X Nat : p[1] < p[2] }

\* Every set of numbers has a least one: what the library proves of their order.
LEMMA LeastNumber ==
  ASSUME NEW S, S \subseteq Nat, S # {}
  PROVE  \E x \in S : \A y \in S : x <= y
<1>1. OpToRel(<, Nat) = Smaller
  BY DEF OpToRel, Smaller
<1>2. IsWellFoundedOn(Smaller, Nat)
  BY <1>1, NatLessThanWellFounded
<1>3. PICK x \in S : \A y \in S : ~(<< y, x >> \in Smaller)
  BY <1>2, WFMin
<1>4. \A y \in S : ~(y < x)
  BY <1>3 DEF Smaller
<1> QED
  BY <1>4

\* What holds of 0, and of each number together with the one before, holds of
\* all numbers up to a bound.
LEMMA Upwards ==
  ASSUME NEW m \in Nat, NEW W, 0 \in W, \A n \in 1 .. m : n - 1 \in W => n \in W
  PROVE  \A n \in 0 .. m : n \in W
<1> DEFINE Rest == { n \in 0 .. m : n \notin W }
<1>1. SUFFICES ASSUME Rest # {} PROVE FALSE
  OBVIOUS
<1>2. Rest \subseteq Nat
  OBVIOUS
<1>3. PICK x \in Rest : \A y \in Rest : x <= y
  <2> HIDE DEF Rest
  <2>1. QED BY <1>1, <1>2, LeastNumber
<1>4. x \in 1 .. m /\ x - 1 \in 0 .. m /\ x - 1 < x
  BY <1>3
<1>5. x - 1 \in W
  <2>1. SUFFICES ASSUME x - 1 \notin W PROVE FALSE
    OBVIOUS
  <2>2. x - 1 \in Rest
    BY <1>4, <2>1
  <2>3. x <= x - 1
    BY <1>3, <2>2
  <2>4. QED BY <1>4, <2>3
<1>6. QED BY <1>3, <1>4, <1>5

\* Each value of f, up to that of m, follows from the one before.
Follows(f, m, base, step) ==
  f[0] = base /\ \A n \in 1 .. m : f[n] = step[<< n, f[n - 1] >>]

\* A function may be defined by what follows from one value to the next.
LEMMA Recursion ==
  ASSUME NEW S, NEW base \in S, NEW m \in Nat, NEW step \in [(1 .. m) \X S -> S]
  PROVE  \E f \in [0 .. m -> S] : Follows(f, m, base, step)
<1> DEFINE W == { k \in 0 .. m : \E f \in [0 .. k -> S] : Follows(f, k, base, step) }
<1>1. 0 \in W
  <2> DEFINE f == [n \in 0 .. 0 |-> base]
  <2>1. f \in [0 .. 0 -> S] /\ Follows(f, 0, base, step)
    BY DEF Follows
  <2> HIDE DEF f
  <2>2. 0 \in 0 .. m
    OBVIOUS
  <2>3. QED BY <2>1, <2>2
<1>2. ASSUME NEW k \in 1 .. m, k - 1 \in W PROVE k \in W
  <2>1. PICK f \in [0 .. k - 1 -> S] : Follows(f, k - 1, base, step)
    BY <1>2
  <2> DEFINE last == step[<< k, f[k - 1] >>]
             g == [n \in 0 .. k |-> IF n = k THEN last ELSE f[n]]
  <2>2. last \in S
    <3>1. k - 1 \in 0 .. k - 1
      OBVIOUS
    <3>2. f[k - 1] \in S
      BY <2>1, <3>1
    <3>3. QED BY <3>2
  <2>3. g \in [0 .. k -> S]
    <3> HIDE DEF last
    <3>1. \A n \in 0 .. k : n # k => n \in 0 .. k - 1
      OBVIOUS
    <3>2. QED BY <2>2, <3>1
  <2>4. g[0] = base
    BY <2>1 DEF Follows
  <2>5. ASSUME NEW n \in 1 .. k PROVE g[n] = step[<< n, g[n - 1] >>]
    <3>1. n - 1 \in 0 .. k /\ n - 1 # k /\ n \in 0 .. k
      OBVIOUS
    <3>2. g[n - 1] = f[n - 1]
      BY <3>1
    <3>3. CASE n = k
      <4>1. g[k] = last
        OBVIOUS
      <4> HIDE DEF g
      <4>2. g[k] = step[<< k, g[k - 1] >>]
        BY <3>2, <3>3, <4>1
      <4>3. QED BY <3>3, <4>2
    <3>4. CASE n # k
      <4>1. n \in 1 .. k - 1
        BY <3>4
      <4>2. QED BY <2>1, <3>1, <3>2, <3>4, <4>1 DEF Follows
    <3>5. QED BY <3>3, <3>4
  <2>6. Follows(g, k, base, step)
    BY <2>4, <2>5 DEF Follows
  <2> HIDE DEF g
  <2>7. k \in 0 .. m
    OBVIOUS
  <2>8. QED BY <2>3, <2>6, <2>7
<1> HIDE DEF W
<1>3. m \in W
  <2>1. m \in 0 .. m
    OBVIOUS
  <2>2. QED BY <1>1, <1>2, <2>1, Upwards
<1>4. QED BY <1>3 DEF W

-----------------------------------------------------------------------------
(* Rows                                                                    *)

OwnIsRange == own = [i \in 1 .. view.columns |-> view.offset + i - 1]

ViewInResult ==
  view.columns > 0 => view.row < rows /\ view.offset + view.columns <= Len(names)

RowInv ==
  /\ names \in Seq(Names)
  /\ rows \in Nat
  /\ view \in Views
  /\ OwnIsRange
  /\ ViewInResult

\* In a row within its result a read by column stays within the result too,
\* so that the two checks never disagree.
LEMMA ReadInView ==
  ASSUME RowInv, NEW c \in Nat, c < view.columns
  PROVE  RowRead(view, c) = Cell(view.row, own[c + 1])
<1>1. c + 1 \in 1 .. view.columns
  BY DEF RowInv, Views
<1>2. own[c + 1] = view.offset + c
  BY <1>1 DEF RowInv, OwnIsRange, Views
<1>3. InResult(view.row, view.offset + c)
  BY DEF RowInv, ViewInResult, InResult, Columns, Views
<1>4. HasColumn(view, c)
  BY DEF HasColumn
<1> QED
  BY <1>2, <1>3, <1>4 DEF RowRead, ResultRead

LEMMA LenOwn == ASSUME RowInv PROVE Len(own) = view.columns
<1>1. own = [i \in 1 .. view.columns |-> view.offset + i - 1] /\ view.columns \in Nat
  BY DEF RowInv, OwnIsRange, Views
<1> DEFINE k == view.columns
           f == [i \in 1 .. k |-> view.offset + i - 1]
<1>2. k \in Nat /\ DOMAIN f = 1 .. k
  BY <1>1
<1>3. f \in [1 .. k -> Int] /\ f \in Seq(Int)
  BY <1>2 DEF RowInv, Views
<1>4. Len(f) = k
  BY <1>2, <1>3
<1> QED
  BY <1>1, <1>4

LEMMA InvInit == RowInit => RowInv
BY DEF RowInit, RowInv, OwnIsRange, ViewInResult, NoRow, Row, Views

LEMMA InvExecute ==
  ASSUME RowInv, NEW n \in 1 .. MaxColumns, NEW ns \in [1 .. n -> Names],
         NEW r \in 0 .. MaxRows, NEW nl, Execute(ns, r, nl)
  PROVE  RowInv'
<1>1. names' \in Seq(Names) /\ rows' \in Nat
  BY DEF Execute
<1>2. view.columns = 0
  BY DEF Execute, RowInv, ViewInResult, Views
<1> QED
  BY <1>1, <1>2 DEF Execute, RowInv, OwnIsRange, ViewInResult

LEMMA InvAt ==
  ASSUME RowInv, NEW r \in 0 .. MaxRows, At(r)
  PROVE  RowInv'
<1>1. Columns \in Nat /\ r \in Nat
  BY DEF RowInv, Columns
<1>2. view' = [row |-> r, offset |-> 0, columns |-> Columns]
  BY DEF At, Row
<1>3. view' \in Views /\ ViewInResult'
  BY <1>1, <1>2 DEF At, Views, ViewInResult, Columns
<1>4. OwnIsRange'
  <2>1. view'.columns = Columns /\ view'.offset = 0
    BY <1>2
  <2>2. own' = [i \in 1 .. Columns |-> i - 1]
    BY DEF At
  <2>3. \A i \in 1 .. Columns : i - 1 = 0 + i - 1
    BY <1>1
  <2> QED
    BY <2>1, <2>2, <2>3 DEF OwnIsRange
<1> QED
  BY <1>3, <1>4 DEF At, RowInv

LEMMA InvSlice ==
  ASSUME RowInv, NEW o \in 0 .. MaxColumns, NEW n \in 0 .. MaxColumns, Slice(o, n)
  PROVE  RowInv'
<1>1. /\ o \in Nat /\ n \in Nat /\ n > 0 /\ o + n <= view.columns
      /\ view \in Views
  BY DEF Slice, CanSlice, RowInv
<1>2. view' = [row |-> view.row, offset |-> view.offset + o, columns |-> n]
  BY DEF Slice, SliceOf, Row
<1>3. view' \in Views
  BY <1>1, <1>2 DEF Views
<1>4. ViewInResult'
  BY <1>1, <1>2 DEF Slice, RowInv, ViewInResult, Views
<1>5. OwnIsRange'
  <2>1. \A i \in 1 .. n : own[o + i] = (view.offset + o) + i - 1
    BY <1>1 DEF RowInv, OwnIsRange, Views
  <2>2. own' = [i \in 1 .. n |-> (view.offset + o) + i - 1]
    BY <2>1 DEF Slice
  <2> QED
    BY <2>2, <1>2 DEF OwnIsRange
<1> QED
  BY <1>3, <1>4, <1>5 DEF Slice, RowInv

LEMMA InvNext == RowInv /\ [RowNext]_rowVars => RowInv'
<1> SUFFICES ASSUME RowInv, [RowNext]_rowVars PROVE RowInv'
  OBVIOUS
<1>1. CASE \E n \in 1 .. MaxColumns :
             \E ns \in [1 .. n -> Names], r \in 0 .. MaxRows, nl \in SUBSET (0 .. n - 1) :
               Execute(ns, r, nl)
  BY <1>1, InvExecute
<1>2. CASE \E r \in 0 .. MaxRows : At(r)
  BY <1>2, InvAt
<1>3. CASE \E o, n \in 0 .. MaxColumns : Slice(o, n)
  BY <1>3, InvSlice
<1>4. CASE UNCHANGED rowVars
  BY <1>4 DEF rowVars, RowInv, OwnIsRange, ViewInResult
<1> QED
  BY <1>1, <1>2, <1>3, <1>4 DEF RowNext

THEOREM RowInvariant == RowSpec => []RowInv
<1>1. RowInv /\ [RowNext]_rowVars => RowInv'
  BY InvNext
<1> QED
  BY InvInit, <1>1, PTL DEF RowSpec

\* However deep the slice, row::get() and table_row::get() read the columns
\* that were selected, and refuse every other.
THEOREM SlicesAlwaysReadOwn == RowSpec => []SliceReadsOwn
<1>1. RowInv => SliceReadsOwn
  <2> SUFFICES ASSUME RowInv, NEW c \in 0 .. MaxColumns
               PROVE  LET expected == IF c < Len(own) THEN Cell(view.row, own[c + 1]) ELSE Failure
                      IN  RowRead(view, c) = expected /\ TableRead(view, c) = expected
    BY DEF SliceReadsOwn
  <2>1. c \in Nat /\ Len(own) = view.columns
    BY LenOwn
  <2>2. CASE c < view.columns
    <3>1. RowRead(view, c) = Cell(view.row, own[c + 1])
      BY <2>1, <2>2, ReadInView
    <3>2. TableRead(view, c) = Cell(view.row, own[c + 1])
      BY <2>1, <2>2 DEF TableRead, HasColumn, RowInv, OwnIsRange, Views
    <3> QED
      BY <2>1, <2>2, <3>1, <3>2
  <2>3. CASE ~(c < view.columns)
    BY <2>1, <2>3 DEF RowRead, TableRead, HasColumn
  <2> QED
    BY <2>2, <2>3
<1> QED
  BY RowInvariant, <1>1, PTL

\* The fields of a row that is not a slice, or is one from its first column
\* on, are its cells: the two meanings of a field's column agree there.
THEOREM FieldsAtOffsetZeroReadOwn == RowSpec => [](view.offset = 0 => FieldsReadOwn)
<1>1. RowInv => (view.offset = 0 => FieldsReadOwn)
  <2> SUFFICES ASSUME RowInv, view.offset = 0 PROVE FieldsReadOwn
    OBVIOUS
  <2>1. view.columns \in Nat /\ DOMAIN own = 1 .. view.columns
    BY DEF RowInv, Views, OwnIsRange
  <2>2. Fields(view) = [i \in 1 .. view.columns |-> i - 1]
    <3>1. FieldIndex(view, view.offset + view.columns) - FieldIndex(view, view.offset) = view.columns
      BY <2>1 DEF FieldIndex
    <3>2. \A i \in 1 .. view.columns : FieldAt(view, i - 1) = i - 1
      BY <2>1 DEF FieldAt
    <3> QED
      BY <3>1, <3>2 DEF Fields
  <2>3. \A i \in 1 .. view.columns : FieldRead(view, Fields(view)[i]) = Cell(view.row, own[i])
    <3> SUFFICES ASSUME NEW i \in 1 .. view.columns
                 PROVE  FieldRead(view, Fields(view)[i]) = Cell(view.row, own[i])
      OBVIOUS
    <3>1. i - 1 \in Nat /\ i - 1 < view.columns /\ (i - 1) + 1 = i
      BY <2>1
    <3>2. RowRead(view, i - 1) = Cell(view.row, own[(i - 1) + 1])
      BY <3>1, ReadInView
    <3> QED
      BY <2>2, <3>1, <3>2 DEF FieldRead
  <2> QED
    BY <2>1, <2>2, <2>3 DEF FieldsReadOwn
<1> QED
  BY RowInvariant, <1>1, PTL

-----------------------------------------------------------------------------
(* Names.  index() looks for the first column of a name, in the result and *)
(* then, if need be, in the row: that there is a first one is the          *)
(* principle of the least number.                                          *)

\* PQfnumber() finds the first column of a name, or none.
LEMMA ResultIndexFacts ==
  ASSUME RowInv, NEW n
  PROVE  \/ ResultIndex(n) = Columns /\ \A c \in 0 .. Columns - 1 : names[c + 1] # n
         \/ /\ ResultIndex(n) \in 0 .. Columns - 1 /\ names[ResultIndex(n) + 1] = n
            /\ \A d \in 0 .. ResultIndex(n) - 1 : names[d + 1] # n
<1> DEFINE S == { c \in 0 .. Columns - 1 : names[c + 1] = n }
<1>1. Columns \in Nat /\ S \subseteq Nat
  BY DEF RowInv, Columns
<1>2. CASE S = {}
  BY <1>2 DEF ResultIndex
<1>3. CASE S # {}
  <2>1. PICK x \in S : \A y \in S : x <= y
    BY <1>1, <1>3, LeastNumber
  <2>2. x \in 0 .. Columns - 1 /\ names[x + 1] = n /\ \A d \in 0 .. x - 1 : names[d + 1] # n
    BY <1>1, <2>1
  <2>3. ResultIndex(n) = CHOOSE c \in 0 .. Columns - 1 :
                           names[c + 1] = n /\ \A d \in 0 .. c - 1 : names[d + 1] # n
    BY <2>2 DEF ResultIndex
  <2> QED
    BY <2>2, <2>3
<1> QED
  BY <1>2, <1>3

\* The name of a row's column is that of the column it stands for.
LEMMA RowNames ==
  ASSUME RowInv, NEW c \in 0 .. view.columns - 1
  PROVE  /\ view.offset + c < Columns /\ RowName(view, c) = names[view.offset + c + 1]
         /\ own[c + 1] = view.offset + c
<1>1. view.columns \in Nat /\ view.offset \in Nat /\ c \in Nat /\ c + 1 \in 1 .. view.columns
  BY DEF RowInv, Views
<1>2. own[c + 1] = view.offset + c
  BY <1>1 DEF RowInv, OwnIsRange
<1>3. view.offset + c < Columns
  BY <1>1 DEF RowInv, ViewInResult, Columns
<1> QED
  BY <1>2, <1>3 DEF RowName, ResultName

\* A name means the first column of that name in the row, however deep the
\* slice, and wherever else in the result there is one of that name.
THEOREM NamesAlwaysFindOwn == RowSpec => []NamesFindOwn
<1>1. RowInv => NamesFindOwn
  <2> SUFFICES ASSUME RowInv, NEW n \in Names
               PROVE  LET found == { c \in 0 .. Len(own) - 1 : names[own[c + 1] + 1] = n }
                      IN  IF found = {}
                            THEN RowIndexOf(view, n) = view.columns
                            ELSE /\ RowIndexOf(view, n) \in found
                                 /\ \A c \in found : RowIndexOf(view, n) <= c
    BY DEF NamesFindOwn
  <2> DEFINE found == { c \in 0 .. view.columns - 1 : names[view.offset + c + 1] = n }
             I == ResultIndex(n)
             R == RowIndexOf(view, n)
  <2>1. { c \in 0 .. Len(own) - 1 : names[own[c + 1] + 1] = n } = found
    BY LenOwn, RowNames
  <2>2. view.columns \in Nat /\ view.offset \in Nat /\ Columns \in Nat
    BY DEF RowInv, Views, Columns
  <2>3. \/ I = Columns /\ \A c \in 0 .. Columns - 1 : names[c + 1] # n
        \/ /\ I \in 0 .. Columns - 1 /\ names[I + 1] = n
           /\ \A d \in 0 .. I - 1 : names[d + 1] # n
    BY ResultIndexFacts
  <2>4. I = Columns => R = view.columns
    BY DEF RowIndexOf
  <2>5. I # Columns /\ I >= view.offset =>
          R = IF I - view.offset < view.columns THEN I - view.offset ELSE view.columns
    BY DEF RowIndexOf
  <2>6. I # Columns =>
          \A p \in 0 .. view.columns - 1 :
            RowName(view, p) = ResultName(I) <=> names[view.offset + p + 1] = n
    <3> SUFFICES ASSUME I # Columns, NEW p \in 0 .. view.columns - 1
                 PROVE  RowName(view, p) = ResultName(I) <=> names[view.offset + p + 1] = n
      OBVIOUS
    <3>1. I < Columns /\ names[I + 1] = n
      BY <2>2, <2>3
    <3>2. ResultName(I) = n
      BY <3>1 DEF ResultName
    <3> QED
      BY <3>2, RowNames
  <2>7. I # Columns /\ ~(I >= view.offset) =>
          R = IF found # {}
                THEN CHOOSE p \in 0 .. view.columns - 1 :
                       /\ RowName(view, p) = ResultName(I)
                       /\ \A q \in 0 .. p - 1 : ~(RowName(view, q) = ResultName(I))
                ELSE view.columns
    BY <2>6 DEF RowIndexOf
  <2>8. CASE found = {}
    <3>1. CASE I # Columns /\ I >= view.offset
      <4>1. I \in Nat /\ names[view.offset + (I - view.offset) + 1] = n
        BY <2>2, <2>3, <3>1
      <4>2. ~(I - view.offset < view.columns)
        BY <2>2, <2>8, <3>1, <4>1
      <4> QED
        BY <2>1, <2>5, <2>8, <3>1, <4>2
    <3> QED
      BY <2>1, <2>4, <2>7, <2>8, <3>1
  <2>9. CASE found # {}
    <3>1. PICK x \in found : \A y \in found : x <= y
      <4>1. found \subseteq Nat
        BY <2>2
      <4> HIDE DEF found
      <4> QED
        BY <2>9, <4>1, LeastNumber
    <3>2. x \in 0 .. view.columns - 1 /\ names[view.offset + x + 1] = n /\ view.offset + x < Columns
      BY <3>1, RowNames
    <3>3. I # Columns /\ I \in Nat /\ I <= view.offset + x /\ names[I + 1] = n
      BY <2>2, <2>3, <3>2
    <3>4. CASE I >= view.offset
      <4>1. I - view.offset \in 0 .. view.columns - 1 /\ names[view.offset + (I - view.offset) + 1] = n
        BY <2>2, <3>2, <3>3, <3>4
      <4>2. I - view.offset \in found
        BY <4>1
      <4>3. R = x
        BY <2>2, <2>5, <3>1, <3>2, <3>3, <3>4, <4>1, <4>2
      <4> QED
        BY <2>1, <2>9, <3>1, <4>3
    <3>5. CASE ~(I >= view.offset)
      <4>1. R \in 0 .. view.columns - 1 /\ RowName(view, R) = ResultName(I)
              /\ \A q \in 0 .. R - 1 : ~(RowName(view, q) = ResultName(I))
        <5>1. RowName(view, x) = ResultName(I)
          BY <2>6, <3>2, <3>3
        <5>2. \A q \in 0 .. x - 1 : ~(RowName(view, q) = ResultName(I))
          <6> SUFFICES ASSUME NEW q \in 0 .. x - 1, RowName(view, q) = ResultName(I) PROVE FALSE
            OBVIOUS
          <6>1. q \in 0 .. view.columns - 1 /\ q < x
            BY <2>2, <3>2
          <6>2. q \in found
            BY <2>6, <3>3, <6>1
          <6> QED
            BY <2>2, <3>1, <3>2, <6>1, <6>2
        <5> QED
          BY <2>7, <2>9, <3>2, <3>3, <3>5, <5>1, <5>2
      <4>2. R \in found
        BY <2>6, <3>3, <4>1
      <4>3. \A c \in found : R <= c
        <5> SUFFICES ASSUME NEW c \in found, ~(R <= c) PROVE FALSE
          OBVIOUS
        <5>1. c \in 0 .. R - 1 /\ c \in 0 .. view.columns - 1
          BY <2>2, <4>1
        <5> QED
          BY <2>6, <3>3, <4>1, <5>1
      <4> QED
        BY <2>1, <2>9, <4>2, <4>3
    <3> QED
      BY <3>4, <3>5
  <2> QED
    BY <2>8, <2>9
<1> QED
  BY RowInvariant, <1>1, PTL

-----------------------------------------------------------------------------
(* The columns of an argument: internal::gen finds member and column of    *)
(* each in the sums that exclusive_scan makes.                             *)

ColumnLists == Seq(Nat \ {0}) \ { << >> }

LEMMA SumsFacts ==
  ASSUME NEW ns \in ColumnLists
  PROVE  /\ Len(ns) \in Nat \ {0} /\ \A j \in 1 .. Len(ns) : ns[j] \in Nat \ {0}
         /\ Sums(ns) \in [0 .. Len(ns) -> Nat] /\ Sums(ns)[0] = 0
         /\ \A j \in 1 .. Len(ns) : Sums(ns)[j] = Sums(ns)[j - 1] + ns[j]
<1> DEFINE m == Len(ns)
           step == [x \in (1 .. m) \X Nat |-> x[2] + ns[x[1]]]
           Sum(g) == [j \in 0 .. m |-> IF j = 0 THEN 0 ELSE g[j - 1] + ns[j]]
           h == CHOOSE g : g = Sum(g)
<1>1. m \in Nat \ {0} /\ \A j \in 1 .. m : ns[j] \in Nat \ {0}
  BY DEF ColumnLists
<1>2. Sums(ns) = h
  BY DEF Sums
<1> HIDE DEF m
<1>3. step \in [(1 .. m) \X Nat -> Nat]
  BY <1>1
<1>4. PICK f \in [0 .. m -> Nat] : Follows(f, m, 0, step)
  <2> HIDE DEF step
  <2>1. QED BY <1>1, <1>3, Recursion
<1>5. f = Sum(f)
  <2>1. ASSUME NEW j \in 0 .. m PROVE f[j] = Sum(f)[j]
    <3>1. CASE j = 0
      BY <1>4, <3>1 DEF Follows
    <3>2. CASE j # 0
      <4>1. j \in 1 .. m /\ j - 1 \in 0 .. m
        BY <1>1, <3>2
      <4>2. f[j - 1] \in Nat /\ << j, f[j - 1] >> \in (1 .. m) \X Nat
        BY <1>4, <4>1
      <4>3. f[j] = step[<< j, f[j - 1] >>]
        BY <1>4, <4>1 DEF Follows
      <4>4. f[j] = f[j - 1] + ns[j]
        BY <4>2, <4>3
      <4>5. QED BY <3>2, <4>4
    <3>3. QED BY <3>1, <3>2
  <2> HIDE DEF step
  <2>2. QED BY <1>4, <2>1
<1>6. h = Sum(h)
  <2> HIDE DEF Sum
  <2>1. QED BY <1>5
<1> HIDE DEF h, step
<1>7. h[0] = 0 /\ \A j \in 1 .. m : h[j] = h[j - 1] + ns[j]
  <2>1. 0 \in 0 .. m /\ \A j \in 1 .. m : j \in 0 .. m /\ j # 0
    BY <1>1
  <2>2. \A j \in 0 .. m : h[j] = Sum(h)[j]
    BY <1>6
  <2>3. QED BY <2>1, <2>2
<1>8. h \in [0 .. m -> Nat]
  <2> DEFINE W == { j \in 0 .. m : h[j] \in Nat }
  <2> HIDE DEF Sum
  <2>1. 0 \in W
    BY <1>1, <1>7
  <2>2. ASSUME NEW j \in 1 .. m, j - 1 \in W PROVE j \in W
    <3>1. j \in 0 .. m /\ h[j - 1] \in Nat /\ ns[j] \in Nat /\ h[j] = h[j - 1] + ns[j]
      BY <1>1, <1>7, <2>2
    <3> HIDE DEF h
    <3>2. h[j] \in Nat
      BY <3>1
    <3>3. QED BY <3>1, <3>2
  <2> HIDE DEF W
  <2>3. \A j \in 0 .. m : j \in W
    BY <1>1, <2>1, <2>2, Upwards
  <2>4. \A j \in 0 .. m : h[j] \in Nat
    BY <2>3 DEF W
  <2>5. h = [j \in 0 .. m |-> h[j]]
    BY <1>6 DEF Sum
  <2>6. QED BY <2>4, <2>5
<1>9. QED BY <1>1, <1>2, <1>7, <1>8 DEF m

LEMMA SumsGrow ==
  ASSUME NEW ns \in ColumnLists, NEW x \in 0 .. Len(ns), NEW y \in 0 .. Len(ns), x <= y
  PROVE  Sums(ns)[x] <= Sums(ns)[y]
<1> DEFINE S == Sums(ns)
           W == { z \in 0 .. Len(ns) : x <= z => S[x] <= S[z] }
<1>1. /\ Len(ns) \in Nat /\ S \in [0 .. Len(ns) -> Nat]
      /\ \A j \in 1 .. Len(ns) : S[j] = S[j - 1] + ns[j] /\ ns[j] \in Nat
  BY SumsFacts
<1> HIDE DEF S
<1>2. 0 \in W
  BY <1>1
<1>3. ASSUME NEW z \in 1 .. Len(ns), z - 1 \in W PROVE z \in W
  <2>1. z \in 0 .. Len(ns) /\ z - 1 \in 0 .. Len(ns) /\ S[z] \in Nat /\ S[z - 1] \in Nat /\ S[x] \in Nat
    <3>1. z \in 0 .. Len(ns) /\ z - 1 \in 0 .. Len(ns)
      BY <1>1
    <3>2. QED BY <1>1, <3>1
  <2>2. S[z - 1] <= S[z]
    BY <1>1, <2>1
  <2>3. CASE x <= z - 1
    BY <1>3, <2>1, <2>2, <2>3
  <2>4. CASE ~(x <= z - 1)
    <3>1. x <= z => x = z
      BY <2>4
    <3>2. QED BY <2>1, <3>1
  <2>5. QED BY <2>3, <2>4
<1> HIDE DEF W
<1>4. y \in W
  BY <1>1, <1>2, <1>3, Upwards
<1>5. QED BY <1>4 DEF W, S

\* The column c of member j is found.
LEMMA GenFacts ==
  ASSUME NEW ns \in ColumnLists, NEW j \in 1 .. Len(ns), NEW c \in 0 .. ns[j] - 1
  PROVE  /\ Sums(ns)[j - 1] \in Nat
         /\ Outer(ns, Sums(ns)[j - 1] + c) = j - 1 /\ Inner(ns, Sums(ns)[j - 1] + c) = c
<1> DEFINE S == Sums(ns)
           i == S[j - 1] + c
<1>1. /\ Len(ns) \in Nat /\ S \in [0 .. Len(ns) -> Nat]
      /\ \A y \in 1 .. Len(ns) : S[y] = S[y - 1] + ns[y] /\ ns[y] \in Nat
      /\ DOMAIN ns = 1 .. Len(ns)
  BY SumsFacts DEF ColumnLists
<1>2. \A x, y \in 0 .. Len(ns) : x <= y => S[x] <= S[y]
  BY SumsGrow
<1> HIDE DEF S
<1>3. /\ j - 1 \in 0 .. Len(ns) /\ j \in 0 .. Len(ns) /\ S[j - 1] \in Nat /\ S[j] \in Nat
      /\ S[j] = S[j - 1] + ns[j] /\ c \in Nat /\ c < ns[j] /\ ns[j] \in Nat
  <2>1. j - 1 \in 0 .. Len(ns) /\ j \in 0 .. Len(ns)
    BY <1>1
  <2>2. ns[j] \in Nat /\ S[j] = S[j - 1] + ns[j] /\ S[j - 1] \in Nat /\ S[j] \in Nat
    BY <1>1, <2>1
  <2>3. c \in Nat /\ c < ns[j]
    BY <2>2
  <2>4. QED BY <2>1, <2>2, <2>3
<1>4. S[j - 1] <= i /\ i < S[j] /\ i \in Nat
  BY <1>3
<1> HIDE DEF i
<1>5. \A y \in 1 .. Len(ns) : y - 1 \in 0 .. Len(ns) /\ S[y - 1] \in Nat
  <2>1. \A y \in 1 .. Len(ns) : y - 1 \in 0 .. Len(ns)
    BY <1>1
  <2>2. QED BY <1>1, <2>1
<1>6. \A y \in 1 .. Len(ns) : S[y - 1] <= i <=> y <= j
  <2>1. ASSUME NEW y \in 1 .. Len(ns), y <= j PROVE S[y - 1] <= i
    <3>1. y - 1 <= j - 1
      BY <2>1
    <3>2. S[y - 1] <= S[j - 1]
      BY <1>2, <1>3, <1>5, <3>1
    <3>3. QED BY <1>3, <1>4, <1>5, <3>2
  <2>2. ASSUME NEW y \in 1 .. Len(ns), ~(y <= j) PROVE ~(S[y - 1] <= i)
    <3>1. j <= y - 1
      BY <2>2
    <3>2. S[j] <= S[y - 1]
      BY <1>2, <1>3, <1>5, <3>1
    <3>3. QED BY <1>3, <1>4, <1>5, <3>2
  <2>3. QED BY <2>1, <2>2
<1>7. \A y \in 1 .. Len(ns) : Scan(ns)[y] = S[y - 1]
  BY <1>1 DEF Scan, S
<1>8. { y \in DOMAIN ns : Scan(ns)[y] <= i } = 1 .. j
  BY <1>1, <1>6, <1>7
<1>9. Cardinality(1 .. j) = j
  <2>1. 1 \in Int /\ j \in Int /\ ~(1 > j)
    OBVIOUS
  <2>2. Cardinality(1 .. j) = j - 1 + 1
    BY <2>1, FS_Interval
  <2>3. QED BY <2>2
<1>10. Outer(ns, i) = j - 1
  BY <1>8, <1>9 DEF Outer
<1>11. Inner(ns, i) = c
  <2>1. Scan(ns)[(j - 1) + 1] = S[j - 1]
    BY <1>7
  <2>2. Inner(ns, i) = i - S[j - 1]
    BY <1>10, <2>1 DEF Inner
  <2>3. QED BY <1>3, <2>2 DEF i
<1>12. QED BY <1>3, <1>10, <1>11 DEF i, S
-----------------------------------------------------------------------------
(* What fill() writes are the columns of every member in turn.             *)

LEMMA ConcatFacts ==
  ASSUME NEW S, NEW s \in Seq(S), NEW t \in Seq(S)
  PROVE  /\ s \o t \in Seq(S) /\ Len(s \o t) = Len(s) + Len(t)
         /\ Len(s) \in Nat /\ Len(t) \in Nat
         /\ \A i \in 1 .. Len(s) : (s \o t)[i] = s[i]
         /\ \A i \in 1 .. Len(t) : (s \o t)[Len(s) + i] = t[i]
OBVIOUS

\* FlattenSeq puts one sequence behind the other.
LEMMA FlattenFacts ==
  ASSUME NEW S, NEW ss \in Seq(Seq(S)), ss # << >>
  PROVE  \E f \in [1 .. Len(ss) -> Seq(S)] :
           /\ f[1] = ss[1] /\ FlattenSeq(ss) = f[Len(ss)]
           /\ \A n \in 2 .. Len(ss) : f[n] = f[n - 1] \o ss[n]
<1> DEFINE m == Len(ss)
           Flat(g) == [n \in 1 .. m |-> IF n = 1 THEN ss[n] ELSE g[n - 1] \o ss[n]]
           h == CHOOSE g : g = Flat(g)
           step == [x \in (1 .. m) \X Seq(S) |-> x[2] \o ss[x[1]]]
<1>1. m \in Nat \ {0} /\ \A n \in 1 .. m : ss[n] \in Seq(S)
  OBVIOUS
<1>2. FlattenSeq(ss) = h[m]
  BY <1>1 DEF FlattenSeq
<1> HIDE DEF m
<1>3. step \in [(1 .. m) \X Seq(S) -> Seq(S)]
  <2>1. ASSUME NEW x \in (1 .. m) \X Seq(S) PROVE x[2] \o ss[x[1]] \in Seq(S)
    <3>1. x[2] \in Seq(S) /\ ss[x[1]] \in Seq(S)
      BY <1>1
    <3>2. QED BY <3>1, ConcatFacts
  <2>2. QED BY <2>1
<1>4. PICK f \in [0 .. m -> Seq(S)] : Follows(f, m, << >>, step)
  <2> DEFINE T == Seq(S)
             none == << >>
  <2>1. none \in T /\ step \in [(1 .. m) \X T -> T] /\ m \in Nat
    BY <1>1, <1>3
  <2> HIDE DEF step, T, none
  <2>2. \E f \in [0 .. m -> T] : Follows(f, m, none, step)
    BY <2>1, Recursion
  <2>3. QED BY <2>2 DEF T, none
<1> DEFINE e == [n \in 1 .. m |-> f[n]]
<1>5. e = Flat(e)
  <2>1. ASSUME NEW n \in 1 .. m PROVE f[n] = Flat(e)[n]
    <3>1. n - 1 \in 0 .. m
      BY <1>1
    <3>2. f[n - 1] \in Seq(S) /\ << n, f[n - 1] >> \in (1 .. m) \X Seq(S)
      BY <1>4, <3>1
    <3>3. f[n] = step[<< n, f[n - 1] >>]
      BY <1>4 DEF Follows
    <3>4. f[n] = f[n - 1] \o ss[n]
      BY <3>2, <3>3
    <3>5. CASE n = 1
      <4>1. f[n - 1] = << >>
        BY <1>4, <3>5 DEF Follows
      <4>2. << >> \o ss[n] = ss[n]
        BY <1>1
      <4>3. QED BY <3>4, <3>5, <4>1, <4>2
    <3>6. CASE n # 1
      <4>1. n - 1 \in 1 .. m
        BY <1>1, <3>6
      <4>2. QED BY <3>4, <3>6, <4>1
    <3>7. QED BY <3>5, <3>6
  <2>2. \A n \in 1 .. m : e[n] = Flat(e)[n]
    BY <2>1
  <2> HIDE DEF step
  <2>3. QED BY <2>2
<1>6. h = Flat(h)
  <2> HIDE DEF Flat
  <2>1. QED BY <1>5
<1> HIDE DEF h, step, e
<1>7. h[1] = ss[1] /\ \A n \in 2 .. m : h[n] = h[n - 1] \o ss[n]
  <2>1. 1 \in 1 .. m /\ \A n \in 2 .. m : n \in 1 .. m /\ n # 1
    BY <1>1
  <2>2. \A n \in 1 .. m : h[n] = Flat(h)[n]
    BY <1>6
  <2>3. QED BY <2>1, <2>2
<1>8. h \in [1 .. m -> Seq(S)]
  <2> DEFINE W == { n \in 0 .. m : n = 0 \/ h[n] \in Seq(S) }
  <2> HIDE DEF Flat
  <2>1. 0 \in W
    BY <1>1
  <2>2. ASSUME NEW n \in 1 .. m, n - 1 \in W PROVE n \in W
    <3>1. n \in 0 .. m
      BY <1>1
    <3>2. CASE n = 1
      BY <1>1, <1>7, <3>1, <3>2
    <3>3. CASE n # 1
      <4>1. n \in 2 .. m /\ n - 1 # 0
        BY <1>1, <3>3
      <4>2. h[n - 1] \in Seq(S) /\ ss[n] \in Seq(S) /\ h[n] = h[n - 1] \o ss[n]
        BY <1>1, <1>7, <2>2, <4>1
      <4>3. h[n] \in Seq(S)
        BY <4>2, ConcatFacts
      <4>4. QED BY <3>1, <4>3
    <3>4. QED BY <3>2, <3>3
  <2> HIDE DEF W
  <2>3. \A n \in 0 .. m : n \in W
    BY <1>1, <2>1, <2>2, Upwards
  <2>4. \A n \in 1 .. m : n \in 0 .. m /\ n # 0
    BY <1>1
  <2>5. \A n \in 1 .. m : h[n] \in Seq(S)
    BY <2>3, <2>4 DEF W
  <2>6. h = [n \in 1 .. m |-> h[n]]
    BY <1>6 DEF Flat
  <2>7. QED BY <2>5, <2>6
<1>9. QED BY <1>2, <1>7, <1>8 DEF m
LEMMA LeavesFacts ==
  ASSUME NEW a, a.columns \in ColumnLists, NEW k \in Nat
  PROVE  /\ Total(a.columns) \in Nat \ {0}
         /\ Leaves(a, k) = [i \in 1 .. Total(a.columns) |->
                              << k, Outer(a.columns, i - 1), Inner(a.columns, i - 1) >>]
<1> DEFINE ns == a.columns
           m == Len(ns)
           S == Sums(ns)
           L == Nat \X Nat \X Nat
           ss == [j \in DOMAIN ns |-> [c \in 1 .. ns[j] |-> << k, j - 1, c - 1 >>]]
           leaf(i) == << k, Outer(ns, i - 1), Inner(ns, i - 1) >>
<1>1. /\ m \in Nat \ {0} /\ S \in [0 .. m -> Nat] /\ S[0] = 0 /\ DOMAIN ns = 1 .. m
      /\ \A j \in 1 .. m : ns[j] \in Nat \ {0} /\ S[j] = S[j - 1] + ns[j]
  BY SumsFacts DEF ColumnLists
<1>2. \A j \in 1 .. m : \A c \in 0 .. ns[j] - 1 :
        Outer(ns, S[j - 1] + c) = j - 1 /\ Inner(ns, S[j - 1] + c) = c
  BY GenFacts
<1>3. \A j \in 1 .. m : S[j - 1] \in Nat /\ S[j] \in Nat
  <2>1. \A j \in 1 .. m : j - 1 \in 0 .. m /\ j \in 0 .. m
    BY <1>1
  <2>2. QED BY <1>1, <2>1
<1>4. Total(ns) = S[m] /\ S[m] \in Nat \ {0}
  <2>1. Total(ns) = S[m]
    BY DEF Total
  <2>2. m \in 1 .. m /\ ns[m] \in Nat \ {0}
    BY <1>1
  <2>3. S[m] = S[m - 1] + ns[m] /\ S[m - 1] \in Nat /\ S[m] \in Nat
    BY <1>1, <1>3, <2>2
  <2>4. QED BY <2>1, <2>2, <2>3
<1>5. Leaves(a, k) = FlattenSeq(ss)
  BY DEF Leaves
<1> HIDE DEF m, S, ns
<1>6. ASSUME NEW j \in 1 .. m
      PROVE  /\ ss[j] \in Seq(L) /\ Len(ss[j]) = ns[j]
             /\ \A c \in 1 .. ns[j] : ss[j][c] = << k, j - 1, c - 1 >>
  <2> DEFINE n == ns[j]
             t == [c \in 1 .. n |-> << k, j - 1, c - 1 >>]
  <2>1. ss[j] = t /\ n \in Nat
    BY <1>1
  <2>2. j - 1 \in Nat
    BY <1>1
  <2> HIDE DEF ss, n
  <2>3. \A c \in 1 .. n : << k, j - 1, c - 1 >> \in L
    BY <2>1, <2>2
  <2>4. t \in [1 .. n -> L]
    BY <2>3
  <2>5. t \in Seq(L) /\ Len(t) = n
    BY <2>1, <2>4
  <2>6. \A c \in 1 .. n : t[c] = << k, j - 1, c - 1 >>
    OBVIOUS
  <2>7. QED BY <2>1, <2>5, <2>6 DEF n
<1>7. ss \in Seq(Seq(L)) /\ Len(ss) = m /\ ss # << >>
  <2>1. DOMAIN ss = 1 .. m /\ ss = [j \in 1 .. m |-> ss[j]]
    BY <1>1
  <2>2. \A j \in 1 .. m : ss[j] \in Seq(L)
    BY <1>6
  <2> HIDE DEF ss, L
  <2>3. ss \in [1 .. m -> Seq(L)]
    BY <2>1, <2>2
  <2>4. QED BY <1>1, <2>3
<1> HIDE DEF ss
<1>8. PICK f \in [1 .. m -> Seq(L)] :
        /\ f[1] = ss[1] /\ FlattenSeq(ss) = f[m]
        /\ \A n \in 2 .. m : f[n] = f[n - 1] \o ss[n]
  <2> HIDE DEF L
  <2>1. QED BY <1>7, FlattenFacts
\* What the members up to the j-th have
<1> DEFINE Got(j) == Len(f[j]) = S[j] /\ \A i \in 1 .. S[j] : f[j][i] = leaf(i)
           W == { j \in 0 .. m : j = 0 \/ Got(j) }
<1>9. ASSUME NEW j \in 1 .. m, NEW c \in 1 .. ns[j]
      PROVE  ss[j][c] = leaf(S[j - 1] + c)
  <2>1. c - 1 \in 0 .. ns[j] - 1 /\ (S[j - 1] + c) - 1 = S[j - 1] + (c - 1)
    <3>1. ns[j] \in Nat /\ S[j - 1] \in Nat
      BY <1>1, <1>3
    <3>2. QED BY <3>1
  <2>2. Outer(ns, S[j - 1] + (c - 1)) = j - 1 /\ Inner(ns, S[j - 1] + (c - 1)) = c - 1
    BY <1>2, <2>1
  <2>3. ss[j][c] = << k, j - 1, c - 1 >>
    BY <1>6
  <2>4. QED BY <2>1, <2>2, <2>3
<1> HIDE DEF leaf
<1>10. 0 \in W
  BY <1>1
<1>11. ASSUME NEW j \in 1 .. m, j - 1 \in W PROVE j \in W
  <2>1. j \in 0 .. m
    BY <1>1
  <2>2. CASE j = 1
    <3>1. f[j] = ss[j] /\ S[j] = ns[j] /\ S[j - 1] = 0 /\ ns[j] \in Nat
      BY <1>1, <1>8, <2>2
    <3>2. Len(f[j]) = S[j]
      BY <1>6, <3>1
    <3>3. ASSUME NEW i \in 1 .. S[j] PROVE f[j][i] = leaf(i)
      <4>1. i \in 1 .. ns[j] /\ S[j - 1] + i = i
        BY <3>1
      <4>2. QED BY <1>9, <3>1, <4>1
    <3>4. QED BY <2>1, <3>2, <3>3
  <2>3. CASE j # 1
    <3>1. j \in 2 .. m /\ j - 1 \in 1 .. m /\ j - 1 # 0
      BY <1>1, <2>3
    <3>2. /\ f[j] = f[j - 1] \o ss[j] /\ f[j - 1] \in Seq(L) /\ ss[j] \in Seq(L)
          /\ Len(ss[j]) = ns[j]
      BY <1>6, <1>8, <3>1
    <3>3. Got(j - 1)
      BY <1>11, <3>1
    <3> DEFINE s == f[j - 1]
               t == ss[j]
    <3>4. s \in Seq(L) /\ t \in Seq(L) /\ f[j] = s \o t /\ Len(s) = S[j - 1] /\ Len(t) = ns[j]
      BY <3>2, <3>3
    <3> HIDE DEF s, t
    <3>5. /\ Len(s \o t) = Len(s) + Len(t)
          /\ \A i \in 1 .. Len(s) : (s \o t)[i] = s[i]
          /\ \A i \in 1 .. Len(t) : (s \o t)[Len(s) + i] = t[i]
      <4> HIDE DEF L
      <4>1. s \in Seq(L) /\ t \in Seq(L)
        BY <3>4
      <4>2. Len(s \o t) = Len(s) + Len(t)
        BY <4>1
      <4>3. ASSUME NEW i \in 1 .. Len(s) PROVE (s \o t)[i] = s[i]
        BY <4>1
      <4>4. ASSUME NEW i \in 1 .. Len(t) PROVE (s \o t)[Len(s) + i] = t[i]
        BY <4>1
      <4>5. QED BY <4>2, <4>3, <4>4
    <3>6. Len(f[j]) = S[j]
      BY <1>1, <3>4, <3>5
    <3>7. ASSUME NEW i \in 1 .. S[j] PROVE f[j][i] = leaf(i)
      <4>1. S[j] = S[j - 1] + ns[j] /\ S[j - 1] \in Nat /\ ns[j] \in Nat
        BY <1>1, <1>3
      <4>2. CASE i <= S[j - 1]
        <5>1. i \in 1 .. S[j - 1]
          BY <4>1, <4>2
        <5>2. s[i] = leaf(i)
          BY <3>3, <5>1 DEF s
        <5>3. QED BY <3>4, <3>5, <5>1, <5>2
      <4>3. CASE ~(i <= S[j - 1])
        <5> DEFINE c == i - S[j - 1]
        <5>1. c \in 1 .. ns[j] /\ S[j - 1] + c = i
          BY <4>1, <4>3
        <5> HIDE DEF c
        <5>2. t[c] = leaf(i)
          BY <1>9, <5>1 DEF t
        <5>3. QED BY <3>4, <3>5, <5>1, <5>2
      <4>4. QED BY <4>2, <4>3
    <3>8. QED BY <2>1, <3>6, <3>7
  <2>4. QED BY <2>2, <2>3
<1> HIDE DEF W
<1>12. m \in 0 .. m /\ m # 0 /\ m \in 1 .. m
  BY <1>1
<1>13. Got(m)
  <2>1. m \in W
    BY <1>1, <1>10, <1>11, <1>12, Upwards
  <2>2. QED BY <1>12, <2>1 DEF W
<1>14. f[m] = [i \in 1 .. S[m] |-> leaf(i)]
  <2>1. f[m] \in Seq(L)
    BY <1>8, <1>12
  <2> DEFINE g == f[m]
             n == S[m]
  <2>2. g \in Seq(L) /\ Len(g) = n /\ \A i \in 1 .. n : g[i] = leaf(i)
    BY <1>13, <2>1
  <2> HIDE DEF g, n, L
  <2>3. g = [i \in 1 .. n |-> g[i]]
    BY <2>2
  <2>4. QED BY <2>2, <2>3 DEF g, n
<1>15. QED BY <1>4, <1>5, <1>8, <1>14 DEF leaf, ns
-----------------------------------------------------------------------------
(* A parameter object, and what bind() makes of it.                        *)

Column(v) == << v.argument, v.member, v.column >>
ColumnsOf(vs) == [i \in DOMAIN vs |-> Column(vs[i])]

Entry(v) ==
  v = [at |-> v.at, from |-> v.from, argument |-> v.argument, member |-> v.member,
       column |-> v.column, own |-> v.own]

\* A parameter object: its arrays have one entry for each column bound, it has
\* no more objects than columns, and what it owns leads to its objects, or is
\* said to be self-contained.
ParamOK(p) ==
  /\ p = [live |-> p.live, objects |-> p.objects, values |-> p.values, bound |-> p.bound]
  /\ p.live \in BOOLEAN
  /\ p.objects \in Seq(Nat) /\ \E V : p.values \in Seq(V)
  /\ p.bound = ColumnsOf(p.values)
  /\ Len(p.objects) <= Len(p.values) /\ Len(p.values) <= Capacity
  /\ \A i \in 1 .. Len(p.values) : Entry(p.values[i])
  /\ \A i \in 1 .. Len(p.values) : p.values[i].own =>
       \/ p.values[i].at = Program \/ SaidContained(p.values[i])
       \/ \E j \in 1 .. Len(p.objects) : p.objects[j] = p.values[i].at
  /\ ~p.live => p.objects = << >>

\* Whatever is put behind the values, and its columns behind theirs
LEMMA ColumnsConcat ==
  ASSUME NEW V, NEW s \in Seq(V), NEW t \in Seq(V)
  PROVE  ColumnsOf(s) \o ColumnsOf(t) = ColumnsOf(s \o t)
<1> DEFINE b == ColumnsOf(s)
           c == ColumnsOf(t)
           C == { Column(v) : v \in V }
           u == s \o t
           d == b \o c
           n == Len(s)
           m == Len(t)
<1>1. /\ n \in Nat /\ m \in Nat /\ u \in Seq(V) /\ Len(u) = n + m
      /\ \A i \in 1 .. n : u[i] = s[i] /\ s[i] \in V
      /\ \A i \in 1 .. m : u[n + i] = t[i] /\ t[i] \in V
  <2>1. \A i \in 1 .. n : s[i] \in V
    OBVIOUS
  <2>2. \A i \in 1 .. m : t[i] \in V
    OBVIOUS
  <2>3. QED BY <2>1, <2>2, ConcatFacts
<1>2. b \in Seq(C) /\ Len(b) = n /\ \A i \in 1 .. n : b[i] = Column(s[i])
  <2>1. DOMAIN s = 1 .. n
    OBVIOUS
  <2> HIDE DEF n
  <2>2. b \in [1 .. n -> C] /\ \A i \in 1 .. n : b[i] = Column(s[i])
    BY <1>1, <2>1 DEF ColumnsOf
  <2> HIDE DEF C, b
  <2>3. b \in Seq(C) /\ Len(b) = n
    BY <1>1, <2>2
  <2>4. QED BY <2>2, <2>3
<1>3. c \in Seq(C) /\ Len(c) = m /\ \A i \in 1 .. m : c[i] = Column(t[i])
  <2>1. DOMAIN t = 1 .. m
    OBVIOUS
  <2> HIDE DEF m
  <2>2. c \in [1 .. m -> C] /\ \A i \in 1 .. m : c[i] = Column(t[i])
    BY <1>1, <2>1 DEF ColumnsOf
  <2> HIDE DEF C, c
  <2>3. c \in Seq(C) /\ Len(c) = m
    BY <1>1, <2>2
  <2>4. QED BY <2>2, <2>3
<1> HIDE DEF C, b, c
<1>4. /\ d \in Seq(C) /\ Len(d) = n + m
      /\ \A i \in 1 .. n : d[i] = b[i]
      /\ \A i \in 1 .. m : d[n + i] = c[i]
  <2>1. d \in Seq(C) /\ Len(d) = Len(b) + Len(c)
    <3>1. b \in Seq(C) /\ c \in Seq(C)
      BY <1>2, <1>3
    <3>2. QED BY <3>1, ConcatFacts
  <2>2. ASSUME NEW i \in 1 .. Len(b) PROVE d[i] = b[i]
    BY <1>2, <1>3
  <2>3. ASSUME NEW i \in 1 .. Len(c) PROVE d[Len(b) + i] = c[i]
    BY <1>2, <1>3
  <2>4. QED BY <1>2, <1>3, <2>1, <2>2, <2>3
<1> HIDE DEF n, m, u, d
<1>5. ASSUME NEW i \in 1 .. n + m PROVE d[i] = Column(u[i])
  <2>1. CASE i <= n
    <3>1. i \in 1 .. n
      BY <1>1, <2>1
    <3>2. QED BY <1>1, <1>2, <1>4, <3>1
  <2>2. CASE ~(i <= n)
    <3> DEFINE x == i - n
    <3>1. x \in 1 .. m /\ n + x = i
      BY <1>1, <2>2
    <3> HIDE DEF x
    <3>2. d[n + x] = c[x] /\ c[x] = Column(t[x]) /\ u[n + x] = t[x]
      BY <1>1, <1>3, <1>4, <3>1
    <3>3. QED BY <3>1, <3>2
  <2>3. QED BY <2>1, <2>2
<1>6. d = [i \in 1 .. n + m |-> d[i]] /\ DOMAIN u = 1 .. n + m
  BY <1>1, <1>4
<1>7. QED BY <1>5, <1>6 DEF u, d, b, c, ColumnsOf

\* Every column is of one of the members.
LEMMA OuterFacts ==
  ASSUME NEW ns \in ColumnLists, NEW i \in Nat
  PROVE  Outer(ns, i) + 1 \in DOMAIN ns
<1> DEFINE D == { j \in DOMAIN ns : Scan(ns)[j] <= i }
<1>1. /\ Len(ns) \in Nat \ {0} /\ DOMAIN ns = 1 .. Len(ns) /\ Sums(ns)[0] = 0
  BY SumsFacts DEF ColumnLists
<1>2. Cardinality(1 .. Len(ns)) = Len(ns) /\ IsFiniteSet(1 .. Len(ns))
  <2>1. 1 \in Int /\ Len(ns) \in Int /\ ~(1 > Len(ns))
    BY <1>1
  <2>2. Cardinality(1 .. Len(ns)) = Len(ns) - 1 + 1
    BY <2>1, FS_Interval
  <2>3. QED BY <1>1, <2>1, <2>2, FS_Interval
<1>3. D \subseteq 1 .. Len(ns)
  BY <1>1
<1>4. 1 \in D
  <2>1. 1 \in DOMAIN ns /\ 1 - 1 = 0
    BY <1>1
  <2>2. Scan(ns)[1] = Sums(ns)[1 - 1]
    BY <2>1 DEF Scan
  <2>3. Scan(ns)[1] <= i
    BY <1>1, <2>1, <2>2
  <2>4. QED BY <2>1, <2>3
<1> HIDE DEF D
<1>5. IsFiniteSet(D) /\ Cardinality(D) <= Len(ns)
  BY <1>2, <1>3, FS_Subset
<1>6. Cardinality(D) \in Nat /\ Cardinality(D) # 0
  BY <1>4, <1>5, FS_CardinalityType, FS_EmptySet
<1>7. Outer(ns, i) = Cardinality(D) - 1
  BY DEF Outer, D
<1>8. QED BY <1>1, <1>5, <1>6, <1>7

\* A member is where its object is, in the program, or said to be
\* self-contained: what is not said to be so has been moved into the object.
LEMMA MemberFacts ==
  ASSUME NEW a \in Arguments, NEW k \in Nat, NEW m \in DOMAIN a.columns
  PROVE  \/ CharactersAt(a, m, k) \in {k, Program}
         \/ a.temporary /\ a.lies[m] = "argument" /\ a.contained[m]
<1>1. /\ a.lies[m] \in {"traits", "argument", "program"}
      /\ a.contained \in [DOMAIN a.columns -> BOOLEAN] /\ a.temporary \in BOOLEAN
  BY ArgumentsAssumption
<1>2. CASE a.lies[m] = "traits"
  BY <1>2 DEF CharactersAt
<1>3. CASE a.lies[m] = "program"
  BY <1>3 DEF CharactersAt
<1>4. CASE a.lies[m] = "argument"
  <2>1. CharactersAt(a, m, k) = IF Held(a) THEN k ELSE IF a.temporary THEN Gone ELSE Program
    BY <1>4 DEF CharactersAt
  <2>2. CASE Held(a) \/ ~a.temporary
    BY <2>1, <2>2
  <2>3. CASE ~Held(a) /\ a.temporary
    <3>1. a.contained[m]
      BY <1>1, <2>3 DEF Held
    <3>2. QED BY <1>4, <2>3, <3>1
  <2>4. QED BY <2>2, <2>3
<1>5. QED BY <1>1, <1>2, <1>3, <1>4

LEMMA FilledFacts ==
  ASSUME NEW a \in Arguments, NEW k \in Nat
  PROVE  /\ Total(a.columns) \in Nat \ {0}
         /\ \E V : Filled(a, k) \in Seq(V)
         /\ Len(Filled(a, k)) = Total(a.columns)
         /\ Leaves(a, k) = ColumnsOf(Filled(a, k))
         /\ \A i \in 1 .. Len(Filled(a, k)) :
              /\ Entry(Filled(a, k)[i])
              /\ Filled(a, k)[i].at \in {k, Program} \/ SaidContained(Filled(a, k)[i])
<1> DEFINE m == Total(a.columns)
           t == Filled(a, k)
           V == { t[i] : i \in 1 .. m }
<1>1. a.columns \in ColumnLists
  BY ArgumentsAssumption DEF ColumnLists
<1>2. /\ m \in Nat \ {0}
      /\ Leaves(a, k) = [i \in 1 .. m |-> << k, Outer(a.columns, i - 1), Inner(a.columns, i - 1) >>]
  BY <1>1, LeavesFacts
<1> HIDE DEF m
<1>3. DOMAIN t = 1 .. m /\ t = [i \in 1 .. m |-> t[i]]
  BY DEF Filled, m
<1>4. ASSUME NEW i \in 1 .. m
      PROVE  /\ Column(t[i]) = << k, Outer(a.columns, i - 1), Inner(a.columns, i - 1) >>
             /\ Entry(t[i]) /\ (t[i].at \in {k, Program} \/ SaidContained(t[i]))
  <2> DEFINE x == Outer(a.columns, i - 1)
             y == Inner(a.columns, i - 1)
             w == CharactersAt(a, x + 1, k)
  <2>1. t[i] = [at |-> w, from |-> a, argument |-> k, member |-> x, column |-> y, own |-> TRUE]
    BY DEF Filled, m
  <2>2. i - 1 \in Nat
    BY <1>2
  <2>3. x + 1 \in DOMAIN a.columns
    BY <1>1, <2>2, OuterFacts
  <2> HIDE DEF t
  <2>4. w \in {k, Program} \/ (a.temporary /\ a.lies[x + 1] = "argument" /\ a.contained[x + 1])
    BY <2>3, MemberFacts
  <2> HIDE DEF w, x, y
  <2>5. t[i].at = w /\ t[i].from = a /\ t[i].member = x /\ Column(t[i]) = << k, x, y >>
    BY <2>1 DEF Column
  <2>6. t[i].at \in {k, Program} \/ SaidContained(t[i])
    BY <2>4, <2>5 DEF SaidContained
  <2>7. Entry(t[i])
    BY <2>1 DEF Entry
  <2>8. QED BY <2>5, <2>6, <2>7 DEF x, y
<1> HIDE DEF t
<1>5. t \in [1 .. m -> V]
  BY <1>3
<1> HIDE DEF V
<1>6. t \in Seq(V) /\ Len(t) = m
  BY <1>2, <1>5
<1>7. Leaves(a, k) = [i \in 1 .. m |-> Column(t[i])]
  BY <1>2, <1>4
<1>8. \A i \in 1 .. m : Entry(t[i]) /\ (t[i].at \in {k, Program} \/ SaidContained(t[i]))
  BY <1>4
<1>9. QED BY <1>2, <1>3, <1>6, <1>7, <1>8 DEF m, t, ColumnsOf

LEMMA BindOneFacts ==
  ASSUME NEW p, ParamOK(p), p.live, NEW a \in Arguments, NEW k \in Nat, Fits(p, Total(a.columns))
  PROVE  /\ ParamOK(BindOne(p, a, k)) /\ BindOne(p, a, k).live
         /\ BindOne(p, a, k).objects = Append(p.objects, k)
<1> DEFINE t == Filled(a, k)
           l == Leaves(a, k)
           os == Append(p.objects, k)
           vs == p.values \o t
           bs == p.bound \o l
           r == BindOne(p, a, k)
<1>1. PICK V : t \in Seq(V)
  BY FilledFacts
<1>2. PICK W : p.values \in Seq(W)
  BY DEF ParamOK
<1>3. t \in Seq(V \cup W) /\ p.values \in Seq(V \cup W)
  <2>1. t \in [1 .. Len(t) -> V] /\ Len(t) \in Nat
    BY <1>1
  <2>2. p.values \in [1 .. Len(p.values) -> W] /\ Len(p.values) \in Nat
    BY <1>2
  <2> HIDE DEF t
  <2>3. t \in [1 .. Len(t) -> V \cup W] /\ p.values \in [1 .. Len(p.values) -> V \cup W]
    BY <2>1, <2>2
  <2>4. QED BY <2>1, <2>2, <2>3
<1>4. /\ Len(t) = Total(a.columns) /\ Len(t) \in Nat \ {0}
      /\ l = ColumnsOf(t)
      /\ \A i \in 1 .. Len(t) : Entry(t[i]) /\ (t[i].at \in {k, Program} \/ SaidContained(t[i]))
  BY FilledFacts
<1>5. /\ r = [live |-> p.live, objects |-> os, values |-> vs, bound |-> bs]
      /\ r.live = p.live /\ r.objects = os /\ r.values = vs /\ r.bound = bs
  <2>1. r = [p EXCEPT !.objects = os, !.values = vs, !.bound = bs]
    BY DEF BindOne, ParamOK
  <2> HIDE DEF os, vs, bs, r
  <2>2. p = [live |-> p.live, objects |-> p.objects, values |-> p.values, bound |-> p.bound]
    BY DEF ParamOK
  <2>3. r = [live |-> p.live, objects |-> os, values |-> vs, bound |-> bs]
    BY <2>1, <2>2
  <2>4. QED BY <2>3
<1> HIDE DEF t, l
<1>6. /\ vs \in Seq(V \cup W) /\ Len(vs) = Len(p.values) + Len(t) /\ Len(p.values) \in Nat
      /\ \A i \in 1 .. Len(p.values) : vs[i] = p.values[i]
      /\ \A i \in 1 .. Len(t) : vs[Len(p.values) + i] = t[i]
  BY <1>3, ConcatFacts
<1>7. bs = ColumnsOf(vs)
  <2>1. p.bound = ColumnsOf(p.values)
    BY DEF ParamOK
  <2> DEFINE U == V \cup W
  <2>2. t \in Seq(U) /\ p.values \in Seq(U)
    BY <1>3
  <2> HIDE DEF U, vs, bs
  <2>3. ColumnsOf(p.values) \o ColumnsOf(t) = ColumnsOf(p.values \o t)
    BY <2>2, ColumnsConcat
  <2>4. QED BY <1>4, <2>1, <2>3 DEF vs, bs
<1>8. /\ os \in Seq(Nat) /\ Len(os) = Len(p.objects) + 1 /\ os[Len(p.objects) + 1] = k
      /\ Len(p.objects) \in Nat /\ \A j \in 1 .. Len(p.objects) : os[j] = p.objects[j]
  <2>1. p.objects \in Seq(Nat)
    BY DEF ParamOK
  <2>2. QED BY <2>1
<1> HIDE DEF vs, os, bs, r
<1>9. Len(os) <= Len(vs) /\ Len(vs) <= Capacity
  <2>1. Len(p.objects) <= Len(p.values) /\ Len(p.values) + Total(a.columns) <= Capacity
    BY DEF ParamOK, Fits
  <2>2. QED BY <1>4, <1>6, <1>8, <2>1
<1>10. ASSUME NEW i \in 1 .. Len(vs), vs[i].own
       PROVE  \/ vs[i].at = Program \/ SaidContained(vs[i])
              \/ \E j \in 1 .. Len(os) : os[j] = vs[i].at
  <2>1. CASE i <= Len(p.values)
    <3>1. i \in 1 .. Len(p.values) /\ vs[i] = p.values[i]
      BY <1>6, <2>1
    <3>2. \/ vs[i].at = Program \/ SaidContained(vs[i])
          \/ \E j \in 1 .. Len(p.objects) : p.objects[j] = vs[i].at
      BY <1>10, <3>1 DEF ParamOK
    <3>3. \A j \in 1 .. Len(p.objects) : j \in 1 .. Len(os) /\ os[j] = p.objects[j]
      BY <1>8
    <3>4. QED BY <3>2, <3>3
  <2>2. CASE ~(i <= Len(p.values))
    <3> DEFINE x == i - Len(p.values)
    <3>1. x \in 1 .. Len(t) /\ Len(p.values) + x = i
      BY <1>4, <1>6, <2>2
    <3> HIDE DEF x
    <3>2. vs[i].at \in {k, Program} \/ SaidContained(vs[i])
      BY <1>4, <1>6, <3>1
    <3>3. Len(p.objects) + 1 \in 1 .. Len(os)
      BY <1>8
    <3>4. QED BY <1>8, <3>2, <3>3
  <2>3. QED BY <2>1, <2>2
<1>11. ParamOK(r) /\ r.live
  <2>1. r = [live |-> r.live, objects |-> r.objects, values |-> r.values, bound |-> r.bound]
    BY <1>5
  <2>2. r.live \in BOOLEAN /\ r.live
    BY <1>5 DEF ParamOK
  <2>3. \E U : r.values \in Seq(U)
    BY <1>5, <1>6
  <2>4. ASSUME NEW i \in 1 .. Len(vs) PROVE Entry(vs[i])
    <3>1. CASE i <= Len(p.values)
      <4>1. i \in 1 .. Len(p.values) /\ vs[i] = p.values[i]
        BY <1>6, <3>1
      <4>2. QED BY <4>1 DEF ParamOK
    <3>2. CASE ~(i <= Len(p.values))
      <4> DEFINE x == i - Len(p.values)
      <4>1. x \in 1 .. Len(t) /\ Len(p.values) + x = i
        BY <1>4, <1>6, <3>2
      <4> HIDE DEF x
      <4>2. QED BY <1>4, <1>6, <4>1
    <3>3. QED BY <3>1, <3>2
  <2>5. QED BY <1>5, <1>7, <1>8, <1>9, <1>10, <2>1, <2>2, <2>3, <2>4 DEF ParamOK
<1>12. QED BY <1>5, <1>11 DEF r, os
\* s is what binding some arguments, the objects numbered from k, makes of p.
Bound(p, k, s) ==
  /\ s = [ok |-> s.ok, p |-> s.p, next |-> s.next]
  /\ s.ok \in BOOLEAN /\ s.next \in Nat /\ k <= s.next
  /\ ParamOK(s.p) /\ s.p.live
  /\ Len(s.p.objects) = Len(p.objects) + (s.next - k)
  /\ \A i \in 1 .. Len(p.objects) : s.p.objects[i] = p.objects[i]
  /\ \A i \in 1 .. s.next - k : s.p.objects[Len(p.objects) + i] = k + i - 1

LEMMA TryFacts ==
  ASSUME NEW p, ParamOK(p), NEW k \in Nat, NEW s, Bound(p, k, s), NEW a \in Arguments
  PROVE  Bound(p, k, Try(s, a))
<1> DEFINE r == Try(s, a)
           q == BindOne(s.p, a, s.next)
           n == Len(p.objects)
           m == s.next - k
<1>1. CASE s.ok /\ Fits(s.p, Total(a.columns))
  <2>1. r = [ok |-> TRUE, p |-> q, next |-> s.next + 1]
    BY <1>1 DEF Try
  <2>2. ParamOK(q) /\ q.live /\ q.objects = Append(s.p.objects, s.next)
    BY <1>1, BindOneFacts DEF Bound
  <2>3. /\ s.next \in Nat /\ m \in Nat /\ n \in Nat /\ k + m = s.next
        /\ s.p.objects \in Seq(Nat) /\ Len(s.p.objects) = n + m
    BY DEF Bound, ParamOK
  <2>4. /\ Len(q.objects) = n + m + 1 /\ q.objects[n + m + 1] = s.next
        /\ \A i \in 1 .. n + m : q.objects[i] = s.p.objects[i]
    BY <2>2, <2>3
  <2> HIDE DEF q, n
  <2>5. r.ok = TRUE /\ r.p = q /\ r.next = s.next + 1
    BY <2>1
  <2>6. (s.next + 1) - k = m + 1
    BY <2>3
  <2>7. \A i \in 1 .. n : q.objects[i] = p.objects[i]
    <3>1. \A i \in 1 .. n : i \in 1 .. n + m /\ s.p.objects[i] = p.objects[i]
      BY <2>3 DEF Bound, n
    <3>2. QED BY <2>4, <3>1
  <2>8. \A i \in 1 .. m + 1 : q.objects[n + i] = k + i - 1
    <3>1. ASSUME NEW i \in 1 .. m PROVE q.objects[n + i] = k + i - 1
      <4>1. n + i \in 1 .. n + m
        BY <2>3
      <4>2. s.p.objects[n + i] = k + i - 1
        BY DEF Bound, n
      <4>3. QED BY <2>4, <4>1, <4>2
    <3>2. q.objects[n + (m + 1)] = k + (m + 1) - 1
      <4>1. n + (m + 1) = n + m + 1 /\ k + (m + 1) - 1 = s.next
        BY <2>3
      <4>2. QED BY <2>4, <4>1
    <3>3. \A i \in 1 .. m + 1 : i \in 1 .. m \/ i = m + 1
      BY <2>3
    <3>4. QED BY <3>1, <3>2, <3>3
  <2> HIDE DEF r, m
  <2>9. r = [ok |-> r.ok, p |-> r.p, next |-> r.next]
    BY <2>1, <2>5
  <2>10. r.next \in Nat /\ k <= r.next /\ Len(r.p.objects) = n + (r.next - k)
    <3>1. r.next = s.next + 1 /\ Len(r.p.objects) = n + m + 1 /\ r.next - k = m + 1
      BY <2>4, <2>5, <2>6
    <3>2. n + (m + 1) = n + m + 1 /\ s.next + 1 \in Nat /\ k <= s.next + 1
      BY <2>3
    <3>3. QED BY <3>1, <3>2
  <2>11. Bound(p, k, r)
    BY <2>2, <2>5, <2>6, <2>7, <2>8, <2>9, <2>10 DEF Bound, n
  <2>12. QED BY <2>11 DEF r
<1>2. CASE ~(s.ok /\ Fits(s.p, Total(a.columns)))
  <2>1. s = [ok |-> s.ok, p |-> s.p, next |-> s.next]
    BY DEF Bound
  <2>2. r = [s EXCEPT !.ok = FALSE]
    BY <1>2 DEF Try
  <2> HIDE DEF r
  <2>3. r = [ok |-> FALSE, p |-> s.p, next |-> s.next]
    BY <2>1, <2>2
  <2>4. r.ok = FALSE /\ r.p = s.p /\ r.next = s.next
    BY <2>3
  <2>5. r = [ok |-> r.ok, p |-> r.p, next |-> r.next] /\ r.ok \in BOOLEAN
    BY <2>3, <2>4
  <2>6. Bound(p, k, r)
    BY <2>4, <2>5 DEF Bound
  <2>7. QED BY <2>6 DEF r
<1>3. QED BY <1>1, <1>2

LEMMA BindAllFacts ==
  ASSUME NEW p, ParamOK(p), p.live, NEW k \in Nat, NEW args \in Seq(Arguments)
  PROVE  Bound(p, k, BindAll(p, args, k))
<1>1. Len(args) \in Nat /\ \A n \in 1 .. Len(args) : args[n] \in Arguments
  OBVIOUS
<1> DEFINE m == Len(args)
           start == [ok |-> TRUE, p |-> p, next |-> k]
           Tried(g, n) == [i \in 0 .. n |-> IF i = 0 THEN start ELSE Try(g[i - 1], args[i])]
           h == CHOOSE g : g = Tried(g, m)
           W == { n \in 0 .. m : \E g : g = Tried(g, n) }
<1>2. m \in Nat /\ \A n \in 1 .. m : args[n] \in Arguments
  BY <1>1
<1>3. BindAll(p, args, k) = h[m]
  BY DEF BindAll
<1> HIDE DEF m, start
<1>4. 0 \in W
  <2> DEFINE g == [i \in 0 .. 0 |-> start]
  <2>1. g = Tried(g, 0)
    <3>1. \A i \in 0 .. 0 : i = 0
      OBVIOUS
    <3>2. QED BY <3>1
  <2> HIDE DEF g, Tried
  <2>2. 0 \in 0 .. m
    BY <1>2
  <2>3. QED BY <2>1, <2>2
<1>5. ASSUME NEW n \in 1 .. m, n - 1 \in W PROVE n \in W
  <2>1. PICK f : f = Tried(f, n - 1)
    BY <1>5
  <2> DEFINE last == Try(f[n - 1], args[n])
             g == [i \in 0 .. n |-> IF i = n THEN last ELSE f[i]]
  <2>2. n \in Nat \ {0} /\ n \in 0 .. m
    BY <1>2
  <2>3. ASSUME NEW i \in 0 .. n PROVE g[i] = Tried(g, n)[i]
    <3>1. CASE i = 0
      <4>1. i # n /\ i \in 0 .. n - 1
        BY <2>2, <3>1
      <4>2. f[i] = Tried(f, n - 1)[i]
        BY <2>1
      <4>3. f[i] = start
        BY <3>1, <4>1, <4>2
      <4> HIDE DEF last
      <4>4. g[i] = f[i]
        BY <4>1
      <4>5. QED BY <3>1, <4>3, <4>4
    <3>2. CASE i # 0 /\ i # n
      <4>1. i \in 0 .. n - 1 /\ i - 1 \in 0 .. n /\ i - 1 # n
        BY <2>2, <3>2
      <4>2. f[i] = Tried(f, n - 1)[i]
        BY <2>1
      <4>3. f[i] = Try(f[i - 1], args[i])
        BY <3>2, <4>1, <4>2
      <4> HIDE DEF last
      <4>4. g[i] = f[i] /\ g[i - 1] = f[i - 1]
        BY <3>2, <4>1
      <4> HIDE DEF g
      <4>5. QED BY <3>2, <4>3, <4>4
    <3>3. CASE i = n
      <4>1. n - 1 \in 0 .. n /\ n - 1 # n /\ n # 0
        BY <2>2
      <4> HIDE DEF last
      <4>2. g[n] = last /\ g[n - 1] = f[n - 1]
        BY <2>2, <3>3, <4>1
      <4> HIDE DEF g
      <4>3. QED BY <3>3, <4>1, <4>2 DEF last
    <3>4. QED BY <3>1, <3>2, <3>3
  <2>4. g = Tried(g, n)
    <3> HIDE DEF last
    <3>1. g = [i \in 0 .. n |-> g[i]]
      OBVIOUS
    <3> HIDE DEF g
    <3>2. \A i \in 0 .. n : g[i] = Tried(g, n)[i]
      BY <2>3
    <3>3. QED BY <3>1, <3>2
  <2> HIDE DEF g, Tried
  <2>5. QED BY <2>2, <2>4
<1> HIDE DEF W
<1>6. m \in W
  <2>1. m \in 0 .. m
    BY <1>2
  <2>2. QED BY <1>2, <1>4, <1>5, <2>1, Upwards
<1>7. h = Tried(h, m)
  <2>1. \E g : g = Tried(g, m)
    BY <1>6 DEF W
  <2> HIDE DEF Tried
  <2>2. QED BY <2>1
<1> HIDE DEF h
<1>8. h[0] = start /\ \A n \in 1 .. m : h[n] = Try(h[n - 1], args[n])
  <2>1. 0 \in 0 .. m /\ \A n \in 1 .. m : n \in 0 .. m /\ n # 0
    BY <1>2
  <2>2. \A n \in 0 .. m : h[n] = Tried(h, m)[n]
    BY <1>7
  <2>3. QED BY <2>1, <2>2
<1> DEFINE X == { n \in 0 .. m : Bound(p, k, h[n]) }
<1>9. 0 \in X
  <2>1. Bound(p, k, start)
    <3>1. start.ok = TRUE /\ start.p = p /\ start.next = k
      BY DEF start
    <3>2. start = [ok |-> start.ok, p |-> start.p, next |-> start.next]
      BY <3>1 DEF start
    <3>3. Len(p.objects) \in Nat /\ k - k = 0
      BY DEF ParamOK
    <3>4. Len(start.p.objects) = Len(p.objects) + (start.next - k) /\ k <= start.next
      BY <3>1, <3>3
    <3>5. \A i \in 1 .. start.next - k : FALSE
      BY <3>1, <3>3
    <3>6. QED BY <3>1, <3>2, <3>4, <3>5 DEF Bound
  <2>2. 0 \in 0 .. m
    BY <1>2
  <2>3. QED BY <1>8, <2>1, <2>2
<1>10. ASSUME NEW n \in 1 .. m, n - 1 \in X PROVE n \in X
  <2>1. n \in 0 .. m /\ args[n] \in Arguments
    <3> HIDE DEF Tried, X
    <3>1. n \in 0 .. m
      BY <1>2
    <3>2. QED BY <1>2, <3>1
  <2>2. Bound(p, k, h[n - 1])
    BY <1>10
  <2>3. Bound(p, k, Try(h[n - 1], args[n]))
    BY <2>1, <2>2, TryFacts
  <2>4. QED BY <1>8, <2>1, <2>3
<1> HIDE DEF X
<1>11. m \in X
  <2>1. m \in 0 .. m
    BY <1>2
  <2>2. QED BY <1>2, <1>9, <1>10, <2>1, Upwards
<1>12. QED BY <1>3, <1>11 DEF X
-----------------------------------------------------------------------------
(* The heap objects have one owner each.                                   *)

HeapInv ==
  /\ params = [p \in Params |-> params[p]] /\ \A p \in Params : ParamOK(params[p])
  /\ made \in Nat /\ onHeap \subseteq 1 .. made /\ leaked \subseteq onHeap
  /\ \A p \in Params : \A i \in 1 .. Len(params[p].objects) :
       params[p].objects[i] \in onHeap \ leaked
  /\ \A p, q \in Params :
       \A i \in 1 .. Len(params[p].objects), j \in 1 .. Len(params[q].objects) :
         params[p].objects[i] = params[q].objects[j] => p = q /\ i = j
  /\ \A k \in onHeap \ leaked :
       \E p \in Params : \E i \in 1 .. Len(params[p].objects) : params[p].objects[i] = k

\* The objects numbered from made + 1 to n are new, and belong to nobody: the
\* constructor that made them has thrown.
LEMMA HeapLeaks ==
  ASSUME HeapInv, NEW p \in Params, NEW r, ParamOK(r), r.objects = params[p].objects,
         params' = [params EXCEPT ![p] = r],
         NEW n \in Nat, made <= n, made' = n,
         onHeap' = onHeap \cup (made + 1 .. n), leaked' = leaked \cup (made + 1 .. n)
  PROVE  HeapInv'
<1>1. \A q \in Params : ParamOK(params'[q]) /\ params'[q].objects = params[q].objects
  BY DEF HeapInv
<1>2. params' = [q \in Params |-> params'[q]]
  BY DEF HeapInv
<1>3. made \in Nat /\ onHeap \subseteq 1 .. made /\ leaked \subseteq onHeap
  BY DEF HeapInv
<1>4. /\ made' \in Nat /\ onHeap' \subseteq 1 .. made' /\ leaked' \subseteq onHeap'
      /\ onHeap' \ leaked' = onHeap \ leaked
  BY <1>3
<1>5. \A q \in Params : \A i \in 1 .. Len(params'[q].objects) :
        params'[q].objects[i] \in onHeap' \ leaked'
  BY <1>1, <1>4 DEF HeapInv
<1>6. \A q, u \in Params :
        \A i \in 1 .. Len(params'[q].objects), j \in 1 .. Len(params'[u].objects) :
          params'[q].objects[i] = params'[u].objects[j] => q = u /\ i = j
  BY <1>1 DEF HeapInv
<1>7. \A k \in onHeap' \ leaked' :
        \E q \in Params : \E i \in 1 .. Len(params'[q].objects) : params'[q].objects[i] = k
  <2>1. ASSUME NEW k \in onHeap \ leaked
        PROVE  \E q \in Params : \E i \in 1 .. Len(params'[q].objects) : params'[q].objects[i] = k
    <3>1. PICK q \in Params : \E i \in 1 .. Len(params[q].objects) : params[q].objects[i] = k
      BY DEF HeapInv
    <3>2. QED BY <1>1, <3>1
  <2>2. QED BY <1>4, <2>1
<1>8. \A q \in Params : ParamOK(params[q])'
  BY <1>1 DEF ParamOK
<1>9. QED BY <1>2, <1>4, <1>5, <1>6, <1>7, <1>8 DEF HeapInv

\* r has the first c objects of p, and then the new ones.
Grown(r, p, c, n) ==
  /\ n \in Nat /\ made <= n /\ c \in Nat /\ ParamOK(r)
  /\ Len(r.objects) = c + (n - made)
  /\ \A i \in 1 .. c : r.objects[i] = p.objects[i]
  /\ \A i \in 1 .. n - made : r.objects[c + i] = made + i

\* p keeps all its objects, or deletes them all, and gets the new ones.
LEMMA HeapBinds ==
  ASSUME HeapInv, NEW p \in Params, NEW r, NEW n, NEW c, Grown(r, params[p], c, n),
         params' = [params EXCEPT ![p] = r], made' = n, UNCHANGED leaked,
         \/ c = Len(params[p].objects) /\ onHeap' = onHeap \cup (made + 1 .. n)
         \/ c = 0 /\ onHeap' = (onHeap \ Range(params[p].objects)) \cup (made + 1 .. n)
  PROVE  HeapInv'
<1> USE DEF Grown
<1> DEFINE old == params[p].objects
           new == r.objects
<1>1. /\ params'[p] = r
      /\ \A q \in Params : q # p => params'[q] = params[q]
      /\ params' = [q \in Params |-> params'[q]]
  BY DEF HeapInv
<1>2. \A q \in Params : ParamOK(params'[q])
  BY <1>1 DEF HeapInv
<1>3. made \in Nat /\ onHeap \subseteq 1 .. made /\ leaked \subseteq onHeap
  BY DEF HeapInv
<1>4. old \in Seq(Nat) /\ DOMAIN old = 1 .. Len(old) /\ Len(old) \in Nat /\ c <= Len(old)
  <2>1. old \in Seq(Nat)
    BY DEF HeapInv, ParamOK
  <2> HIDE DEF old
  <2>2. Len(old) \in Nat /\ DOMAIN old = 1 .. Len(old)
    BY <2>1
  <2>3. QED BY <2>1, <2>2 DEF old
<1>5. Range(old) = { old[i] : i \in 1 .. Len(old) }
  BY <1>4 DEF Range
<1>6. ASSUME NEW i \in 1 .. Len(new)
      PROVE  \/ i \in 1 .. c /\ i \in 1 .. Len(old) /\ new[i] = old[i]
             \/ i \notin 1 .. c /\ new[i] \in made + 1 .. n /\ new[i] = made + (i - c)
  <2>1. CASE i <= c
    BY <1>4, <2>1
  <2>2. CASE ~(i <= c)
    <3> DEFINE x == i - c
    <3>1. x \in 1 .. n - made /\ c + x = i
      BY <1>3, <2>2
    <3>2. new[c + x] = made + x
      BY <3>1
    <3>3. made + x \in made + 1 .. n /\ i \notin 1 .. c
      BY <1>3, <2>2, <3>1
    <3>4. QED BY <3>1, <3>2, <3>3
  <2>3. QED BY <2>1, <2>2
<1>7. ASSUME NEW q \in Params, q # p, NEW i \in 1 .. Len(params[q].objects)
      PROVE  /\ params[q].objects[i] \in onHeap \ leaked
             /\ params[q].objects[i] \notin Range(old)
  <2>1. params[q].objects[i] \in onHeap \ leaked
    BY DEF HeapInv
  <2>2. \A j \in 1 .. Len(params[p].objects) : params[q].objects[i] # params[p].objects[j]
    BY <1>7 DEF HeapInv
  <2>3. QED BY <1>5, <2>1, <2>2
<1>8. \A i \in 1 .. Len(old) : old[i] \in onHeap \ leaked
  BY DEF HeapInv
<1>9. (made + 1 .. n) \cap (1 .. made) = {} /\ made + 1 .. n \subseteq 1 .. n
  BY <1>3
<1>10. onHeap' \subseteq 1 .. made' /\ 1 .. made \subseteq 1 .. n
  <2>1. 1 .. made \subseteq 1 .. n /\ made + 1 .. n \subseteq 1 .. n
    BY <1>3
  <2>2. onHeap' \subseteq onHeap \cup (made + 1 .. n)
    OBVIOUS
  <2>3. QED BY <1>3, <2>1, <2>2
<1>11. c > 0 => c = Len(old) /\ onHeap' = onHeap \cup (made + 1 .. n)
  OBVIOUS
<1> HIDE DEF new, old
<1>12. \A q \in Params : \A i \in 1 .. Len(params'[q].objects) :
         params'[q].objects[i] \in onHeap' \ leaked'
  <2>1. ASSUME NEW i \in 1 .. Len(new) PROVE new[i] \in onHeap' \ leaked
    <3>1. CASE i \in 1 .. c
      <4>1. c > 0 /\ i \in 1 .. Len(old) /\ new[i] = old[i]
        BY <1>6, <3>1
      <4>2. QED BY <1>8, <1>11, <4>1
    <3>2. CASE i \notin 1 .. c
      BY <1>3, <1>6, <1>9, <3>2
    <3>3. QED BY <3>1, <3>2
  <2>2. ASSUME NEW q \in Params, q # p, NEW i \in 1 .. Len(params[q].objects)
        PROVE  params[q].objects[i] \in onHeap' \ leaked
    BY <1>7, <2>2 DEF old
  <2>3. QED BY <1>1, <2>1, <2>2 DEF new
<1>13. ASSUME NEW q \in Params, NEW u \in Params,
              NEW i \in 1 .. Len(params'[q].objects), NEW j \in 1 .. Len(params'[u].objects),
              params'[q].objects[i] = params'[u].objects[j]
       PROVE  q = u /\ i = j
  <2>1. \A a \in Params \ {p} :
          \A x \in 1 .. Len(new), y \in 1 .. Len(params[a].objects) :
            new[x] # params[a].objects[y]
    <3>1. SUFFICES ASSUME NEW a \in Params \ {p}, NEW x \in 1 .. Len(new),
                          NEW y \in 1 .. Len(params[a].objects), new[x] = params[a].objects[y]
                   PROVE  FALSE
      OBVIOUS
    <3>2. params[a].objects[y] \in 1 .. made /\ params[a].objects[y] \notin Range(old)
      BY <1>3, <1>7
    <3>3. CASE x \in 1 .. Len(old) /\ new[x] = old[x]
      BY <1>5, <3>1, <3>2, <3>3
    <3>4. CASE new[x] \in made + 1 .. n
      BY <1>9, <3>1, <3>2, <3>4
    <3>5. QED BY <1>6, <3>3, <3>4
  <2>2. ASSUME NEW x \in 1 .. Len(new), NEW y \in 1 .. Len(new), new[x] = new[y]
        PROVE  x = y
    <3>1. CASE x \in 1 .. c /\ y \in 1 .. c
      <4>1. /\ x \in 1 .. Len(old) /\ y \in 1 .. Len(old) /\ old[x] = old[y]
        BY <1>6, <2>2, <3>1
      <4>2. \A v, w \in 1 .. Len(params[p].objects) :
              params[p].objects[v] = params[p].objects[w] => v = w
        <5>1. \A a, b \in Params :
                \A v \in 1 .. Len(params[a].objects), w \in 1 .. Len(params[b].objects) :
                  params[a].objects[v] = params[b].objects[w] => a = b /\ v = w
          BY DEF HeapInv
        <5>2. QED BY <5>1
      <4>3. QED BY <4>1, <4>2 DEF old
    <3>2. CASE x \notin 1 .. c /\ y \notin 1 .. c
      <4>1. made + (x - c) = made + (y - c)
        BY <1>6, <2>2, <3>2
      <4>2. x \in Int /\ y \in Int
        OBVIOUS
      <4>3. QED BY <1>3, <4>1, <4>2
    <3>3. ASSUME NEW v \in 1 .. Len(new), NEW w \in 1 .. Len(new), v \in 1 .. c, w \notin 1 .. c
          PROVE  new[v] # new[w]
      <4>1. v \in 1 .. Len(old) /\ new[v] = old[v] /\ new[w] \in made + 1 .. n
        BY <1>6, <3>3
      <4>2. new[v] \in 1 .. made
        BY <1>3, <1>8, <4>1
      <4>3. QED BY <1>9, <4>1, <4>2
    <3>4. QED BY <2>2, <3>1, <3>2, <3>3
  <2>3. CASE q = p /\ u = p
    BY <1>1, <1>13, <2>2, <2>3 DEF new
  <2>4. CASE q = p /\ u # p
    BY <1>1, <1>13, <2>1, <2>4 DEF new
  <2>5. CASE q # p /\ u = p
    BY <1>1, <1>13, <2>1, <2>5 DEF new
  <2>6. CASE q # p /\ u # p
    BY <1>1, <1>13, <2>6 DEF HeapInv
  <2>7. QED BY <2>3, <2>4, <2>5, <2>6
<1>14. ASSUME NEW k \in onHeap' \ leaked'
       PROVE  \E q \in Params : \E i \in 1 .. Len(params'[q].objects) : params'[q].objects[i] = k
  <2>1. CASE k \in made + 1 .. n
    <3> DEFINE x == k - made
    <3>1. x \in 1 .. n - made /\ made + x = k /\ c + x \in 1 .. c + (n - made)
      BY <1>3, <2>1
    <3>2. new[c + x] = k /\ c + x \in 1 .. Len(new)
      BY <3>1 DEF new
    <3>3. QED BY <1>1, <3>2 DEF new
  <2>2. CASE k \notin made + 1 .. n
    <3>1. k \in onHeap \ leaked
      BY <2>2
    <3>2. PICK q \in Params : \E i \in 1 .. Len(params[q].objects) : params[q].objects[i] = k
      BY <3>1 DEF HeapInv
    <3>3. CASE q # p
      BY <1>1, <3>2, <3>3
    <3>4. CASE q = p
      <4>1. PICK i \in 1 .. Len(old) : old[i] = k
        BY <3>2, <3>4 DEF old
      <4>2. k \in Range(old)
        BY <1>5, <4>1
      <4>3. c = Len(old)
        BY <2>2, <4>2 DEF old
      <4>4. i \in 1 .. Len(new) /\ new[i] = k
        <5>1. Len(new) = c + (n - made) /\ \A x \in 1 .. c : new[x] = old[x]
          BY DEF new, old
        <5>2. i \in 1 .. c /\ 1 .. c \subseteq 1 .. c + (n - made)
          BY <1>3, <4>3
        <5>3. QED BY <4>1, <5>1, <5>2
      <4>5. QED BY <1>1, <4>4 DEF new
    <3>5. QED BY <3>3, <3>4
  <2>3. QED BY <2>1, <2>2
<1>15. \A q \in Params : ParamOK(params[q])'
  BY <1>2 DEF ParamOK
<1>16. leaked' \subseteq onHeap'
  <2>1. \A k \in Range(old) : k \notin leaked
    BY <1>5, <1>8
  <2>2. QED BY <1>3, <2>1 DEF old
<1>17. QED BY <1>1, <1>10, <1>12, <1>13, <1>14, <1>15, <1>16 DEF HeapInv
\* Objects without arguments
LEMMA EmptyFacts ==
  /\ ParamOK(Absent) /\ Absent.objects = << >> /\ Absent.values = << >>
  /\ ParamOK(Empty) /\ Empty.live /\ Empty.objects = << >>
  /\ \A p : ParamOK(p) =>
       ParamOK(Cleared(p)) /\ Cleared(p).live = p.live /\ Cleared(p).objects = << >>
<1>1. << >> \in Seq(Nat) /\ Len(<< >>) = 0 /\ \A i \in 1 .. Len(<< >>) : FALSE
  OBVIOUS
<1>2. ColumnsOf(<< >>) = << >>
  BY DEF ColumnsOf
<1>3. ASSUME NEW live \in BOOLEAN, NEW p,
             p = [live |-> live, objects |-> << >>, values |-> << >>, bound |-> << >>]
      PROVE  ParamOK(p)
  <2>1. p.live = live /\ p.objects = << >> /\ p.values = << >> /\ p.bound = << >>
    BY <1>3
  <2>2. 0 <= Capacity
    BY CapacityAssumption
  <2>3. QED BY <1>1, <1>2, <1>3, <2>1, <2>2 DEF ParamOK
<1>4. Absent = [live |-> FALSE, objects |-> << >>, values |-> << >>, bound |-> << >>]
  BY DEF Absent
<1>5. Empty = [live |-> TRUE, objects |-> << >>, values |-> << >>, bound |-> << >>]
  <2> DEFINE none == << >>
             yes == TRUE
             no == FALSE
  <2>1. Absent = [live |-> no, objects |-> none, values |-> none, bound |-> none]
    BY <1>4
  <2>2. Empty = [Absent EXCEPT !.live = yes]
    BY DEF Empty
  <2> HIDE DEF none, yes, no
  <2>3. Empty = [live |-> yes, objects |-> none, values |-> none, bound |-> none]
    BY <2>1, <2>2
  <2>4. QED BY <2>3 DEF none, yes
<1>6. ASSUME NEW p, ParamOK(p)
      PROVE  /\ Cleared(p) = [live |-> p.live, objects |-> << >>, values |-> << >>, bound |-> << >>]
             /\ p.live \in BOOLEAN
  <2>1. p = [live |-> p.live, objects |-> p.objects, values |-> p.values, bound |-> p.bound]
        /\ p.live \in BOOLEAN
    BY <1>6 DEF ParamOK
  <2> DEFINE none == << >>
  <2>2. Cleared(p) = [p EXCEPT !.objects = none, !.values = none, !.bound = none]
    BY DEF Cleared
  <2> HIDE DEF none
  <2>3. Cleared(p) = [live |-> p.live, objects |-> none, values |-> none, bound |-> none]
    BY <2>1, <2>2
  <2>4. QED BY <2>1, <2>3 DEF none
<1>7. ParamOK(Absent) /\ Absent.objects = << >> /\ Absent.values = << >>
  BY <1>3, <1>4
<1>8. ParamOK(Empty) /\ Empty.live /\ Empty.objects = << >>
  BY <1>3, <1>5
<1>9. ASSUME NEW p, ParamOK(p)
      PROVE  ParamOK(Cleared(p)) /\ Cleared(p).live = p.live /\ Cleared(p).objects = << >>
  BY <1>3, <1>6, <1>9
<1>10. QED BY <1>7, <1>8, <1>9

\* Binding arguments numbers the objects it makes from made + 1 on.
LEMMA NewFacts ==
  ASSUME HeapInv, NEW q, ParamOK(q), q.live, NEW args \in Seq(Arguments)
  PROVE  LET s == BindAll(q, args, made + 1)
             n == s.next - 1
         IN  /\ n \in Nat /\ made <= n /\ New(s) = made + 1 .. n
             /\ ParamOK(s.p) /\ s.ok \in BOOLEAN
             /\ Len(q.objects) \in Nat /\ Len(s.p.objects) = Len(q.objects) + (n - made)
             /\ \A i \in 1 .. Len(q.objects) : s.p.objects[i] = q.objects[i]
             /\ \A i \in 1 .. n - made : s.p.objects[Len(q.objects) + i] = made + i
<1> DEFINE s == BindAll(q, args, made + 1)
           n == s.next - 1
<1>1. made \in Nat /\ Len(q.objects) \in Nat
  BY DEF HeapInv, ParamOK
<1>2. Bound(q, made + 1, s)
  <2>1. made + 1 \in Nat
    BY <1>1
  <2>2. QED BY <2>1, BindAllFacts
<1> HIDE DEF s
<1>3. /\ s.next \in Nat /\ made + 1 <= s.next
      /\ ParamOK(s.p) /\ s.ok \in BOOLEAN
      /\ Len(s.p.objects) = Len(q.objects) + (s.next - (made + 1))
      /\ \A i \in 1 .. Len(q.objects) : s.p.objects[i] = q.objects[i]
      /\ \A i \in 1 .. s.next - (made + 1) : s.p.objects[Len(q.objects) + i] = (made + 1) + i - 1
  BY <1>2 DEF Bound
<1>4. n \in Nat /\ made <= n /\ s.next - (made + 1) = n - made
  BY <1>1, <1>3
<1>5. \A i \in 1 .. n - made : (made + 1) + i - 1 = made + i
  BY <1>1, <1>4
<1>6. New(s) = made + 1 .. n
  BY DEF New
<1>7. QED BY <1>1, <1>3, <1>4, <1>5, <1>6 DEF s

LEMMA ConstructStep ==
  ASSUME HeapInv, NEW p \in Params, NEW args \in Seq(Arguments), Construct(p, args)
  PROVE  HeapInv'
<1> DEFINE s == BindAll(Empty, args, made + 1)
           n == s.next - 1
<1>1. /\ n \in Nat /\ made <= n /\ New(s) = made + 1 .. n
      /\ ParamOK(s.p) /\ s.ok \in BOOLEAN
      /\ Len(Empty.objects) = 0 /\ Len(s.p.objects) = 0 + (n - made)
      /\ \A i \in 1 .. n - made : s.p.objects[0 + i] = made + i
  <2>1. Len(Empty.objects) = 0
    BY EmptyFacts
  <2>2. QED BY <2>1, EmptyFacts, NewFacts
<1>2. /\ ~params[p].live
      /\ params' = [params EXCEPT ![p] = IF s.ok THEN s.p ELSE Absent]
      /\ onHeap' = onHeap \cup New(s)
      /\ made' = n
      /\ leaked' = IF s.ok THEN leaked ELSE leaked \cup New(s)
  BY DEF Construct
<1>3. params[p].objects = << >> /\ Len(params[p].objects) = 0
  BY <1>2 DEF HeapInv, ParamOK
<1> HIDE DEF s, n
<1>4. CASE s.ok
  <2> DEFINE c == 0
  <2>1. c \in Nat /\ c = Len(params[p].objects) /\ \A i \in 1 .. c : s.p.objects[i] = params[p].objects[i]
    BY <1>3
  <2>2. Len(s.p.objects) = c + (n - made) /\ \A i \in 1 .. n - made : s.p.objects[c + i] = made + i
    BY <1>1
  <2>3. Grown(s.p, params[p], c, n)
    BY <1>1, <2>1, <2>2 DEF Grown
  <2> HIDE DEF c
  <2>4. QED BY <1>1, <1>2, <1>4, <2>1, <2>3, HeapBinds
<1>5. CASE ~s.ok
  BY <1>1, <1>2, <1>3, <1>5, EmptyFacts, HeapLeaks
<1>6. QED BY <1>4, <1>5

LEMMA BindStep ==
  ASSUME HeapInv, NEW p \in Params, NEW args \in Seq(Arguments), Bind(p, args)
  PROVE  HeapInv'
<1> DEFINE s == BindAll(params[p], args, made + 1)
           n == s.next - 1
           c == Len(params[p].objects)
<1>1. /\ params[p].live /\ ParamOK(params[p])
      /\ params' = [params EXCEPT ![p] = s.p]
      /\ onHeap' = onHeap \cup New(s)
      /\ made' = n /\ UNCHANGED leaked
  BY DEF Bind, HeapInv
<1>2. /\ n \in Nat /\ made <= n /\ New(s) = made + 1 .. n
      /\ ParamOK(s.p)
      /\ c \in Nat /\ Len(s.p.objects) = c + (n - made)
      /\ \A i \in 1 .. c : s.p.objects[i] = params[p].objects[i]
      /\ \A i \in 1 .. n - made : s.p.objects[c + i] = made + i
  BY <1>1, NewFacts
<1>3. c = Len(params[p].objects)
  OBVIOUS
<1> HIDE DEF s, n, c
<1>4. Grown(s.p, params[p], c, n)
  BY <1>2 DEF Grown
<1>5. QED BY <1>1, <1>2, <1>3, <1>4, HeapBinds

LEMMA ResetStep ==
  ASSUME HeapInv, NEW p \in Params, NEW args \in Seq(Arguments), Reset(p, args)
  PROVE  HeapInv'
<1> DEFINE q == Cleared(params[p])
           s == BindAll(q, args, made + 1)
           n == s.next - 1
           c == Len(q.objects)
<1>1. /\ params[p].live /\ ParamOK(params[p])
      /\ params' = [params EXCEPT ![p] = s.p]
      /\ onHeap' = (onHeap \ Range(params[p].objects)) \cup New(s)
      /\ made' = n /\ UNCHANGED leaked
  BY DEF Reset, HeapInv
<1>2. ParamOK(q) /\ q.live /\ c = 0
  BY <1>1, EmptyFacts
<1>3. /\ n \in Nat /\ made <= n /\ New(s) = made + 1 .. n
      /\ ParamOK(s.p)
      /\ c \in Nat /\ Len(s.p.objects) = c + (n - made)
      /\ \A i \in 1 .. n - made : s.p.objects[c + i] = made + i
  BY <1>2, NewFacts
<1> HIDE DEF s, n, c
<1>4. \A i \in 1 .. c : s.p.objects[i] = params[p].objects[i]
  BY <1>2
<1>5. Grown(s.p, params[p], c, n)
  BY <1>3, <1>4 DEF Grown
<1>6. QED BY <1>1, <1>2, <1>3, <1>5, HeapBinds
LEMMA BindParameterStep ==
  ASSUME HeapInv, NEW p \in Params, NEW q \in Params, BindParameter(p, q)
  PROVE  HeapInv'
<1> DEFINE s == params[p].values
           u == params[q].values
           t == [i \in DOMAIN u |-> [u[i] EXCEPT !.own = FALSE]]
           vs == s \o t
           bs == params[p].bound \o params[q].bound
           r == [params[p] EXCEPT !.values = vs, !.bound = bs]
<1>1. ParamOK(params[p]) /\ ParamOK(params[q])
  BY DEF HeapInv
<1>2. Len(s) + Len(u) <= Capacity /\ UNCHANGED << onHeap, made, leaked >>
  BY DEF BindParameter, Fits
<1>3. params' = [params EXCEPT ![p] = r]
  BY <1>1 DEF BindParameter, HeapInv, ParamOK
<1>4. PICK V : u \in Seq(V)
  BY <1>1 DEF ParamOK
<1>5. PICK W : s \in Seq(W)
  BY <1>1 DEF ParamOK
<1>6. \A i \in 1 .. Len(u) : Entry(u[i])
  BY <1>1 DEF ParamOK
<1>7. s = params[p].values /\ u = params[q].values
  OBVIOUS
<1> HIDE DEF s, u
<1>8. Len(u) \in Nat /\ Len(s) \in Nat /\ DOMAIN u = 1 .. Len(u)
  BY <1>4, <1>5
<1>9. ASSUME NEW i \in 1 .. Len(u)
      PROVE  t[i].own = FALSE /\ Column(t[i]) = Column(u[i]) /\ Entry(t[i])
  <2> DEFINE v == u[i]
             no == FALSE
  <2>1. t[i] = [v EXCEPT !.own = no] /\ Entry(v)
    BY <1>6, <1>8
  <2> HIDE DEF t, v, no
  <2>2. t[i] = [at |-> v.at, from |-> v.from, argument |-> v.argument, member |-> v.member,
                column |-> v.column, own |-> no]
    BY <2>1 DEF Entry
  <2>3. Entry(t[i]) /\ Column(t[i]) = Column(v) /\ t[i].own = no
    BY <2>2 DEF Entry, Column
  <2>4. QED BY <2>3 DEF v, no
<1> DEFINE T == { t[i] : i \in 1 .. Len(u) }
           U == W \cup T
<1>10. t \in Seq(U) /\ s \in Seq(U) /\ Len(t) = Len(u) /\ DOMAIN t = DOMAIN u
  <2>1. t = [i \in 1 .. Len(u) |-> t[i]] /\ DOMAIN t = DOMAIN u
    BY <1>8
  <2> HIDE DEF t
  <2>2. t \in [1 .. Len(u) -> U]
    BY <2>1
  <2>3. s \in [1 .. Len(s) -> W]
    BY <1>5
  <2>4. s \in [1 .. Len(s) -> U]
    BY <2>3
  <2> HIDE DEF U
  <2>5. QED BY <1>8, <2>1, <2>2, <2>4
<1> HIDE DEF T, U
<1>11. ColumnsOf(t) = params[q].bound
  <2>1. ColumnsOf(t) = [i \in 1 .. Len(u) |-> Column(t[i])]
    BY <1>8, <1>10 DEF ColumnsOf
  <2> HIDE DEF t
  <2>2. ColumnsOf(t) = [i \in DOMAIN u |-> Column(u[i])]
    BY <1>8, <1>9, <2>1
  <2>3. params[q].bound = ColumnsOf(u)
    BY <1>1, <1>7 DEF ParamOK
  <2>4. QED BY <2>2, <2>3 DEF ColumnsOf
<1> HIDE DEF t
<1>12. /\ vs \in Seq(U) /\ Len(vs) = Len(s) + Len(u)
       /\ \A i \in 1 .. Len(s) : vs[i] = s[i]
       /\ \A i \in 1 .. Len(u) : vs[Len(s) + i] = t[i]
  <2> HIDE DEF U
  <2>1. t \in Seq(U) /\ s \in Seq(U)
    BY <1>10
  <2>2. /\ vs \in Seq(U) /\ Len(vs) = Len(s) + Len(t)
        /\ \A i \in 1 .. Len(s) : vs[i] = s[i]
        /\ \A i \in 1 .. Len(t) : vs[Len(s) + i] = t[i]
    BY <2>1, ConcatFacts
  <2> HIDE DEF vs
  <2>3. QED BY <1>10, <2>2
<1>13. bs = ColumnsOf(vs)
  <2>1. params[p].bound = ColumnsOf(s)
    BY <1>1, <1>7 DEF ParamOK
  <2> HIDE DEF vs, bs
  <2>2. ColumnsOf(s) \o ColumnsOf(t) = ColumnsOf(s \o t)
    BY <1>10, ColumnsConcat
  <2>3. QED BY <1>11, <2>1, <2>2 DEF vs, bs
<1> HIDE DEF vs, bs
<1>14. ASSUME NEW i \in 1 .. Len(vs)
       PROVE  \/ i \in 1 .. Len(s) /\ vs[i] = s[i]
              \/ vs[i].own = FALSE /\ Entry(vs[i])
  <2>1. CASE i <= Len(s)
    <3>1. i \in 1 .. Len(s)
      BY <1>8, <2>1
    <3>2. QED BY <1>12, <3>1
  <2>2. CASE ~(i <= Len(s))
    <3> DEFINE x == i - Len(s)
    <3>1. x \in 1 .. Len(u) /\ Len(s) + x = i
      BY <1>8, <1>12, <2>2
    <3> HIDE DEF x
    <3>2. vs[i] = t[x]
      BY <1>12, <3>1
    <3>3. QED BY <1>9, <3>1, <3>2
  <2>3. QED BY <2>1, <2>2
<1>15. /\ r.live = params[p].live /\ r.objects = params[p].objects /\ r.values = vs /\ r.bound = bs
       /\ r = [live |-> r.live, objects |-> r.objects, values |-> r.values, bound |-> r.bound]
  <2>1. r = [live |-> params[p].live, objects |-> params[p].objects, values |-> vs, bound |-> bs]
    <3> DEFINE o == params[p]
    <3>1. o = [live |-> o.live, objects |-> o.objects, values |-> o.values, bound |-> o.bound]
          /\ r = [o EXCEPT !.values = vs, !.bound = bs]
      BY <1>1 DEF ParamOK
    <3> HIDE DEF o, r
    <3>2. r = [live |-> o.live, objects |-> o.objects, values |-> vs, bound |-> bs]
      BY <3>1
    <3>3. QED BY <3>2 DEF o
  <2> HIDE DEF r
  <2>2. r.live = params[p].live /\ r.objects = params[p].objects /\ r.values = vs /\ r.bound = bs
    BY <2>1
  <2>3. QED BY <2>1, <2>2
<1> HIDE DEF r
<1>16. ParamOK(r)
  <2>1. Len(params[p].objects) <= Len(vs) /\ Len(vs) <= Capacity
    <3>1. Len(params[p].objects) <= Len(s) /\ Len(params[p].objects) \in Nat
      BY <1>1, <1>7 DEF ParamOK
    <3>2. QED BY <1>2, <1>8, <1>12, <3>1
  <2>2. \A i \in 1 .. Len(vs) : Entry(vs[i])
    BY <1>1, <1>7, <1>14 DEF ParamOK
  <2>3. ASSUME NEW i \in 1 .. Len(vs), vs[i].own
        PROVE  \/ vs[i].at = Program \/ SaidContained(vs[i])
               \/ \E j \in 1 .. Len(params[p].objects) : params[p].objects[j] = vs[i].at
    <3>1. i \in 1 .. Len(s) /\ vs[i] = s[i]
      BY <1>14, <2>3
    <3>2. QED BY <1>1, <1>7, <2>3, <3>1 DEF ParamOK
  <2>4. r.live \in BOOLEAN /\ r.objects \in Seq(Nat) /\ (~r.live => r.objects = << >>)
    BY <1>1, <1>15 DEF ParamOK
  <2>5. \E X : r.values \in Seq(X)
    BY <1>12, <1>15
  <2>6. QED BY <1>13, <1>15, <2>1, <2>2, <2>3, <2>4, <2>5 DEF ParamOK
<1>17. made \in Nat /\ made <= made /\ made + 1 .. made = {}
  BY DEF HeapInv
<1>18. onHeap' = onHeap \cup (made + 1 .. made) /\ leaked' = leaked \cup (made + 1 .. made)
       /\ made' = made
  BY <1>2, <1>17
<1>19. QED BY <1>3, <1>15, <1>16, <1>17, <1>18, HeapLeaks

LEMMA DestructStep ==
  ASSUME HeapInv, NEW p \in Params, Destruct(p)
  PROVE  HeapInv'
<1>1. /\ params' = [params EXCEPT ![p] = Absent] /\ UNCHANGED << made, leaked >>
      /\ onHeap' = onHeap \ Range(params[p].objects)
  BY DEF Destruct
<1>2. made \in Nat /\ made <= made /\ made + 1 .. made = {} /\ made - made = 0
  BY DEF HeapInv
<1>3. Grown(Absent, params[p], 0, made)
  <2>1. Len(Absent.objects) = 0 + (made - made) /\ \A i \in 1 .. made - made : FALSE
    BY <1>2, EmptyFacts
  <2>2. \A i \in 1 .. 0 : FALSE
    OBVIOUS
  <2>3. 0 \in Nat
    OBVIOUS
  <2>4. QED BY <1>2, <2>1, <2>2, <2>3, EmptyFacts DEF Grown
<1>4. onHeap' = (onHeap \ Range(params[p].objects)) \cup (made + 1 .. made) /\ made' = made
  BY <1>1, <1>2
<1> DEFINE c == 0
           n == made
<1>5. Grown(Absent, params[p], c, n) /\ made' = n /\ c = 0
      /\ onHeap' = (onHeap \ Range(params[p].objects)) \cup (made + 1 .. n)
  BY <1>1, <1>3, <1>4
<1> HIDE DEF c, n
<1>6. QED BY <1>1, <1>5, HeapBinds

LEMMA HeapStep ==
  ASSUME HeapInv, [ParameterNext]_parameterVars
  PROVE  HeapInv'
<1>1. CASE UNCHANGED parameterVars
  BY <1>1 DEF parameterVars, HeapInv, ParamOK
<1>2. ASSUME NEW p \in Params, NEW a \in Arguments, NEW b \in Arguments,
             Construct(p, << a, b >>) \/ Bind(p, << a, b >>) \/ Reset(p, << a >>)
      PROVE  HeapInv'
  <2>1. << a, b >> \in Seq(Arguments) /\ << a >> \in Seq(Arguments)
    OBVIOUS
  <2>2. QED BY <1>2, <2>1, ConstructStep, BindStep, ResetStep
<1>3. ASSUME NEW p \in Params, Construct(p, << >>) \/ Reset(p, << >>) \/ Destruct(p)
      PROVE  HeapInv'
  <2>1. << >> \in Seq(Arguments)
    OBVIOUS
  <2>2. QED BY <1>3, <2>1, ConstructStep, ResetStep, DestructStep
<1>4. QED BY <1>1, <1>2, <1>3, BindParameterStep DEF ParameterNext

\* The inductive invariant of all parameter objects: what each has bound, and
\* who owns what is on the heap.
THEOREM ParameterInvariant == ParameterSpec => []HeapInv
<1>1. ParameterInit => HeapInv
  <2> SUFFICES ASSUME ParameterInit PROVE HeapInv
    OBVIOUS
  <2>1. params = [p \in Params |-> Absent] /\ onHeap = {} /\ made = 0 /\ leaked = {}
    BY DEF ParameterInit
  <2>2. \A p \in Params : params[p] = Absent /\ ParamOK(params[p]) /\ Len(params[p].objects) = 0
    BY <2>1, EmptyFacts
  <2>3. params = [p \in Params |-> params[p]]
    BY <2>1
  <2>4. \A p \in Params : \A i \in 1 .. Len(params[p].objects) : FALSE
    BY <2>2
  <2>5. QED BY <2>1, <2>2, <2>3, <2>4 DEF HeapInv
<1>2. QED BY <1>1, HeapStep, PTL DEF ParameterSpec

\* What is sent is every column of every member of every argument, in order, as
\* internal::gen finds them, also when bind() has failed half-way; and neither
\* array grows beyond Max.
THEOREM BoundAlwaysInOrder == ParameterSpec => []BoundInOrder
<1>1. HeapInv => BoundInOrder
  <2> SUFFICES ASSUME HeapInv, NEW p \in Params
               PROVE  /\ params[p].bound = [i \in DOMAIN params[p].values |->
                          LET v == params[p].values[i] IN << v.argument, v.member, v.column >>]
                      /\ Len(params[p].objects) <= Capacity /\ Len(params[p].values) <= Capacity
    BY DEF BoundInOrder
  <2>1. ParamOK(params[p])
    BY DEF HeapInv
  <2>2. params[p].bound = ColumnsOf(params[p].values)
    BY <2>1 DEF ParamOK
  <2>3. \E V : params[p].values \in Seq(V)
    BY <2>1 DEF ParamOK
  <2>4. Len(params[p].values) \in Nat
    BY <2>3
  <2>5. Len(params[p].objects) <= Len(params[p].values) /\ Len(params[p].values) <= Capacity
        /\ Len(params[p].objects) \in Nat
    BY <2>1 DEF ParamOK
  <2>6. Len(params[p].objects) <= Capacity
    BY <2>4, <2>5, CapacityAssumption
  <2>7. QED BY <2>2, <2>5, <2>6 DEF ColumnsOf, Column
<1>2. QED BY <1>1, ParameterInvariant, PTL

\* Each heap object has one owner, or was left behind by a constructor that
\* threw.  What a parameter sends of its own is the program's or alive, for any
\* mixture of members in a temporary: not what reset() has deleted, and nothing
\* of a temporary but the members whose traits call them self-contained.
THEOREM HeapIsAlwaysOwned == ParameterSpec => []HeapIsOwned
<1>1. HeapInv => HeapIsOwned
  <2> SUFFICES ASSUME HeapInv PROVE HeapIsOwned
    OBVIOUS
  <2>1. ASSUME NEW p \in Params
        PROVE  /\ DOMAIN params[p].objects = 1 .. Len(params[p].objects)
               /\ DOMAIN params[p].values = 1 .. Len(params[p].values)
               /\ 1 .. Len(params[p].objects) \subseteq 1 .. Capacity
    <3>1. ParamOK(params[p])
      BY DEF HeapInv
    <3>2. PICK V : params[p].values \in Seq(V)
      BY <3>1 DEF ParamOK
    <3>3. params[p].objects \in Seq(Nat) /\ Len(params[p].objects) <= Len(params[p].values)
          /\ Len(params[p].values) <= Capacity
      BY <3>1 DEF ParamOK
    <3>4. Len(params[p].objects) \in Nat /\ Len(params[p].values) \in Nat
      BY <3>2, <3>3
    <3>5. QED BY <3>2, <3>3, <3>4, CapacityAssumption
  <2>2. ASSUME NEW k \in onHeap \ leaked
        PROVE  Cardinality({ slot \in Params \X (1 .. Capacity) : Holds(slot[1], slot[2], k) }) = 1
    <3>1. PICK p \in Params : \E i \in 1 .. Len(params[p].objects) : params[p].objects[i] = k
      BY DEF HeapInv
    <3>2. PICK i \in 1 .. Len(params[p].objects) : params[p].objects[i] = k
      BY <3>1
    <3>3. << p, i >> \in Params \X (1 .. Capacity) /\ Holds(p, i, k)
      BY <2>1, <3>2 DEF Holds
    <3>4. ASSUME NEW slot \in Params \X (1 .. Capacity), Holds(slot[1], slot[2], k)
          PROVE  slot = << p, i >>
      <4>1. slot[1] \in Params /\ slot[2] \in 1 .. Len(params[slot[1]].objects)
            /\ params[slot[1]].objects[slot[2]] = k
        BY <2>1, <3>4 DEF Holds
      <4>2. slot[1] = p /\ slot[2] = i
        BY <3>2, <4>1 DEF HeapInv
      <4>3. slot = << slot[1], slot[2] >>
        OBVIOUS
      <4>4. QED BY <4>2, <4>3
    <3>5. { slot \in Params \X (1 .. Capacity) : Holds(slot[1], slot[2], k) } = {<< p, i >>}
      BY <3>3, <3>4
    <3>6. QED BY <3>5, FS_Singleton
  <2>3. ASSUME NEW p \in Params PROVE Range(params[p].objects) \subseteq onHeap \ leaked
    BY <2>1 DEF HeapInv, Range
  <2>4. ASSUME NEW p \in Params, NEW i \in DOMAIN params[p].values, params[p].values[i].own
        PROVE  params[p].values[i].at \in onHeap \cup {Program} \/ SaidContained(params[p].values[i])
    <3>1. \/ params[p].values[i].at = Program \/ SaidContained(params[p].values[i])
          \/ \E j \in 1 .. Len(params[p].objects) : params[p].objects[j] = params[p].values[i].at
      BY <2>1, <2>4 DEF HeapInv, ParamOK
    <3>2. QED BY <3>1 DEF HeapInv
  <2>5. QED BY <2>2, <2>3, <2>4 DEF HeapIsOwned
<1>2. QED BY <1>1, ParameterInvariant, PTL
-----------------------------------------------------------------------------
(* Types: of any nesting, so what holds of a type whenever it holds of its *)
(* members holds of all, and templates may be defined by their members.    *)

\* The recursive definition of the levels is well-founded: each is the one
\* below it and what has its members there.
LEMMA Levels ==
  /\ TypesUpTo[0] = DirectTypes
  /\ \A n \in 1 .. MaxNesting : TypesUpTo[n] = TypesUpTo[n - 1] \cup Composites(TypesUpTo[n - 1])
<1> DEFINE m == MaxNesting
           Next(l) == l \cup Composites(l)
           Up(g, k) == [n \in 0 .. k |-> IF n = 0 THEN DirectTypes ELSE Next(g[n - 1])]
           W == { k \in 0 .. m : \E g : g = Up(g, k) }
<1>1. m \in Nat
  BY MaxNestingAssumption
<1> HIDE DEF m, Next
<1>2. 0 \in W
  <2> DEFINE g == [n \in 0 .. 0 |-> DirectTypes]
  <2>1. g = Up(g, 0)
    OBVIOUS
  <2> HIDE DEF g, Up
  <2>2. 0 \in 0 .. m
    BY <1>1
  <2>3. QED BY <2>1, <2>2
<1>3. ASSUME NEW k \in 1 .. m, k - 1 \in W PROVE k \in W
  <2>1. PICK g : g = Up(g, k - 1)
    BY <1>3
  <2> DEFINE h == [n \in 0 .. k |-> IF n = 0 THEN DirectTypes ELSE Next(g[n - 1])]
  <2>2. k \in Nat /\ k - 1 \in Nat /\ k \in 0 .. m
    BY <1>1
  <2>3. ASSUME NEW n \in 0 .. k - 1 PROVE h[n] = g[n]
    <3>1. n \in 0 .. k
      BY <2>2
    <3>2. g[n] = Up(g, k - 1)[n]
      BY <2>1
    <3>3. g[n] = IF n = 0 THEN DirectTypes ELSE Next(g[n - 1])
      <4> HIDE DEF h
      <4>1. QED BY <3>2
    <3>4. QED BY <3>1, <3>3
  <2>4. ASSUME NEW n \in 0 .. k PROVE h[n] = Up(h, k)[n]
    <3>1. n # 0 => n - 1 \in 0 .. k - 1
      BY <2>2
    <3>2. n # 0 => h[n - 1] = g[n - 1]
      BY <2>3, <3>1
    <3>3. h[n] = IF n = 0 THEN DirectTypes ELSE Next(g[n - 1])
      OBVIOUS
    <3> HIDE DEF h
    <3>4. QED BY <3>2, <3>3
  <2>5. h = Up(h, k)
    <3>1. h = [n \in 0 .. k |-> h[n]]
      OBVIOUS
    <3> HIDE DEF h
    <3>2. QED BY <2>4, <3>1
  <2> HIDE DEF h, Up
  <2>6. QED BY <2>2, <2>5
<1> HIDE DEF W
<1>4. m \in W
  BY <1>1, <1>2, <1>3, Upwards
<1>5. \E g : g = Up(g, m)
  BY <1>4 DEF W
<1>6. TypesUpTo = Up(TypesUpTo, m)
  <2>1. TypesUpTo = CHOOSE g : g = Up(g, m)
    BY DEF TypesUpTo, m, Next
  <2> HIDE DEF Up
  <2>2. QED BY <1>5, <2>1
<1>7. 0 \in 0 .. m /\ \A n \in 1 .. m : n \in 0 .. m /\ n # 0
  BY <1>1
<1>8. \A n \in 0 .. m : TypesUpTo[n] = IF n = 0 THEN DirectTypes ELSE Next(TypesUpTo[n - 1])
  <2> DEFINE t == TypesUpTo
  <2>1. t = Up(t, m)
    BY <1>6
  <2> HIDE DEF t
  <2>2. \A n \in 0 .. m : t[n] = Up(t, m)[n]
    BY <2>1
  <2>3. \A n \in 0 .. m : t[n] = IF n = 0 THEN DirectTypes ELSE Next(t[n - 1])
    BY <2>2
  <2>4. QED BY <2>3 DEF t
<1>9. QED BY <1>7, <1>8 DEF m, Next

\* The members of a type, which are of fewer levels than the type
IsComposite(type, members) ==
  /\ ~IsDirect(type) /\ type.of \in {"tuple", "optional_tuple"}
  /\ type.parts \in Seq(members) /\ type.parts # << >>


LEMMA SeqOfMore ==
  ASSUME NEW S, NEW T, S \subseteq T, NEW s \in Seq(S)
  PROVE  s \in Seq(T)
OBVIOUS

\* The members of a type are of the level below.
LEMMA LevelMembers ==
  ASSUME NEW n \in 1 .. MaxNesting, NEW type \in TypesUpTo[n], ~IsDirect(type)
  PROVE  IsComposite(type, TypesUpTo[n - 1])
<1> DEFINE m == MaxNesting
           T == TypesUpTo
           W == { k \in 0 .. m : k = 0 \/ \A t \in T[k] : ~IsDirect(t) => IsComposite(t, T[k - 1]) }
<1>1. m \in Nat
  BY MaxNestingAssumption
<1>2. \A t \in T[0] : IsDirect(t)
  BY Levels DEF DirectTypes, IsDirect
<1>3. \A k \in 1 .. m : T[k] = T[k - 1] \cup Composites(T[k - 1])
  BY Levels
<1> HIDE DEF m, T
<1>4. 0 \in W
  BY <1>1
<1>5. ASSUME NEW k \in 1 .. m, k - 1 \in W PROVE k \in W
  <2>1. ASSUME NEW t \in T[k], ~IsDirect(t) PROVE IsComposite(t, T[k - 1])
    <3>1. CASE t \in Composites(T[k - 1])
      BY <3>1 DEF Composites, IsComposite, IsDirect
    <3>2. CASE t \in T[k - 1]
      <4>1. k - 1 # 0
        BY <1>2, <2>1, <3>2
      <4>2. IsComposite(t, T[(k - 1) - 1])
        BY <1>5, <2>1, <3>2, <4>1
      <4>3. T[(k - 1) - 1] \subseteq T[k - 1]
        <5>1. k - 1 \in 1 .. m
          BY <1>1, <4>1
        <5>2. QED BY <1>3, <5>1
      <4>4. QED BY <4>2, <4>3, SeqOfMore DEF IsComposite
    <3>3. QED BY <1>3, <2>1, <3>1, <3>2
  <2>2. k \in 0 .. m
    BY <1>1
  <2>3. QED BY <2>1, <2>2
<1> HIDE DEF W
<1>6. n \in 0 .. m /\ n # 0
  BY <1>1 DEF m
<1>7. n \in W
  BY <1>1, <1>4, <1>5, <1>6, Upwards
<1>8. QED BY <1>6, <1>7 DEF W, T

\* The levels lie one in the other, up to Nested.
LEMMA LevelsGrow ==
  ASSUME NEW n \in 0 .. MaxNesting
  PROVE  TypesUpTo[n] \subseteq Nested
<1> DEFINE m == MaxNesting
           T == TypesUpTo
           W == { k \in 0 .. m : k >= n => T[n] \subseteq T[k] }
<1>1. m \in Nat
  BY MaxNestingAssumption
<1>2. \A k \in 1 .. m : T[k - 1] \subseteq T[k]
  BY Levels
<1> HIDE DEF m, T
<1>3. 0 \in W
  <2>1. 0 >= n => n = 0
    BY DEF m
  <2>2. 0 \in 0 .. m
    BY <1>1
  <2>3. QED BY <2>1, <2>2
<1>4. ASSUME NEW k \in 1 .. m, k - 1 \in W PROVE k \in W
  <2>1. k \in 0 .. m /\ n \in 0 .. m
    BY <1>1 DEF m
  <2>2. CASE k - 1 >= n
    BY <1>2, <1>4, <2>1, <2>2
  <2>3. CASE ~(k - 1 >= n)
    <3>1. k >= n => k = n
      BY <1>1, <2>1, <2>3
    <3>2. QED BY <2>1, <3>1
  <2>4. QED BY <2>2, <2>3
<1> HIDE DEF W
<1>5. m \in 0 .. m /\ m >= n
  BY <1>1 DEF m
<1>6. m \in W
  BY <1>1, <1>3, <1>4, <1>5, Upwards
<1>7. QED BY <1>5, <1>6 DEF W, T, m, Nested

\* What holds of each type whenever it holds of its members holds of all.
LEMMA TypeInduction ==
  ASSUME NEW P, \A type \in Nested : IsDirect(type) \/ IsComposite(type, P) => type \in P
  PROVE  Nested \subseteq P
<1> DEFINE m == MaxNesting
           T == TypesUpTo
           W == { n \in 0 .. m : T[n] \subseteq P }
<1>1. m \in Nat /\ 0 \in 0 .. m /\ m \in 0 .. m
  BY MaxNestingAssumption
<1>2. \A n \in 0 .. m : T[n] \subseteq Nested
  BY LevelsGrow
<1>3. T[0] \subseteq P
  <2>1. T[0] = DirectTypes
    BY Levels
  <2>2. ASSUME NEW type \in DirectTypes PROVE type \in P
    <3>1. type \in Nested
      BY <1>1, <1>2, <2>1
    <3>2. IsDirect(type)
      BY DEF DirectTypes, IsDirect
    <3>3. QED BY <3>1, <3>2
  <2>3. QED BY <2>1, <2>2
<1>4. ASSUME NEW n \in 1 .. m, n - 1 \in W PROVE n \in W
  <2>1. n \in 0 .. m
    BY <1>1
  <2>2. ASSUME NEW type \in T[n], ~IsDirect(type) PROVE type \in P
    <3>1. IsComposite(type, T[n - 1])
      BY <2>2, LevelMembers
    <3>2. T[n - 1] \subseteq P
      BY <1>4
    <3> HIDE DEF T
    <3>3. IsComposite(type, P)
      BY <3>1, <3>2, SeqOfMore DEF IsComposite
    <3>4. type \in Nested
      BY <1>2, <2>1
    <3>5. QED BY <3>3, <3>4
  <2>3. T[n] \subseteq P
    BY <1>2, <2>1, <2>2
  <2>4. QED BY <2>1, <2>3
<1> HIDE DEF m, T, W
<1>5. 0 \in W
  BY <1>1, <1>3 DEF W
<1>6. m \in W
  BY <1>1, <1>4, <1>5, Upwards
<1>7. QED BY <1>6 DEF W, T, m, Nested

\* A type is of one column, or its members are types.
LEMMA TypeShape ==
  ASSUME NEW type \in Nested
  PROVE  \/ IsDirect(type) /\ type.of \in {"plain", "optional"}
         \/ IsComposite(type, Nested)
<1> DEFINE P == { t \in Nested : IsDirect(t) \/ IsComposite(t, Nested) }
<1>1. ASSUME NEW t \in Nested, IsDirect(t) \/ IsComposite(t, P) PROVE t \in P
  <2>1. P \subseteq Nested
    OBVIOUS
  <2> HIDE DEF P
  <2>2. IsComposite(t, P) => IsComposite(t, Nested)
    BY <2>1, SeqOfMore DEF IsComposite
  <2>3. QED BY <1>1, <2>2 DEF P
<1> HIDE DEF P
<1>2. Nested \subseteq P
  BY <1>1, TypeInduction
<1>3. QED BY <1>2 DEF P, IsDirect

\* What F makes of a function at a type depends on the members of the type.
ByMembers(F, S) ==
  \A g, h \in [Nested -> S] : \A type \in Nested :
    (~IsDirect(type) => \A i \in DOMAIN type.parts : g[type.parts[i]] = h[type.parts[i]])
      => F[g][type] = F[h][type]

\* A template may be defined by what it says of the members: there is a function
\* that is what its definition makes of it.
LEMMA TypeRecursion ==
  ASSUME NEW S, NEW s \in S, NEW F \in [[Nested -> S] -> [Nested -> S]], ByMembers(F, S)
  PROVE  \E g \in [Nested -> S] : g = F[g]
<1> DEFINE m == MaxNesting
           T == TypesUpTo
           G == [Nested -> S]
           some == [type \in Nested |-> s]
           step == [x \in (1 .. m) \X G |-> F[x[2]]]
<1>1. m \in Nat /\ 0 \in 0 .. m /\ m \in 0 .. m
  BY MaxNestingAssumption
<1>2. some \in G /\ F \in [G -> G]
  OBVIOUS
<1> HIDE DEF G, some, m
<1>3. step \in [(1 .. m) \X G -> G]
  BY <1>2
<1>4. PICK f \in [0 .. m -> G] : Follows(f, m, F[some], step)
  <2> HIDE DEF step
  <2>1. F[some] \in G
    BY <1>2
  <2>2. QED BY <1>1, <1>3, <2>1, Recursion
<1>5. \A n \in 1 .. m : n \in 0 .. m /\ n - 1 \in 0 .. m /\ f[n] = F[f[n - 1]]
  <2>1. ASSUME NEW n \in 1 .. m PROVE n \in 0 .. m /\ n - 1 \in 0 .. m /\ f[n] = F[f[n - 1]]
    <3>1. n \in 0 .. m /\ n - 1 \in 0 .. m
      BY <1>1
    <3>2. << n, f[n - 1] >> \in (1 .. m) \X G
      BY <1>4, <3>1
    <3>3. f[n] = step[<< n, f[n - 1] >>]
      BY <1>4 DEF Follows
    <3>4. QED BY <3>1, <3>2, <3>3
  <2>2. QED BY <2>1
<1> HIDE DEF step

\* From one round to the next, the values at one more level are final.
<1> DEFINE W == { n \in 0 .. m : \A type \in T[n] : F[f[n]][type] = f[n][type] }
<1>6. \A n \in 0 .. m : T[n] \subseteq Nested
  BY LevelsGrow DEF m
<1>7. \A n \in 0 .. m : f[n] \in G /\ F[f[n]] \in G
  BY <1>2, <1>4
<1>8. ASSUME NEW g \in G, NEW h \in G, NEW type \in Nested,
             ~IsDirect(type) => \A i \in DOMAIN type.parts : g[type.parts[i]] = h[type.parts[i]]
      PROVE  F[g][type] = F[h][type]
  BY <1>8 DEF ByMembers, G
<1>9. 0 \in W
  <2>1. ASSUME NEW type \in T[0] PROVE F[f[0]][type] = f[0][type]
    <3>1. type \in DirectTypes /\ type \in Nested
      BY <1>1, <1>6, <2>1, Levels
    <3>2. IsDirect(type)
      BY <3>1 DEF DirectTypes, IsDirect
    <3>3. f[0] = F[some] /\ f[0] \in G
      BY <1>1, <1>4 DEF Follows
    <3>4. F[f[0]][type] = F[some][type]
      BY <1>2, <1>8, <3>1, <3>2, <3>3
    <3>5. QED BY <3>3, <3>4
  <2>2. QED BY <1>1, <2>1
<1>10. ASSUME NEW n \in 1 .. m, n - 1 \in W PROVE n \in W
  <2>1. n \in 0 .. m /\ n - 1 \in 0 .. m /\ f[n] = F[f[n - 1]] /\ f[n] \in G /\ f[n - 1] \in G
    BY <1>5, <1>7
  <2>2. \A type \in T[n - 1] : f[n][type] = f[n - 1][type]
    BY <1>10, <2>1
  <2>3. ASSUME NEW type \in T[n] PROVE F[f[n]][type] = f[n][type]
    <3>1. type \in Nested
      BY <1>6, <2>1
    <3>2. ASSUME ~IsDirect(type), NEW i \in DOMAIN type.parts
          PROVE  f[n][type.parts[i]] = f[n - 1][type.parts[i]]
      <4>1. IsComposite(type, T[n - 1])
        BY <3>2, LevelMembers DEF m
      <4>2. type.parts[i] \in T[n - 1]
        <5> HIDE DEF T
        <5>1. QED BY <3>2, <4>1 DEF IsComposite
      <4>3. QED BY <2>2, <4>2
    <3>3. F[f[n]][type] = F[f[n - 1]][type]
      BY <1>8, <2>1, <3>1, <3>2
    <3>4. QED BY <2>1, <3>3
  <2>4. QED BY <2>1, <2>3
<1> HIDE DEF W
<1>11. m \in W
  BY <1>1, <1>9, <1>10, Upwards
<1>12. f[m] = F[f[m]]
  <2>1. \A type \in Nested : F[f[m]][type] = f[m][type]
    BY <1>11 DEF W, m, Nested
  <2>2. f[m] \in G /\ F[f[m]] \in G
    BY <1>1, <1>7
  <2>3. QED BY <2>1, <2>2 DEF G
<1>13. QED BY <1>1, <1>7, <1>12 DEF G

LEMMA TotalFacts ==
  ASSUME NEW ns \in ColumnLists
  PROVE  Total(ns) \in Nat \ {0} /\ Total(ns) = Sums(ns)[Len(ns)]
<1> DEFINE m == Len(ns)
           S == Sums(ns)
<1>1. /\ m \in Nat \ {0} /\ S \in [0 .. m -> Nat]
      /\ \A j \in 1 .. m : ns[j] \in Nat \ {0} /\ S[j] = S[j - 1] + ns[j]
  BY SumsFacts
<1>2. Total(ns) = S[m]
  BY DEF Total
<1> HIDE DEF m, S
<1>3. m \in 1 .. m /\ m - 1 \in 0 .. m
  BY <1>1
<1>4. S[m] = S[m - 1] + ns[m] /\ S[m - 1] \in Nat /\ ns[m] \in Nat \ {0}
  BY <1>1, <1>3
<1>5. QED BY <1>2, <1>4 DEF S, m

\* What g says of the members
OfMembers(g, type) == [i \in DOMAIN type.parts |-> g[type.parts[i]]]

LEMMA PartsFacts ==
  ASSUME NEW type \in Nested, ~IsDirect(type)
  PROVE  /\ Len(type.parts) \in Nat \ {0} /\ DOMAIN type.parts = 1 .. Len(type.parts)
         /\ \A i \in 1 .. Len(type.parts) : type.parts[i] \in Nested
<1> DEFINE ps == type.parts
<1>1. ps \in Seq(Nested) /\ ps # << >>
  BY TypeShape DEF IsComposite
<1> HIDE DEF ps
<1>2. Len(ps) \in Nat \ {0} /\ DOMAIN ps = 1 .. Len(ps) /\ \A i \in 1 .. Len(ps) : ps[i] \in Nested
  BY <1>1
<1>3. QED BY <1>2 DEF ps

LEMMA OfMembersFacts ==
  ASSUME NEW S, NEW g \in [Nested -> S], NEW type \in Nested, ~IsDirect(type)
  PROVE  /\ OfMembers(g, type) \in Seq(S) /\ Len(OfMembers(g, type)) = Len(type.parts)
         /\ \A i \in 1 .. Len(type.parts) : OfMembers(g, type)[i] = g[type.parts[i]]
<1> DEFINE ps == type.parts
           os == [i \in DOMAIN ps |-> g[ps[i]]]
<1>1. OfMembers(g, type) = os
  BY DEF OfMembers
<1>2. Len(ps) \in Nat \ {0} /\ DOMAIN ps = 1 .. Len(ps) /\ \A i \in 1 .. Len(ps) : ps[i] \in Nested
  BY PartsFacts
<1> HIDE DEF ps
<1>3. os \in [1 .. Len(ps) -> S] /\ \A i \in 1 .. Len(ps) : os[i] = g[ps[i]]
  BY <1>2
<1> HIDE DEF os
<1>4. os \in Seq(S) /\ Len(os) = Len(ps)
  BY <1>2, <1>3
<1>5. QED BY <1>1, <1>3, <1>4 DEF ps

\* A type takes at least one column, and as many as its members together.
LEMMA SizeFacts ==
  /\ Size \in [Nested -> Nat \ {0}]
  /\ \A type \in Nested :
       /\ IsDirect(type) => Size[type] = 1
       /\ ~IsDirect(type) => Sizes(type) \in ColumnLists /\ Size[type] = Total(Sizes(type))
<1> DEFINE N == Nat \ {0}
           Sized(g, type) == IF IsDirect(type) THEN 1 ELSE Total(OfMembers(g, type))
           All(g) == [type \in Nested |-> Sized(g, type)]
           F == [g \in [Nested -> N] |-> All(g)]
<1>1. ASSUME NEW g \in [Nested -> N], NEW type \in Nested, ~IsDirect(type)
      PROVE  OfMembers(g, type) \in ColumnLists
  <2> HIDE DEF N
  <2>1. OfMembers(g, type) \in Seq(N) /\ Len(OfMembers(g, type)) # 0
    BY <1>1, PartsFacts, OfMembersFacts
  <2>2. QED BY <2>1 DEF ColumnLists, N
<1>2. ASSUME NEW g \in [Nested -> N], NEW type \in Nested PROVE Sized(g, type) \in N
  BY <1>1, TotalFacts
<1>3. F \in [[Nested -> N] -> [Nested -> N]]
  <2> HIDE DEF N, Sized
  <2>1. QED BY <1>2
<1>4. ByMembers(F, N)
  <2> SUFFICES ASSUME NEW g \in [Nested -> N], NEW h \in [Nested -> N], NEW type \in Nested,
                      ~IsDirect(type) => \A i \in DOMAIN type.parts : g[type.parts[i]] = h[type.parts[i]]
               PROVE  F[g][type] = F[h][type]
    BY DEF ByMembers
  <2>1. ~IsDirect(type) => OfMembers(g, type) = OfMembers(h, type)
    BY DEF OfMembers
  <2>2. Sized(g, type) = Sized(h, type)
    BY <2>1
  <2> HIDE DEF Sized, N
  <2>3. QED BY <2>2
<1>5. \E g \in [Nested -> N] : g = All(g)
  <2>1. 1 \in N
    OBVIOUS
  <2>2. \E g \in [Nested -> N] : g = F[g]
    <3> HIDE DEF F, N
    <3>1. QED BY <1>3, <1>4, <2>1, TypeRecursion
  <2> HIDE DEF All, N
  <2>3. QED BY <2>2
<1>6. Size = CHOOSE g : g = All(g)
  BY DEF Size, OfMembers
<1>7. Size = All(Size)
  <2> HIDE DEF All
  <2>1. QED BY <1>5, <1>6
<1>8. \A type \in Nested : Size[type] = Sized(Size, type)
  <2> DEFINE z == Size
  <2>1. z = All(z)
    BY <1>7
  <2> HIDE DEF z, Sized
  <2>2. \A type \in Nested : z[type] = Sized(z, type)
    BY <2>1
  <2>3. QED BY <2>2 DEF z
<1>9. Size \in [Nested -> N]
  <2> DEFINE P == { type \in Nested : Size[type] \in N }
  <2>1. ASSUME NEW type \in Nested, IsDirect(type) \/ IsComposite(type, P) PROVE type \in P
    <3>1. CASE IsDirect(type)
      BY <1>8, <3>1
    <3>2. CASE IsComposite(type, P)
      <4> DEFINE ps == type.parts
                 ns == [i \in DOMAIN ps |-> Size[ps[i]]]
      <4>1. ps \in Seq(P) /\ ps # << >> /\ ~IsDirect(type)
        BY <3>2 DEF IsComposite
      <4>2. Size[type] = Total(ns)
        BY <1>8, <4>1 DEF OfMembers
      <4> HIDE DEF ps
      <4>3. Len(ps) \in Nat \ {0} /\ DOMAIN ps = 1 .. Len(ps) /\ \A i \in 1 .. Len(ps) : Size[ps[i]] \in N
        <5> DEFINE Q == P
        <5>1. ps \in Seq(Q) /\ ps # << >> /\ \A q \in Q : Size[q] \in N
          BY <4>1
        <5> HIDE DEF Q, N
        <5>2. QED BY <5>1
      <4>4. ns \in Seq(N) /\ Len(ns) # 0
        <5>1. ns \in [1 .. Len(ps) -> N]
          BY <4>3
        <5> HIDE DEF ns
        <5>2. QED BY <4>3, <5>1
      <4> HIDE DEF ns
      <4>5. ns \in ColumnLists
        BY <4>4 DEF ColumnLists
      <4>6. QED BY <4>2, <4>5, TotalFacts
    <3>3. QED BY <2>1, <3>1, <3>2
  <2> HIDE DEF P
  <2>2. \A type \in Nested : Size[type] \in N
    BY <2>1, TypeInduction DEF P
  <2>3. Size = [type \in Nested |-> Size[type]]
    BY <1>7
  <2> HIDE DEF N
  <2>4. QED BY <2>2, <2>3
<1>10. ASSUME NEW type \in Nested, ~IsDirect(type)
       PROVE  Sizes(type) \in ColumnLists /\ Size[type] = Total(Sizes(type))
  <2>1. Sizes(type) = OfMembers(Size, type)
    BY DEF Sizes, OfMembers
  <2> HIDE DEF N
  <2>2. QED BY <1>1, <1>8, <1>9, <1>10, <2>1
<1>11. QED BY <1>8, <1>9, <1>10

\* Where the members begin: each at or behind the one before, all of them in
\* the columns of the type.
LEMMA OffsetFacts ==
  ASSUME NEW type \in Nested, ~IsDirect(type)
  PROVE  LET S == Sums(Sizes(type))
             m == Len(type.parts)
         IN  /\ m \in Nat \ {0} /\ DOMAIN type.parts = 1 .. m
             /\ S \in [0 .. m -> Nat] /\ S[0] = 0 /\ S[m] = Size[type]
             /\ \A i \in 1 .. m :
                  /\ type.parts[i] \in Nested /\ Offsets(type)[i] = S[i - 1]
                  /\ S[i - 1] \in Nat /\ S[i] = S[i - 1] + Size[type.parts[i]] /\ S[i] <= Size[type]
<1> DEFINE ns == Sizes(type)
           S == Sums(ns)
           m == Len(type.parts)
<1>1. ns = OfMembers(Size, type)
  BY DEF Sizes, OfMembers
<1>2. /\ Len(ns) = m /\ m \in Nat \ {0} /\ DOMAIN type.parts = 1 .. m
      /\ \A i \in 1 .. m : type.parts[i] \in Nested /\ ns[i] = Size[type.parts[i]]
  <2> DEFINE N == Nat \ {0}
             os == OfMembers(Size, type)
  <2>1. Size \in [Nested -> N]
    BY SizeFacts
  <2> HIDE DEF N
  <2>2. Len(os) = m /\ \A i \in 1 .. m : os[i] = Size[type.parts[i]]
    BY <2>1, OfMembersFacts
  <2>3. QED BY <1>1, <2>2, PartsFacts
<1>3. ns \in ColumnLists /\ Size[type] = Total(ns)
  BY SizeFacts
<1> HIDE DEF ns
<1>4. /\ S \in [0 .. m -> Nat] /\ S[0] = 0
      /\ \A i \in 1 .. m : S[i] = S[i - 1] + ns[i]
  BY <1>2, <1>3, SumsFacts
<1>5. S[m] = Size[type]
  BY <1>2, <1>3, TotalFacts
<1>6. ASSUME NEW i \in 1 .. m
      PROVE  /\ type.parts[i] \in Nested /\ Offsets(type)[i] = S[i - 1]
             /\ S[i - 1] \in Nat /\ S[i] = S[i - 1] + Size[type.parts[i]] /\ S[i] <= Size[type]
  <2>1. i \in 0 .. m /\ i - 1 \in 0 .. m /\ m \in 0 .. m /\ i <= m /\ i \in 1 .. Len(ns)
    BY <1>2
  <2>2. S[i] <= S[m]
    BY <1>2, <1>3, <2>1, SumsGrow
  <2>3. Offsets(type)[i] = S[i - 1]
    <3>1. DOMAIN ns = 1 .. Len(ns)
      BY <1>3 DEF ColumnLists
    <3>2. Scan(ns)[i] = S[i - 1]
      BY <2>1, <3>1 DEF Scan
    <3>3. QED BY <3>2 DEF Offsets, ns
  <2>4. S[i - 1] \in Nat
    <3> HIDE DEF S
    <3>1. QED BY <1>4, <2>1
  <2>5. QED BY <1>2, <1>4, <1>5, <2>2, <2>3, <2>4
<1> HIDE DEF S
<1>7. QED BY <1>2, <1>4, <1>5, <1>6 DEF S, ns
-----------------------------------------------------------------------------
(* Reading: what the templates return for any type, at any column.         *)

Results == [ok : BOOLEAN, cells : Seq(Values)]

\* The values of all members one behind the other, or an exception
LEMMA MembersFacts ==
  ASSUME NEW reads \in Seq(Results), reads # << >>
  PROVE  /\ Members(reads) \in Results
         /\ (\E i \in 1 .. Len(reads) : ~reads[i].ok) => Members(reads) = Failed
         /\ (\A i \in 1 .. Len(reads) : reads[i].ok) =>
              \E f \in [1 .. Len(reads) -> Seq(Values)] :
                /\ f[1] = reads[1].cells /\ Members(reads) = Read(f[Len(reads)])
                /\ \A n \in 2 .. Len(reads) : f[n] = f[n - 1] \o reads[n].cells
<1> DEFINE V == Values
           m == Len(reads)
           ss == [i \in DOMAIN reads |-> reads[i].cells]
<1>1. /\ m \in Nat \ {0} /\ DOMAIN reads = 1 .. m
      /\ \A i \in 1 .. m : reads[i].ok \in BOOLEAN /\ reads[i].cells \in Seq(V)
  <2> DEFINE R == Results
  <2>1. \A r \in R : r.ok \in BOOLEAN /\ r.cells \in Seq(V)
    BY DEF Results
  <2>2. reads \in Seq(R) /\ reads # << >>
    OBVIOUS
  <2> HIDE DEF R, V
  <2>3. QED BY <2>1, <2>2
<1>2. (\E i \in 1 .. m : ~reads[i].ok) => Members(reads) = Failed
  BY <1>1 DEF Members
<1>3. Failed \in Results
  <2>1. << >> \in Seq(Values)
    OBVIOUS
  <2>2. QED BY <2>1 DEF Failed, Results
<1> HIDE DEF V, m
<1>4. ss \in Seq(Seq(V)) /\ Len(ss) = m /\ ss # << >> /\ \A i \in 1 .. m : ss[i] = reads[i].cells
  <2>1. ss \in [1 .. m -> Seq(V)] /\ \A i \in 1 .. m : ss[i] = reads[i].cells
    BY <1>1
  <2> HIDE DEF ss
  <2>2. QED BY <1>1, <2>1
<1>5. ASSUME \A i \in 1 .. m : reads[i].ok PROVE Members(reads) = Read(FlattenSeq(ss))
  BY <1>1, <1>5 DEF Members
<1> HIDE DEF ss
<1>6. \E f \in [1 .. m -> Seq(V)] :
        /\ f[1] = reads[1].cells /\ FlattenSeq(ss) = f[m]
        /\ \A n \in 2 .. m : f[n] = f[n - 1] \o reads[n].cells
  <2>1. PICK f \in [1 .. Len(ss) -> Seq(V)] :
          /\ f[1] = ss[1] /\ FlattenSeq(ss) = f[Len(ss)]
          /\ \A n \in 2 .. Len(ss) : f[n] = f[n - 1] \o ss[n]
    <3>1. ss \in Seq(Seq(V)) /\ ss # << >>
      BY <1>4
    <3>2. QED BY <3>1, FlattenFacts
  <2>2. 1 \in 1 .. m /\ \A n \in 2 .. m : n \in 1 .. m
    BY <1>1
  <2>3. QED BY <1>4, <2>1, <2>2
<1>7. FlattenSeq(ss) \in Seq(V)
  BY <1>1, <1>6
<1>8. Members(reads) \in Results
  <2>1. CASE \E i \in 1 .. m : ~reads[i].ok
    BY <1>2, <1>3, <2>1
  <2>2. CASE \A i \in 1 .. m : reads[i].ok
    <3>1. \A c \in Seq(V) : Read(c) \in Results
      BY DEF Read, Results, V
    <3>2. QED BY <1>5, <1>7, <2>2, <3>1
  <2>3. QED BY <2>1, <2>2
<1>9. QED BY <1>2, <1>5, <1>6, <1>8 DEF V, m

LEMMA CellIsValue ==
  ASSUME NEW r \in Nat, NEW c \in Nat
  PROVE  Cell(r, c) \in Values /\ Cell(r, c) # Failure
BY DEF Cell, Values, Null, Failure

LEMMA ReadAtFacts ==
  ASSUME NEW at \in Places
  PROVE  ReadAt(at) \in Values \cup {Failure}
<1>1. at.view.row \in Nat /\ at.view.offset + at.column \in Nat
  BY DEF Places, Views
<1>2. Cell(at.view.row, at.view.offset + at.column) \in Values
  BY <1>1, CellIsValue
<1>3. QED BY <1>2 DEF ReadAt, RowRead, TableRead, ResultRead

LEMMA GetDirectFacts ==
  ASSUME NEW type, NEW at \in Places
  PROVE  GetDirect(type, at) \in Results
<1>1. ReadAt(at) = Failure => GetDirect(type, at) = Failed
  BY DEF GetDirect
<1>2. GetDirect(type, at) \in {Failed, Read(<< ReadAt(at) >>)}
  BY DEF GetDirect
<1>3. Failed \in Results
  <2>1. << >> \in Seq(Values)
    OBVIOUS
  <2>2. QED BY <2>1 DEF Failed, Results
<1>4. ReadAt(at) \in Values => Read(<< ReadAt(at) >>) \in Results
  <2>1. \A v \in Values : << v >> \in Seq(Values)
    OBVIOUS
  <2>2. QED BY <2>1 DEF Read, Results
<1>5. QED BY <1>1, <1>2, <1>3, <1>4, ReadAtFacts

\* row::get< T >() for a composite
Composed(g, type, at) ==
  LET n == Size[type]
      s == SliceOf(at.view, at.column, n)
  IN  IF ~CanSlice(at.view, at.column, n) THEN Failed
      ELSE IF type.of = "optional_tuple" /\ AllNull(at.kind, s) THEN Read(<< Null >>)
      ELSE Members([i \in DOMAIN type.parts |-> g[type.parts[i]][Place(at.kind, s, Offsets(type)[i])]])

LEMMA PlaceInSlice ==
  ASSUME NEW type \in Nested, ~IsDirect(type), NEW at \in Places, NEW i \in DOMAIN type.parts
  PROVE  Place(at.kind, SliceOf(at.view, at.column, Size[type]), Offsets(type)[i]) \in Places
<1>1. Offsets(type)[i] \in Nat
  BY OffsetFacts
<1>2. Size[type] \in Nat
  BY SizeFacts
<1>3. SliceOf(at.view, at.column, Size[type]) \in Views
  BY <1>2 DEF Places, Views, SliceOf, Row
<1>4. at.kind \in Kinds
  BY DEF Places
<1>5. QED BY <1>1, <1>3, <1>4 DEF Place, Places

LEMMA ComposedFacts ==
  ASSUME NEW g \in [Nested -> [Places -> Results]], NEW type \in Nested, ~IsDirect(type), NEW at \in Places
  PROVE  Composed(g, type, at) \in Results
<1> DEFINE s == SliceOf(at.view, at.column, Size[type])
           ps == type.parts
           reads == [i \in DOMAIN ps |-> g[ps[i]][Place(at.kind, s, Offsets(type)[i])]]
           R == Results
<1>1. Composed(g, type, at) \in {Failed, Read(<< Null >>), Members(reads)}
  BY DEF Composed
<1>2. Failed \in Results /\ Read(<< Null >>) \in Results
  <2>1. << >> \in Seq(Values) /\ << Null >> \in Seq(Values)
    BY DEF Values
  <2>2. QED BY <2>1 DEF Failed, Read, Results
<1>3. /\ Len(ps) \in Nat \ {0} /\ DOMAIN ps = 1 .. Len(ps)
      /\ \A i \in 1 .. Len(ps) : ps[i] \in Nested
  BY OffsetFacts
<1>4. \A i \in 1 .. Len(ps) : Place(at.kind, s, Offsets(type)[i]) \in Places
  BY <1>3, PlaceInSlice
<1> HIDE DEF s, ps, R
<1>5. reads \in [1 .. Len(ps) -> R]
  BY <1>3, <1>4 DEF R
<1> HIDE DEF reads
<1>6. reads \in Seq(R) /\ reads # << >>
  BY <1>3, <1>5
<1>7. Members(reads) \in Results
  BY <1>6, MembersFacts DEF R
<1>8. QED BY <1>1, <1>2, <1>7 DEF reads, ps, s

\* get<>() is what its templates say, for a type of any nesting.
LEMMA GetFacts ==
  ASSUME NEW type \in Nested, NEW at \in Places
  PROVE  Get[type][at] = IF IsDirect(type) THEN GetDirect(type, at) ELSE Composed(Get, type, at)
<1> DEFINE S == [Places -> Results]
           Got(g, t, a) == IF IsDirect(t) THEN GetDirect(t, a) ELSE Composed(g, t, a)
           All(g) == [t \in Nested |-> [a \in Places |-> Got(g, t, a)]]
           F == [g \in [Nested -> S] |-> All(g)]
<1>1. ASSUME NEW g \in [Nested -> S], NEW t \in Nested, NEW a \in Places PROVE Got(g, t, a) \in Results
  BY GetDirectFacts, ComposedFacts
<1>2. F \in [[Nested -> S] -> [Nested -> S]]
  <2>1. ASSUME NEW g \in [Nested -> S], NEW t \in Nested PROVE [a \in Places |-> Got(g, t, a)] \in S
    <3> HIDE DEF Got
    <3>1. QED BY <1>1
  <2> HIDE DEF S, Got
  <2>2. QED BY <2>1
<1>3. ByMembers(F, S)
  <2> SUFFICES ASSUME NEW g \in [Nested -> S], NEW h \in [Nested -> S], NEW t \in Nested,
                      ~IsDirect(t) => \A i \in DOMAIN t.parts : g[t.parts[i]] = h[t.parts[i]]
               PROVE  F[g][t] = F[h][t]
    BY DEF ByMembers
  <2>1. ASSUME NEW a \in Places PROVE Got(g, t, a) = Got(h, t, a)
    BY DEF Composed
  <2> HIDE DEF Got, S
  <2>2. QED BY <2>1
<1>4. \E g \in [Nested -> S] : g = All(g)
  <2>1. \E s : s \in S
    <3>1. << >> \in Seq(Values)
      OBVIOUS
    <3>2. Failed \in Results
      BY <3>1 DEF Failed, Results
    <3>3. [a \in Places |-> Failed] \in S
      BY <3>2
    <3>4. QED BY <3>3
  <2>2. PICK s \in S : TRUE
    BY <2>1
  <2>3. \E g \in [Nested -> S] : g = F[g]
    <3> HIDE DEF F, S
    <3>1. QED BY <1>2, <1>3, <2>2, TypeRecursion
  <2> HIDE DEF All, S
  <2>4. QED BY <2>3
<1>5. Get = CHOOSE g : g = All(g)
  <2> DEFINE Body(g, t, a) ==
               LET n == Size[t]
                   s == SliceOf(a.view, a.column, n)
               IN  CASE IsDirect(t) -> GetDirect(t, a)
                     [] ~IsDirect(t) /\ ~CanSlice(a.view, a.column, n) -> Failed
                     [] /\ t.of = "optional_tuple" /\ CanSlice(a.view, a.column, n)
                        /\ AllNull(a.kind, s) -> Read(<< Null >>)
                     [] OTHER -> Members([i \in DOMAIN t.parts |->
                                            g[t.parts[i]][Place(a.kind, s, Offsets(t)[i])]])
  <2>1. Get = CHOOSE g : g = [t \in Nested |-> [a \in Places |-> Body(g, t, a)]]
    BY DEF Get
  <2>2. \A g, t, a : Body(g, t, a) = Got(g, t, a)
    <3> TAKE g, t, a
    <3>1. IsDirect(t) => t.of # "optional_tuple"
      BY DEF IsDirect
    <3>2. QED BY <3>1 DEF Composed
  <2> HIDE DEF Body, Got
  <2>3. QED BY <2>1, <2>2
<1>6. Get = All(Get)
  <2> HIDE DEF All
  <2>1. QED BY <1>4, <1>5
<1>7. Get[type][at] = Got(Get, type, at)
  <2> DEFINE z == Get
  <2>1. z = All(z)
    BY <1>6
  <2> HIDE DEF z, Got
  <2>2. z[type][at] = Got(z, type, at)
    BY <2>1
  <2>3. QED BY <2>2 DEF z
<1>8. QED BY <1>7
-----------------------------------------------------------------------------
(* Taking: the reference, which knows no columns.                          *)

Portions == [ok : BOOLEAN, cells : Seq(Values), rest : Seq(Values)]
Takers == [Seq(Values) -> Portions]

LEMMA FirstFacts ==
  ASSUME NEW V, NEW cells \in Seq(V), NEW n \in Nat
  PROVE  /\ First(cells, n) \in Seq(V)
         /\ n <= Len(cells) => First(cells, n) = [i \in 1 .. n |-> cells[i]]
<1> DEFINE m == Len(cells)
           k == IF n <= m THEN n ELSE m
<1>1. m \in Nat /\ DOMAIN cells = 1 .. m /\ \A i \in 1 .. m : cells[i] \in V
  OBVIOUS
<1> HIDE DEF m
<1>2. k \in Nat /\ (DOMAIN cells) \cap (1 .. n) = 1 .. k /\ (n <= m => k = n)
  BY <1>1
<1>3. First(cells, n) = [i \in 1 .. k |-> cells[i]]
  BY <1>2 DEF First
<1>4. \A i \in 1 .. k : cells[i] \in V
  BY <1>1
<1> HIDE DEF k
<1>5. [i \in 1 .. k |-> cells[i]] \in Seq(V)
  BY <1>2, <1>4
<1>6. QED BY <1>2, <1>3, <1>5 DEF m

LEMMA LeftFacts ==
  ASSUME NEW V, NEW cells \in Seq(V), NEW n \in Nat
  PROVE  /\ Left(cells, n) \in Seq(V)
         /\ n <= Len(cells) => /\ Len(Left(cells, n)) = Len(cells) - n
                               /\ \A i \in 1 .. Len(cells) - n : Left(cells, n)[i] = cells[n + i]
BY DEF Left

LEMMA LeftLeft ==
  ASSUME NEW V, NEW cells \in Seq(V), NEW a \in Nat, NEW b \in Nat, a + b <= Len(cells)
  PROVE  Left(Left(cells, a), b) = Left(cells, a + b) /\ Left(cells, 0) = cells
<1> DEFINE m == Len(cells)
           l == Left(cells, a)
           ll == Left(l, b)
           r == Left(cells, a + b)
<1>1. m \in Nat /\ a <= m /\ a + b \in Nat
  OBVIOUS
<1>2. l \in Seq(V) /\ Len(l) = m - a /\ \A i \in 1 .. m - a : l[i] = cells[a + i]
  <2>1. a <= Len(cells)
    BY <1>1
  <2>2. QED BY <2>1, LeftFacts
<1> HIDE DEF l
<1>3. ll \in Seq(V) /\ Len(ll) = (m - a) - b /\ \A i \in 1 .. (m - a) - b : ll[i] = l[b + i]
  <2>1. b <= Len(l) /\ l \in Seq(V)
    BY <1>1, <1>2
  <2>2. Left(l, b) \in Seq(V) /\ Len(Left(l, b)) = Len(l) - b
        /\ \A i \in 1 .. Len(l) - b : Left(l, b)[i] = l[b + i]
    BY <2>1, LeftFacts
  <2>3. QED BY <1>2, <2>2
<1>4. r \in Seq(V) /\ Len(r) = m - (a + b) /\ \A i \in 1 .. m - (a + b) : r[i] = cells[(a + b) + i]
  <2> DEFINE n == a + b
  <2>1. n \in Nat /\ n <= Len(cells)
    BY <1>1
  <2> HIDE DEF n
  <2>2. Left(cells, n) \in Seq(V) /\ Len(Left(cells, n)) = Len(cells) - n
        /\ \A i \in 1 .. Len(cells) - n : Left(cells, n)[i] = cells[n + i]
    BY <2>1, LeftFacts
  <2>3. QED BY <2>2 DEF n
<1> HIDE DEF ll, r, m
<1>5. \A i \in 1 .. m - (a + b) : b + i \in 1 .. m - a /\ a + (b + i) = (a + b) + i /\ i \in 1 .. (m - a) - b
  BY <1>1
<1>6. Len(ll) = Len(r) /\ \A i \in 1 .. Len(r) : ll[i] = r[i]
  BY <1>1, <1>2, <1>3, <1>4, <1>5
<1>7. ll = r
  BY <1>3, <1>4, <1>6
<1>8. Left(cells, 0) = cells
  <2> DEFINE z == Left(cells, 0)
  <2>1. z \in Seq(V) /\ Len(z) = m - 0 /\ \A i \in 1 .. m - 0 : z[i] = cells[0 + i]
    BY <1>1, LeftFacts DEF m
  <2> HIDE DEF z
  <2>2. \A i \in 1 .. m : z[i] = cells[i]
    BY <1>1, <2>1
  <2>3. Len(z) = Len(cells)
    BY <1>1, <2>1 DEF m
  <2>4. z = cells
    BY <2>1, <2>2, <2>3 DEF m
  <2>5. QED BY <2>4 DEF z
<1>9. QED BY <1>7, <1>8 DEF ll, l, r

LEMMA TakeNextFacts ==
  ASSUME NEW b \in Portions, NEW take \in Takers
  PROVE  /\ TakeNext(b, take) \in Portions /\ take[b.rest] \in Portions
         /\ TakeNext(b, take).ok <=> b.ok /\ take[b.rest].ok
         /\ TakeNext(b, take).cells = b.cells \o take[b.rest].cells
         /\ TakeNext(b, take).rest = take[b.rest].rest
<1> DEFINE t == take[b.rest]
           S == Seq(Values)
<1>1. b.ok \in BOOLEAN /\ b.cells \in S /\ b.rest \in S
  BY DEF Portions
<1>2. t \in Portions
  BY <1>1 DEF Takers
<1>3. t.ok \in BOOLEAN /\ t.cells \in S /\ t.rest \in S
  BY <1>2 DEF Portions
<1>4. b.cells \o t.cells \in S
  BY <1>1, <1>3
<1> HIDE DEF S, t
<1>5. TakeNext(b, take) = Portion(b.ok /\ t.ok, b.cells \o t.cells, t.rest)
  BY DEF TakeNext, t
<1>6. (b.ok /\ t.ok) \in BOOLEAN
  OBVIOUS
<1>7. Portion(b.ok /\ t.ok, b.cells \o t.cells, t.rest) \in Portions
  BY <1>3, <1>4, <1>6 DEF Portion, Portions, S
<1>8. /\ Portion(b.ok /\ t.ok, b.cells \o t.cells, t.rest).ok <=> b.ok /\ t.ok
      /\ Portion(b.ok /\ t.ok, b.cells \o t.cells, t.rest).cells = b.cells \o t.cells
      /\ Portion(b.ok /\ t.ok, b.cells \o t.cells, t.rest).rest = t.rest
  <2> DEFINE o == b.ok /\ t.ok
             c == b.cells \o t.cells
             r == t.rest
  <2>1. Portion(o, c, r).cells = c /\ Portion(o, c, r).rest = r /\ Portion(o, c, r).ok = o
    <3> HIDE DEF o, c, r
    <3>1. QED BY DEF Portion
  <2>2. QED BY <2>1
<1>9. QED BY <1>2, <1>5, <1>7, <1>8 DEF t

\* f is what has been taken after each member.
TakenInTurn(f, takes, cells) ==
  /\ f[0] = Portion(TRUE, << >>, cells)
  /\ \A n \in 1 .. Len(takes) : f[n] = TakeNext(f[n - 1], takes[n])

\* What has been taken after each member, and in the end
LEMMA OneByOneFacts ==
  ASSUME NEW takes \in Seq(Takers), NEW cells \in Seq(Values)
  PROVE  \E f \in [0 .. Len(takes) -> Portions] :
           TakenInTurn(f, takes, cells) /\ OneByOne(takes, cells) = f[Len(takes)]
<1> DEFINE m == Len(takes)
           none == Portion(TRUE, << >>, cells)
           K == Portions
           Turn(g) == [n \in 0 .. m |-> IF n = 0 THEN none ELSE TakeNext(g[n - 1], takes[n])]
           h == CHOOSE g : g = Turn(g)
           step == [x \in (1 .. m) \X K |-> TakeNext(x[2], takes[x[1]])]
<1>1. m \in Nat /\ \A n \in 1 .. m : takes[n] \in Takers
  OBVIOUS
<1>2. OneByOne(takes, cells) = h[m]
  BY DEF OneByOne
<1>3. none \in K
  <2>1. << >> \in Seq(Values)
    OBVIOUS
  <2>2. QED BY <2>1 DEF Portion, Portions
<1>4. \A n \in 1 .. m : \A b \in K : TakeNext(b, takes[n]) \in K
  BY <1>1, TakeNextFacts
<1> HIDE DEF m, none, K
<1>5. step \in [(1 .. m) \X K -> K]
  <2>1. ASSUME NEW x \in (1 .. m) \X K PROVE TakeNext(x[2], takes[x[1]]) \in K
    BY <1>4
  <2>2. QED BY <2>1
<1>6. PICK f \in [0 .. m -> K] : Follows(f, m, none, step)
  <2> HIDE DEF step
  <2>1. QED BY <1>1, <1>3, <1>5, Recursion
<1>7. \A n \in 1 .. m : f[n] = TakeNext(f[n - 1], takes[n])
  <2>1. ASSUME NEW n \in 1 .. m PROVE f[n] = TakeNext(f[n - 1], takes[n])
    <3>1. n - 1 \in 0 .. m
      BY <1>1
    <3>2. << n, f[n - 1] >> \in (1 .. m) \X K
      BY <3>1
    <3>3. f[n] = step[<< n, f[n - 1] >>]
      BY <1>6 DEF Follows
    <3>4. QED BY <3>2, <3>3
  <2>2. QED BY <2>1
<1>8. f = Turn(f)
  <2>1. ASSUME NEW n \in 0 .. m PROVE f[n] = IF n = 0 THEN none ELSE TakeNext(f[n - 1], takes[n])
    <3>1. n # 0 => n \in 1 .. m
      BY <1>1
    <3>2. f[0] = none
      BY <1>6 DEF Follows
    <3>3. QED BY <1>7, <3>1, <3>2
  <2>2. \A n \in 0 .. m : f[n] = Turn(f)[n]
    BY <2>1
  <2> HIDE DEF step
  <2>3. QED BY <2>2
<1>9. h = Turn(h)
  <2> HIDE DEF Turn
  <2>1. QED BY <1>8
<1> HIDE DEF h, step
<1>10. h[0] = none /\ \A n \in 1 .. m : h[n] = TakeNext(h[n - 1], takes[n])
  <2>1. 0 \in 0 .. m /\ \A n \in 1 .. m : n \in 0 .. m /\ n # 0
    BY <1>1
  <2>2. \A n \in 0 .. m : h[n] = Turn(h)[n]
    BY <1>9
  <2>3. QED BY <2>1, <2>2
<1>11. h \in [0 .. m -> K]
  <2> DEFINE W == { n \in 0 .. m : h[n] \in K }
  <2> HIDE DEF Turn
  <2>1. 0 \in W
    BY <1>1, <1>3, <1>10
  <2>2. ASSUME NEW n \in 1 .. m, n - 1 \in W PROVE n \in W
    <3>1. n \in 0 .. m
      BY <1>1
    <3>2. QED BY <1>4, <1>10, <2>2, <3>1
  <2> HIDE DEF W
  <2>3. \A n \in 0 .. m : n \in W
    BY <1>1, <2>1, <2>2, Upwards
  <2>4. h = [n \in 0 .. m |-> h[n]]
    BY <1>9 DEF Turn
  <2>5. QED BY <2>3, <2>4 DEF W
<1>12. QED BY <1>2, <1>10, <1>11 DEF m, none, K, TakenInTurn

\* What a type of one column takes, and what one of members takes
TakenDirect(type, cells) ==
  Portion(type.of = "optional" \/ First(cells, 1) # << Null >>, First(cells, 1), Left(cells, 1))

TakenComposite(g, type, cells) ==
  IF type.of = "optional_tuple" /\ First(cells, Size[type]) = [i \in 1 .. Size[type] |-> Null]
    THEN Portion(TRUE, << Null >>, Left(cells, Size[type]))
    ELSE OneByOne(OfMembers(g, type), cells)

LEMMA TakenTypes ==
  ASSUME NEW type \in Nested, NEW cells \in Seq(Values), NEW g,
         ~IsDirect(type) => OfMembers(g, type) \in Seq(Takers)
  PROVE  /\ TakenDirect(type, cells) \in Portions
         /\ ~IsDirect(type) => TakenComposite(g, type, cells) \in Portions
<1>1. First(cells, 1) \in Seq(Values) /\ Left(cells, 1) \in Seq(Values)
  BY FirstFacts, LeftFacts
<1>2. TakenDirect(type, cells) \in Portions
  BY <1>1 DEF TakenDirect, Portion, Portions
<1>3. ASSUME ~IsDirect(type) PROVE TakenComposite(g, type, cells) \in Portions
  <2> DEFINE n == Size[type]
             ts == OfMembers(g, type)
  <2>1. n \in Nat
    BY SizeFacts
  <2>2. << Null >> \in Seq(Values)
    BY DEF Values
  <2>3. Left(cells, n) \in Seq(Values)
    BY <2>1, LeftFacts
  <2>4. Portion(TRUE, << Null >>, Left(cells, n)) \in Portions
    BY <2>2, <2>3 DEF Portion, Portions
  <2>5. OneByOne(ts, cells) \in Portions
    <3>1. ts \in Seq(Takers)
      BY <1>3
    <3> HIDE DEF ts
    <3>2. PICK f \in [0 .. Len(ts) -> Portions] : OneByOne(ts, cells) = f[Len(ts)]
      BY <3>1, OneByOneFacts
    <3>3. Len(ts) \in 0 .. Len(ts)
      BY <3>1
    <3>4. QED BY <3>2, <3>3
  <2>6. QED BY <2>4, <2>5 DEF TakenComposite
<1>4. QED BY <1>2, <1>3

\* So is the reference what its definition says.
LEMMA TakeFacts ==
  /\ Take \in [Nested -> Takers]
  /\ \A type \in Nested : \A cells \in Seq(Values) :
       Take[type][cells] = IF IsDirect(type) THEN TakenDirect(type, cells)
                           ELSE TakenComposite(Take, type, cells)
<1> DEFINE V == Seq(Values)
           Took(g, t, c) == IF IsDirect(t) THEN TakenDirect(t, c) ELSE TakenComposite(g, t, c)
           All(g) == [t \in Nested |-> [c \in V |-> Took(g, t, c)]]
           F == [g \in [Nested -> Takers] |-> All(g)]
<1>1. ASSUME NEW g, NEW t \in Nested, ~IsDirect(t) => OfMembers(g, t) \in Seq(Takers)
      PROVE  [c \in V |-> Took(g, t, c)] \in Takers
  <2>1. ASSUME NEW c \in V PROVE Took(g, t, c) \in Portions
    BY <1>1, TakenTypes
  <2> HIDE DEF Took
  <2>2. QED BY <2>1 DEF Takers
<1>2. F \in [[Nested -> Takers] -> [Nested -> Takers]]
  <2>1. ASSUME NEW g \in [Nested -> Takers], NEW t \in Nested PROVE [c \in V |-> Took(g, t, c)] \in Takers
    <3>1. ~IsDirect(t) => OfMembers(g, t) \in Seq(Takers)
      BY OfMembersFacts
    <3> HIDE DEF Took, V
    <3>2. QED BY <1>1, <3>1
  <2> HIDE DEF Took, V
  <2>2. QED BY <2>1
<1>3. ByMembers(F, Takers)
  <2> SUFFICES ASSUME NEW g \in [Nested -> Takers], NEW h \in [Nested -> Takers], NEW t \in Nested,
                      ~IsDirect(t) => \A i \in DOMAIN t.parts : g[t.parts[i]] = h[t.parts[i]]
               PROVE  F[g][t] = F[h][t]
    BY DEF ByMembers
  <2>1. ~IsDirect(t) => OfMembers(g, t) = OfMembers(h, t)
    BY DEF OfMembers
  <2>2. ASSUME NEW c \in V PROVE Took(g, t, c) = Took(h, t, c)
    BY <2>1 DEF TakenComposite
  <2> HIDE DEF Took, V
  <2>3. QED BY <2>2
<1>4. \E g \in [Nested -> Takers] : g = All(g)
  <2>1. PICK s \in Takers : TRUE
    <3>1. << >> \in V
      OBVIOUS
    <3>2. Portion(TRUE, << >>, << >>) \in Portions
      BY <3>1 DEF Portion, Portions
    <3>3. [c \in V |-> Portion(TRUE, << >>, << >>)] \in Takers
      BY <3>2 DEF Takers
    <3>4. QED BY <3>3
  <2>2. \E g \in [Nested -> Takers] : g = F[g]
    <3> HIDE DEF F
    <3>1. QED BY <1>2, <1>3, <2>1, TypeRecursion
  <2> HIDE DEF All
  <2>3. QED BY <2>2
<1>5. Take = CHOOSE g : g = All(g)
  <2> DEFINE Body(g, t, c) ==
               LET n == Size[t]
               IN  CASE IsDirect(t) -> Portion(t.of = "optional" \/ First(c, 1) # << Null >>, First(c, 1), Left(c, 1))
                     [] t.of = "optional_tuple" /\ First(c, n) = [i \in 1 .. n |-> Null] ->
                          Portion(TRUE, << Null >>, Left(c, n))
                     [] OTHER -> OneByOne([i \in DOMAIN t.parts |-> g[t.parts[i]]], c)
  <2>1. Take = CHOOSE g : g = [t \in Nested |-> [c \in V |-> Body(g, t, c)]]
    BY DEF Take
  <2>2. \A g, t, c : Body(g, t, c) = Took(g, t, c)
    <3> TAKE g, t, c
    <3>1. IsDirect(t) => t.of # "optional_tuple"
      BY DEF IsDirect
    <3>2. QED BY <3>1 DEF TakenDirect, TakenComposite, OfMembers
  <2> HIDE DEF Body, Took
  <2>3. QED BY <2>1, <2>2
<1>6. Take = All(Take)
  <2> HIDE DEF All
  <2>1. QED BY <1>4, <1>5
<1>7. \A t \in Nested : Take[t] = [c \in V |-> Took(Take, t, c)]
  <2> DEFINE z == Take
  <2>1. z = All(z)
    BY <1>6
  <2> HIDE DEF z, Took
  <2>2. \A t \in Nested : z[t] = [c \in V |-> Took(z, t, c)]
    BY <2>1
  <2>3. QED BY <2>2 DEF z
<1>8. Take \in [Nested -> Takers]
  <2> DEFINE P == { t \in Nested : Take[t] \in Takers }
  <2>1. ASSUME NEW t \in Nested, IsDirect(t) \/ IsComposite(t, P) PROVE t \in P
    <3>1. ~IsDirect(t) => OfMembers(Take, t) \in Seq(Takers)
      <4> SUFFICES ASSUME IsComposite(t, P) PROVE OfMembers(Take, t) \in Seq(Takers)
        BY <2>1
      <4> DEFINE ps == t.parts
                 Q == P
                 ts == [i \in DOMAIN ps |-> Take[ps[i]]]
      <4>1. ps \in Seq(Q) /\ OfMembers(Take, t) = ts /\ \A q \in Q : Take[q] \in Takers
        BY DEF IsComposite, OfMembers
      <4> HIDE DEF ps, Q
      <4>2. ts \in [1 .. Len(ps) -> Takers] /\ Len(ps) \in Nat
        BY <4>1
      <4> HIDE DEF ts
      <4>3. QED BY <4>1, <4>2
    <3>2. Take[t] = [c \in V |-> Took(Take, t, c)]
      BY <1>7
    <3> HIDE DEF Took, V
    <3>3. QED BY <1>1, <3>1, <3>2
  <2> HIDE DEF P
  <2>2. \A t \in Nested : Take[t] \in Takers
    BY <2>1, TypeInduction DEF P
  <2>3. Take = [t \in Nested |-> Take[t]]
    BY <1>6
  <2>4. QED BY <2>2, <2>3
<1>9. ASSUME NEW type \in Nested, NEW cells \in V
      PROVE  Take[type][cells] = Took(Take, type, cells)
  <2>1. Take[type] = [c \in V |-> Took(Take, type, c)]
    BY <1>7
  <2> HIDE DEF Took, V
  <2>2. QED BY <2>1
<1>10. QED BY <1>8, <1>9

\* What is read when something has been taken
ReadOf(t) == IF t.ok THEN Read(t.cells) ELSE Failed

\* f is what has been taken after each member, where t is what each takes.
Chained(f, t, m) ==
  /\ f[0].ok = TRUE /\ f[0].cells = << >>
  /\ \A i \in 1 .. m : /\ f[i].ok <=> f[i - 1].ok /\ t[i].ok
                       /\ f[i].cells = f[i - 1].cells \o t[i].cells

\* Conversions of the members one by one are the conversion of all.
LEMMA MembersInTurn ==
  ASSUME NEW m \in Nat \ {0}, NEW t \in [1 .. m -> Portions], NEW f \in [0 .. m -> Portions],
         Chained(f, t, m),
         NEW reads \in Seq(Results), Len(reads) = m,
         \A i \in 1 .. m : reads[i] = ReadOf(t[i])
  PROVE  Members(reads) = ReadOf(f[m])
<1> USE DEF Chained
<1> DEFINE S == Seq(Values)
<1>1. reads # << >> /\ \A i \in 1 .. m : t[i].ok \in BOOLEAN /\ t[i].cells \in S
  BY DEF Portions
<1>2. \A i \in 1 .. m : /\ reads[i].ok <=> t[i].ok
                        /\ t[i].ok => reads[i].cells = t[i].cells
  <2>1. ASSUME NEW i \in 1 .. m, t[i].ok PROVE reads[i].ok /\ reads[i].cells = t[i].cells
    <3>1. reads[i] = Read(t[i].cells)
      BY <2>1 DEF ReadOf
    <3>2. QED BY <3>1 DEF Read
  <2>2. ASSUME NEW i \in 1 .. m, ~t[i].ok PROVE ~reads[i].ok
    <3>1. reads[i] = Failed
      BY <2>2 DEF ReadOf
    <3>2. QED BY <3>1 DEF Failed
  <2>3. QED BY <2>1, <2>2
<1> HIDE DEF S
<1>3. ASSUME NEW j \in 1 .. m, ~t[j].ok PROVE Members(reads) = ReadOf(f[m])
  <2> DEFINE W == { i \in 0 .. m : i >= j => ~f[i].ok }
  <2>1. 0 \in W
    OBVIOUS
  <2>2. ASSUME NEW i \in 1 .. m, i - 1 \in W PROVE i \in W
    <3>1. i \in 0 .. m
      OBVIOUS
    <3>2. CASE i - 1 >= j
      BY <2>2, <3>1, <3>2
    <3>3. CASE ~(i - 1 >= j)
      <4>1. i >= j => i = j
        BY <3>3
      <4>2. i = j => ~f[i].ok
        BY <1>3
      <4>3. QED BY <3>1, <4>1, <4>2
    <3>4. QED BY <3>2, <3>3
  <2> HIDE DEF W
  <2>3. m \in 0 .. m /\ m >= j
    OBVIOUS
  <2>4. m \in W
    BY <2>1, <2>2, <2>3, Upwards
  <2>5. ~f[m].ok
    BY <2>3, <2>4 DEF W
  <2>6. Members(reads) = Failed
    BY <1>1, <1>2, <1>3, MembersFacts
  <2>7. QED BY <2>5, <2>6 DEF ReadOf
<1>4. ASSUME \A i \in 1 .. m : t[i].ok PROVE Members(reads) = ReadOf(f[m])
  <2>1. PICK h \in [1 .. m -> S] :
          /\ h[1] = reads[1].cells /\ Members(reads) = Read(h[m])
          /\ \A n \in 2 .. m : h[n] = h[n - 1] \o reads[n].cells
    BY <1>1, <1>2, <1>4, MembersFacts DEF S
  <2> DEFINE W == { i \in 0 .. m : f[i].ok /\ (i # 0 => f[i].cells = h[i]) }
  <2>2. 0 \in W
    OBVIOUS
  <2>3. ASSUME NEW i \in 1 .. m, i - 1 \in W PROVE i \in W
    <3>1. i \in 0 .. m /\ f[i].ok
      <4>1. f[i - 1].ok /\ t[i].ok
        BY <1>4, <2>3
      <4>2. f[i].ok <=> f[i - 1].ok /\ t[i].ok
        OBVIOUS
      <4>3. f[i].ok
        BY <4>1, <4>2
      <4>4. i \in 0 .. m
        OBVIOUS
      <4>5. QED BY <4>3, <4>4
    <3>2. f[i].cells = f[i - 1].cells \o t[i].cells /\ reads[i].cells = t[i].cells /\ t[i].cells \in S
      BY <1>1, <1>2, <1>4
    <3>3. CASE i = 1
      <4>1. f[i - 1].cells = << >>
        BY <3>3
      <4>2. << >> \o t[i].cells = t[i].cells
        BY <3>2 DEF S
      <4>3. f[i].cells = h[i]
        BY <2>1, <3>2, <3>3, <4>1, <4>2
      <4>4. QED BY <3>1, <4>3
    <3>4. CASE i # 1
      <4>1. i \in 2 .. m /\ i - 1 # 0
        BY <3>4
      <4>2. f[i - 1].cells = h[i - 1]
        BY <2>3, <4>1
      <4>3. f[i].cells = h[i]
        BY <2>1, <3>2, <4>1, <4>2
      <4>4. QED BY <3>1, <4>3
    <3>5. QED BY <3>3, <3>4
  <2> HIDE DEF W
  <2>4. m \in 0 .. m /\ m # 0
    OBVIOUS
  <2>5. m \in W
    BY <2>2, <2>3, <2>4, Upwards
  <2>6. f[m].ok /\ f[m].cells = h[m]
    BY <2>4, <2>5 DEF W
  <2>7. QED BY <2>1, <2>6 DEF ReadOf
<1>5. QED BY <1>3, <1>4
-----------------------------------------------------------------------------
(* Reading by columns is taking from the front.                            *)

\* n columns from a place on lie in its row, and are the first of the cells.
Shows(at, cells, n) ==
  /\ n <= Len(cells) /\ at.column + n <= at.view.columns
  /\ at.view.row < rows /\ at.view.offset + at.view.columns <= Len(names)
  /\ \A i \in 1 .. n : cells[i] = Cell(at.view.row, at.view.offset + at.column + i - 1)

ReadsAsTaken(type, at, cells) ==
  /\ Get[type][at] = ReadOf(Take[type][cells])
  /\ Take[type][cells].rest = Left(cells, Size[type])

\* The types that are read right wherever they are read
ReadRight ==
  { type \in Nested : \A at \in Places : \A cells \in Seq(Values) :
      Shows(at, cells, Size[type]) => ReadsAsTaken(type, at, cells) }

\* A column of the row, or of a slice of it, is read as the cell it shows.
LEMMA ReadShown ==
  ASSUME RowInv, NEW at \in Places, NEW cells, NEW n \in Nat, Shows(at, cells, n),
         NEW i \in 1 .. n, NEW v \in Views,
         v.row = at.view.row, v.offset + v.columns <= Len(names),
         NEW c \in 0 .. v.columns - 1, v.offset + c = at.view.offset + at.column + i - 1
  PROVE  ReadAt(Place(at.kind, v, c)) = cells[i]
<1>1. v.row \in Nat /\ v.offset \in Nat /\ v.columns \in Nat /\ c \in Nat /\ c < v.columns
  BY DEF Views
<1>2. Len(names) \in Nat /\ rows \in Nat
  BY DEF RowInv
<1>3. HasColumn(v, c) /\ InResult(v.row, v.offset + c)
  BY <1>1, <1>2 DEF HasColumn, InResult, Columns, Shows
<1>4. RowRead(v, c) = Cell(v.row, v.offset + c) /\ TableRead(v, c) = Cell(v.row, v.offset + c)
  BY <1>3 DEF RowRead, TableRead, ResultRead
<1>5. ReadAt(Place(at.kind, v, c)) = Cell(v.row, v.offset + c)
  BY <1>4 DEF ReadAt, Place
<1>6. QED BY <1>5 DEF Shows

\* A type of one column
LEMMA DirectReadsAsTaken ==
  ASSUME RowInv, NEW type \in Nested, IsDirect(type),
         NEW at \in Places, NEW cells \in Seq(Values), Shows(at, cells, Size[type])
  PROVE  ReadsAsTaken(type, at, cells)
<1>1. Size[type] = 1
  BY SizeFacts
<1>2. at.view \in Views /\ at.column \in Nat /\ at.view.columns \in Nat /\ at.view.offset \in Nat
  BY DEF Places, Views
<1>3. 1 <= Len(cells) /\ at.column + 1 <= at.view.columns /\ at.view.offset + at.view.columns <= Len(names)
  BY <1>1 DEF Shows
<1>4. ReadAt(at) = cells[1]
  <2>1. at = Place(at.kind, at.view, at.column)
    BY DEF Places, Place
  <2>2. at.column \in 0 .. at.view.columns - 1
    BY <1>2, <1>3
  <2>3. at.view.offset + at.column = at.view.offset + at.column + 1 - 1
    BY <1>2
  <2>4. ReadAt(Place(at.kind, at.view, at.column)) = cells[1]
    BY <1>1, <1>2, <1>3, <2>2, <2>3, ReadShown
  <2>5. QED BY <2>1, <2>4
<1>5. cells[1] \in Values /\ cells[1] # Failure
  <2>1. cells[1] = Cell(at.view.row, at.view.offset + at.column + 1 - 1)
    BY <1>1 DEF Shows
  <2>2. at.view.row \in Nat /\ at.view.offset + at.column + 1 - 1 \in Nat
    BY <1>2 DEF Views
  <2>3. QED BY <2>1, <2>2, CellIsValue
<1>6. First(cells, 1) = << cells[1] >>
  <2>1. First(cells, 1) = [i \in 1 .. 1 |-> cells[i]]
    BY <1>3, FirstFacts
  <2>2. QED BY <2>1
<1>7. type.of \in {"plain", "optional"} /\ (type.of = "plain" <=> type.of # "optional")
  BY DEF IsDirect
<1>8. Get[type][at] = IF type.of = "plain" /\ cells[1] = Null THEN Failed ELSE Read(<< cells[1] >>)
  BY <1>4, <1>5, GetFacts DEF GetDirect
<1>9. Take[type][cells] = Portion(type.of = "optional" \/ cells[1] # Null, << cells[1] >>, Left(cells, 1))
  <2>1. << cells[1] >> = << Null >> <=> cells[1] = Null
    OBVIOUS
  <2>2. QED BY <1>6, <2>1, TakeFacts DEF TakenDirect
<1>10. ReadOf(Take[type][cells]) = IF type.of = "plain" /\ cells[1] = Null THEN Failed ELSE Read(<< cells[1] >>)
  <2> DEFINE ok == type.of = "optional" \/ cells[1] # Null
             first == << cells[1] >>
             rest == Left(cells, 1)
  <2>1. ok <=> ~(type.of = "plain" /\ cells[1] = Null)
    BY <1>7
  <2>2. Portion(ok, first, rest).ok = ok /\ Portion(ok, first, rest).cells = first
    <3> HIDE DEF ok, first, rest
    <3>1. QED BY DEF Portion
  <2>3. ReadOf(Portion(ok, first, rest)) = IF ok THEN Read(first) ELSE Failed
    <3> HIDE DEF ok, first, rest
    <3>1. QED BY <2>2 DEF ReadOf
  <2>4. QED BY <1>9, <2>1, <2>3
<1>11. Take[type][cells].rest = Left(cells, 1)
  BY <1>9 DEF Portion
<1>12. QED BY <1>1, <1>8, <1>10, <1>11 DEF ReadsAsTaken

\* Is every column of the slice NULL?
LEMMA SliceIsNull ==
  ASSUME RowInv, NEW type \in Nested, ~IsDirect(type),
         NEW at \in Places, NEW cells \in Seq(Values), Shows(at, cells, Size[type])
  PROVE  LET n == Size[type]
             s == SliceOf(at.view, at.column, n)
         IN  /\ CanSlice(at.view, at.column, n) /\ s \in Views
             /\ s.row = at.view.row /\ s.offset = at.view.offset + at.column /\ s.columns = n
             /\ s.offset + s.columns <= Len(names)
             /\ AllNull(at.kind, s) <=> First(cells, n) = [i \in 1 .. n |-> Null]
<1> DEFINE n == Size[type]
           s == SliceOf(at.view, at.column, n)
<1>1. n \in Nat \ {0}
  BY SizeFacts
<1>2. /\ at.view \in Views /\ at.view.row \in Nat /\ at.view.offset \in Nat /\ at.view.columns \in Nat
      /\ at.column \in Nat
  BY DEF Places, Views
<1>3. /\ n <= Len(cells) /\ at.column + n <= at.view.columns
      /\ at.view.offset + at.view.columns <= Len(names)
  BY DEF Shows
<1>4. Shows(at, cells, n)
  OBVIOUS
<1> HIDE DEF n
<1>5. CanSlice(at.view, at.column, n)
  BY <1>1, <1>3 DEF CanSlice
<1>6. s.row = at.view.row /\ s.offset = at.view.offset + at.column /\ s.columns = n /\ s \in Views
  BY <1>1, <1>2 DEF SliceOf, Row, Views
<1> HIDE DEF s
<1>7. s.offset + s.columns <= Len(names)
  <2>1. Len(names) \in Nat
    BY DEF RowInv
  <2>2. QED BY <1>1, <1>2, <1>3, <1>6, <2>1
<1>8. ASSUME NEW i \in 1 .. n PROVE ReadAt(Place(at.kind, s, i - 1)) = cells[i]
  <2>1. i - 1 \in 0 .. s.columns - 1 /\ s.offset + (i - 1) = at.view.offset + at.column + i - 1
    BY <1>1, <1>2, <1>6
  <2>2. QED BY <1>1, <1>4, <1>6, <1>7, <2>1, ReadShown
<1>9. First(cells, n) = [i \in 1 .. n |-> cells[i]]
  BY <1>1, <1>3, FirstFacts
<1>10. AllNull(at.kind, s) <=> \A i \in 1 .. n : cells[i] = Null
  <2>1. ASSUME AllNull(at.kind, s), NEW i \in 1 .. n PROVE cells[i] = Null
    <3>1. i - 1 \in 0 .. s.columns - 1
      BY <1>1, <1>6
    <3>2. QED BY <1>8, <2>1, <3>1 DEF AllNull
  <2>2. ASSUME \A i \in 1 .. n : cells[i] = Null PROVE AllNull(at.kind, s)
    <3>1. ASSUME NEW c \in 0 .. s.columns - 1 PROVE ReadAt(Place(at.kind, s, c)) = Null
      <4>1. c + 1 \in 1 .. n /\ (c + 1) - 1 = c
        BY <1>1, <1>6
      <4>2. QED BY <1>8, <2>2, <4>1
    <3>2. QED BY <3>1 DEF AllNull
  <2>3. QED BY <2>1, <2>2
<1>11. First(cells, n) = [i \in 1 .. n |-> Null] <=> \A i \in 1 .. n : cells[i] = Null
  BY <1>9
<1>12. QED BY <1>5, <1>6, <1>7, <1>10, <1>11 DEF n, s

\* A member at its offset in the slice shows what the members before it leave.
LEMMA MemberShown ==
  ASSUME RowInv, NEW type \in Nested, ~IsDirect(type),
         NEW at \in Places, NEW cells \in Seq(Values), Shows(at, cells, Size[type]),
         NEW i \in 1 .. Len(type.parts)
  PROVE  LET left == Left(cells, Sums(Sizes(type))[i - 1])
         IN  /\ left \in Seq(Values)
             /\ Shows(Place(at.kind, SliceOf(at.view, at.column, Size[type]), Offsets(type)[i]),
                      left, Size[type.parts[i]])
             /\ Left(left, Size[type.parts[i]]) = Left(cells, Sums(Sizes(type))[i])
<1> DEFINE n == Size[type]
           s == SliceOf(at.view, at.column, n)
           S == Sums(Sizes(type))
           a == S[i - 1]
           b == Size[type.parts[i]]
           left == Left(cells, a)
           q == Place(at.kind, s, Offsets(type)[i])
<1>1. /\ s.row = at.view.row /\ s.offset = at.view.offset + at.column /\ s.columns = n
      /\ s.offset + s.columns <= Len(names)
  BY SliceIsNull
<1>2. Offsets(type)[i] = a /\ a \in Nat /\ S[i] = a + b /\ S[i] <= n /\ type.parts[i] \in Nested
  BY OffsetFacts
<1>3. n \in Nat /\ b \in Nat
  BY <1>2, SizeFacts
<1>4. at.view.row \in Nat /\ at.view.offset \in Nat /\ at.column \in Nat
  BY DEF Places, Views
<1>5. /\ n <= Len(cells) /\ at.view.row < rows
      /\ \A j \in 1 .. n : cells[j] = Cell(at.view.row, at.view.offset + at.column + j - 1)
  BY DEF Shows
<1>6. q.view = s /\ q.column = a
  BY <1>2 DEF Place
<1> HIDE DEF n, s, S, a, b, q
<1>7. a <= Len(cells) /\ a + b <= Len(cells) /\ Len(cells) \in Nat
  BY <1>2, <1>3, <1>5
<1>8. left \in Seq(Values) /\ Len(left) = Len(cells) - a /\ \A j \in 1 .. Len(cells) - a : left[j] = cells[a + j]
  BY <1>2, <1>7, LeftFacts
<1>9. Left(left, b) = Left(cells, S[i])
  <2>1. Left(Left(cells, a), b) = Left(cells, a + b)
    BY <1>2, <1>3, <1>7, LeftLeft
  <2>2. QED BY <1>2, <2>1
<1> HIDE DEF left
<1>10. b <= Len(left) /\ a + b <= s.columns
  BY <1>1, <1>2, <1>3, <1>7, <1>8
<1>11. ASSUME NEW j \in 1 .. b PROVE left[j] = Cell(s.row, s.offset + a + j - 1)
  <2>1. a + j \in 1 .. n /\ j \in 1 .. Len(cells) - a
    BY <1>2, <1>3, <1>7
  <2>2. left[j] = Cell(at.view.row, at.view.offset + at.column + (a + j) - 1)
    BY <1>5, <1>8, <2>1
  <2>3. at.view.offset + at.column + (a + j) - 1 = s.offset + a + j - 1
    BY <1>1, <1>2, <1>4
  <2>4. QED BY <1>1, <2>2, <2>3
<1>12. Shows(q, left, b)
  BY <1>1, <1>5, <1>6, <1>10, <1>11 DEF Shows
<1>13. QED BY <1>8, <1>9, <1>12 DEF left, q, s, n, S, a, b

LEMMA ListFacts ==
  ASSUME NEW V, NEW n \in Nat, NEW s \in [1 .. n -> V]
  PROVE  s \in Seq(V) /\ Len(s) = n
OBVIOUS

\* A type of members, if its members are read right wherever they are
LEMMA CompositeReadsAsTaken ==
  ASSUME RowInv, NEW type \in Nested, IsComposite(type, ReadRight),
         NEW at \in Places, NEW cells \in Seq(Values), Shows(at, cells, Size[type])
  PROVE  ReadsAsTaken(type, at, cells)
<1> DEFINE n == Size[type]
           s == SliceOf(at.view, at.column, n)
           S == Sums(Sizes(type))
           ps == type.parts
           m == Len(ps)
           q(i) == Place(at.kind, s, Offsets(type)[i])
           left(i) == Left(cells, S[i])
           takes == OfMembers(Take, type)
           reads == [i \in DOMAIN ps |-> Get[ps[i]][q(i)]]
<1>1. ~IsDirect(type)
  BY DEF IsComposite
<1>2. /\ m \in Nat \ {0} /\ DOMAIN ps = 1 .. m /\ S[0] = 0 /\ S[m] = n
      /\ \A i \in 1 .. m : ps[i] \in Nested
  BY <1>1, OffsetFacts
<1>3. n \in Nat /\ n <= Len(cells)
  BY SizeFacts DEF Shows
<1>4. CanSlice(at.view, at.column, n) /\ (AllNull(at.kind, s) <=> First(cells, n) = [i \in 1 .. n |-> Null])
  BY <1>1, SliceIsNull
<1>5. Get[type][at] = IF type.of = "optional_tuple" /\ AllNull(at.kind, s) THEN Read(<< Null >>)
                      ELSE Members(reads)
  BY <1>1, <1>4, GetFacts DEF Composed
<1>6. Take[type][cells] = IF type.of = "optional_tuple" /\ AllNull(at.kind, s)
                          THEN Portion(TRUE, << Null >>, Left(cells, n)) ELSE OneByOne(takes, cells)
  BY <1>1, <1>4, TakeFacts DEF TakenComposite
<1>7. CASE type.of = "optional_tuple" /\ AllNull(at.kind, s)
  BY <1>5, <1>6, <1>7 DEF ReadsAsTaken, ReadOf, Portion
<1>8. CASE ~(type.of = "optional_tuple" /\ AllNull(at.kind, s))
  <2>1. takes \in Seq(Takers) /\ Len(takes) = m /\ \A i \in 1 .. m : takes[i] = Take[ps[i]]
    <3> DEFINE K == Takers
               os == OfMembers(Take, type)
    <3>1. Take \in [Nested -> K]
      BY TakeFacts
    <3> HIDE DEF K
    <3>2. /\ os \in Seq(K) /\ Len(os) = Len(type.parts)
          /\ \A i \in 1 .. Len(type.parts) : os[i] = Take[type.parts[i]]
      BY <1>1, <3>1, OfMembersFacts
    <3>3. QED BY <3>2 DEF K
  <2>2. ASSUME NEW i \in 1 .. m
        PROVE  /\ left(i - 1) \in Seq(Values) /\ Left(left(i - 1), Size[ps[i]]) = left(i)
               /\ Shows(q(i), left(i - 1), Size[ps[i]]) /\ q(i) \in Places
    BY <1>1, <1>2, MemberShown, PlaceInSlice
  <2>3. ASSUME NEW i \in 1 .. m PROVE ps[i] \in ReadRight
    <3> DEFINE R == ReadRight
    <3>1. ps \in Seq(R)
      BY DEF IsComposite
    <3> HIDE DEF R, ps
    <3>2. ps[i] \in R
      BY <3>1
    <3>3. QED BY <3>2 DEF R
  <2> HIDE DEF n, s, S, ps, q, left, takes
  <2>4. ASSUME NEW i \in 1 .. m
        PROVE  /\ Get[ps[i]][q(i)] = ReadOf(takes[i][left(i - 1)])
               /\ takes[i][left(i - 1)].rest = left(i)
    <3>1. ReadsAsTaken(ps[i], q(i), left(i - 1))
      BY <2>2, <2>3 DEF ReadRight
    <3>2. QED BY <2>1, <2>2, <3>1 DEF ReadsAsTaken
  <2>5. PICK f \in [0 .. m -> Portions] :
          TakenInTurn(f, takes, cells) /\ OneByOne(takes, cells) = f[m]
    BY <2>1, OneByOneFacts
  <2>6. f[0] = Portion(TRUE, << >>, cells) /\ \A i \in 1 .. m : f[i] = TakeNext(f[i - 1], takes[i])
    BY <2>1, <2>5 DEF TakenInTurn
  <2> HIDE DEF m
  <2>7. ASSUME NEW i \in 1 .. m
        PROVE  /\ takes[i][f[i - 1].rest] \in Portions
               /\ f[i].ok <=> f[i - 1].ok /\ takes[i][f[i - 1].rest].ok
               /\ f[i].cells = f[i - 1].cells \o takes[i][f[i - 1].rest].cells
               /\ f[i].rest = takes[i][f[i - 1].rest].rest
    <3>1. i - 1 \in 0 .. m
      BY <1>2
    <3>2. f[i - 1] \in Portions /\ takes[i] \in Takers
      BY <2>1, <3>1
    <3>3. f[i] = TakeNext(f[i - 1], takes[i])
      BY <2>6
    <3> DEFINE b == f[i - 1]
               take == takes[i]
    <3>4. b \in Portions /\ take \in Takers
      BY <3>2
    <3> HIDE DEF b, take
    <3>5. /\ take[b.rest] \in Portions
          /\ TakeNext(b, take).ok <=> b.ok /\ take[b.rest].ok
          /\ TakeNext(b, take).cells = b.cells \o take[b.rest].cells
          /\ TakeNext(b, take).rest = take[b.rest].rest
      BY <3>4, TakeNextFacts
    <3>6. f[i] = TakeNext(b, take)
      BY <3>3 DEF b, take
    <3>7. /\ take[b.rest] \in Portions
          /\ f[i].ok <=> b.ok /\ take[b.rest].ok
          /\ f[i].cells = b.cells \o take[b.rest].cells
          /\ f[i].rest = take[b.rest].rest
      BY <3>5, <3>6
    <3>8. QED BY <3>7 DEF b, take
  <2>8. \A i \in 0 .. m : f[i].rest = left(i)
    <3> DEFINE W == { i \in 0 .. m : f[i].rest = left(i) }
    <3>1. 0 \in W
      <4>1. f[0].rest = cells
        BY <2>6 DEF Portion
      <4>2. left(0) = cells
        <5>1. 0 + 0 <= Len(cells)
          BY <1>3
        <5>2. Left(cells, 0) = cells
          BY <5>1, LeftLeft
        <5>3. QED BY <1>2, <5>2 DEF left
      <4>3. QED BY <1>2, <4>1, <4>2
    <3>2. ASSUME NEW i \in 1 .. m, i - 1 \in W PROVE i \in W
      <4>1. i \in 0 .. m /\ i - 1 \in 0 .. m
        BY <1>2
      <4>2. f[i - 1].rest = left(i - 1)
        BY <3>2
      <4>3. f[i].rest = takes[i][f[i - 1].rest].rest
        BY <2>7
      <4>4. f[i].rest = left(i)
        BY <2>4, <4>2, <4>3
      <4>5. QED BY <4>1, <4>4
    <3> HIDE DEF W
    <3>3. m \in Nat
      BY <1>2
    <3>4. \A i \in 0 .. m : i \in W
      BY <3>1, <3>2, <3>3, Upwards
    <3>5. QED BY <3>4 DEF W
  <2> DEFINE t == [i \in 1 .. m |-> takes[i][f[i - 1].rest]]
  <2>9. t \in [1 .. m -> Portions]
    BY <2>7
  <2>10. reads \in Seq(Results) /\ Len(reads) = m /\ \A i \in 1 .. m : reads[i] = ReadOf(t[i])
    <3>1. ASSUME NEW i \in 1 .. m PROVE Get[ps[i]][q(i)] = ReadOf(t[i])
      <4>1. i - 1 \in 0 .. m
        BY <1>2
      <4>2. t[i] = takes[i][left(i - 1)]
        BY <2>8, <4>1
      <4>3. QED BY <2>4, <4>2
    <3>2. ASSUME NEW i \in 1 .. m PROVE ReadOf(t[i]) \in Results
      <4>1. t[i] \in Portions
        BY <2>9
      <4>2. t[i].cells \in Seq(Values) /\ << >> \in Seq(Values)
        BY <4>1 DEF Portions
      <4>3. QED BY <4>2 DEF ReadOf, Read, Failed, Results
    <3> HIDE DEF t
    <3>3. reads \in [1 .. m -> Results] /\ \A i \in 1 .. m : reads[i] = ReadOf(t[i])
      BY <1>2, <3>1, <3>2
    <3> HIDE DEF reads
    <3>4. QED BY <1>2, <3>3
  <2>11. f[0].ok = TRUE /\ f[0].cells = << >>
    BY <2>6 DEF Portion
  <2>12. \A i \in 1 .. m : /\ f[i].ok <=> f[i - 1].ok /\ t[i].ok
                           /\ f[i].cells = f[i - 1].cells \o t[i].cells
    BY <2>7
  <2> HIDE DEF t, reads
  <2>13. Members(reads) = ReadOf(f[m])
    <3>1. Chained(f, t, m)
      BY <2>11, <2>12 DEF Chained
    <3>2. f \in [0 .. m -> Portions]
      BY <2>5
    <3>3. QED BY <1>2, <2>9, <2>10, <3>1, <3>2, MembersInTurn
  <2>14. f[m].rest = Left(cells, n)
    <3>1. m \in 0 .. m
      BY <1>2
    <3>2. QED BY <1>2, <2>8, <3>1 DEF left
  <2>15. Get[type][at] = ReadOf(Take[type][cells]) /\ Take[type][cells].rest = Left(cells, n)
    BY <1>5, <1>6, <1>8, <2>5, <2>13, <2>14
  <2>16. QED BY <2>15 DEF ReadsAsTaken, n
<1>9. QED BY <1>7, <1>8

\* Hence, by induction, a type of any nesting
LEMMA AllReadRight == RowInv => Nested \subseteq ReadRight
<1> SUFFICES ASSUME RowInv PROVE Nested \subseteq ReadRight
  OBVIOUS
<1>1. ASSUME NEW type \in Nested, IsDirect(type) \/ IsComposite(type, ReadRight)
      PROVE  type \in ReadRight
  <2>1. ASSUME NEW at \in Places, NEW cells \in Seq(Values), Shows(at, cells, Size[type])
        PROVE  ReadsAsTaken(type, at, cells)
    BY <1>1, <2>1, DirectReadsAsTaken, CompositeReadsAsTaken
  <2>2. QED BY <2>1 DEF ReadRight
<1>2. QED BY <1>1, TypeInduction

\* A whole row, or slice, as a type
LEMMA RowAs ==
  ASSUME RowInv, NEW type \in Nested, NEW k \in Kinds, NEW v \in Views,
         v.columns > 0 => v.row < rows /\ v.offset + v.columns <= Len(names),
         NEW cells, cells = [i \in 1 .. v.columns |-> Cell(v.row, v.offset + i - 1)]
  PROVE  As(k, v, type) = Expected(type, cells)
<1> DEFINE n == v.columns
           at == Place(k, v, 0)
<1>1. v.row \in Nat /\ v.offset \in Nat /\ n \in Nat
  BY DEF Views
<1>2. cells \in Seq(Values) /\ Len(cells) = n
  <2>1. \A i \in 1 .. n : Cell(v.row, v.offset + i - 1) \in Values
    BY <1>1, CellIsValue
  <2> DEFINE V == Values
  <2>2. cells \in [1 .. n -> V]
    BY <2>1
  <2> HIDE DEF n, V
  <2>3. cells \in Seq(V) /\ Len(cells) = n
    BY <1>1, <2>2, ListFacts
  <2>4. QED BY <2>3 DEF V
<1>3. CASE Size[type] # n
  BY <1>2, <1>3 DEF As, Expected
<1>4. CASE Size[type] = n
  <2>1. n > 0
    BY <1>1, <1>4, SizeFacts
  <2>2. at \in Places /\ at.view = v /\ at.column = 0
    BY DEF Place, Places
  <2>3. Shows(at, cells, n)
    <3>1. n <= Len(cells) /\ 0 + n <= n
      BY <1>1, <1>2
    <3>2. v.row < rows /\ v.offset + n <= Len(names)
      BY <2>1
    <3>3. ASSUME NEW i \in 1 .. n PROVE cells[i] = Cell(v.row, v.offset + 0 + i - 1)
      <4>1. cells[i] = Cell(v.row, v.offset + i - 1)
        OBVIOUS
      <4>2. v.offset + 0 + i - 1 = v.offset + i - 1
        BY <1>1
      <4>3. QED BY <4>1, <4>2
    <3> HIDE DEF at
    <3>4. QED BY <2>2, <3>1, <3>2, <3>3 DEF Shows
  <2>4. Get[type][at] = ReadOf(Take[type][cells])
    BY <1>2, <1>4, <2>2, <2>3, AllReadRight DEF ReadRight, ReadsAsTaken
  <2>5. QED BY <1>2, <1>4, <2>4 DEF As, Expected, ReadOf
<1>5. QED BY <1>3, <1>4

\* A row of a result, of a table_reader, or a slice of one is read as a type
\* of any nesting by taking its columns in order: get<>() and as<>() of row and
\* table_row; so are all rows of a result, and its only one.
THEOREM TypesAreAlwaysReadInOrder == RowSpec => []TypesReadInOrder
<1>1. RowInv => TypesReadInOrder
  <2> SUFFICES ASSUME RowInv, NEW type \in Types
               PROVE
    /\ view # NoRow =>
         \A k \in Kinds :
           As(k, view, type) = Expected(type, [i \in DOMAIN own |-> Cell(view.row, own[i])])
    /\ view = NoRow =>
         LET all == [r \in 1 .. rows |-> Expected(type, [c \in 1 .. Columns |-> Cell(r - 1, c - 1)])]
         IN  /\ AsContainer(type) = Members(all)
             /\ ResultAs(type) = IF rows = 1 THEN all[1] ELSE Failed
             /\ ResultOptional(type) = IF rows = 0 THEN Read(<< >>) ELSE ResultAs(type)
    BY DEF TypesReadInOrder
  <2> DEFINE wanted(r) == Expected(type, [c \in 1 .. Columns |-> Cell(r - 1, c - 1)])
             all == [r \in 1 .. rows |-> wanted(r)]
  <2>1. type \in Nested
    BY TypesAssumption
  <2>2. /\ view \in Views /\ own = [i \in 1 .. view.columns |-> view.offset + i - 1]
        /\ view.columns > 0 => view.row < rows /\ view.offset + view.columns <= Len(names)
        /\ Columns \in Nat /\ Columns = Len(names) /\ rows \in Nat
    BY DEF RowInv, OwnIsRange, ViewInResult, Columns
  <2>3. ASSUME NEW k \in Kinds
        PROVE  As(k, view, type) = Expected(type, [i \in DOMAIN own |-> Cell(view.row, own[i])])
    <3>1. [i \in DOMAIN own |-> Cell(view.row, own[i])]
            = [i \in 1 .. view.columns |-> Cell(view.row, view.offset + i - 1)]
      BY <2>2
    <3>2. QED BY <2>1, <2>2, <3>1, RowAs
  <2>4. ASSUME NEW r \in 1 .. rows
        PROVE  As("row", Row(r - 1, 0, Columns), type) = wanted(r)
    <3> DEFINE v == Row(r - 1, 0, Columns)
    <3>1. /\ v.row = r - 1 /\ v.offset = 0 /\ v.columns = Columns /\ v \in Views
          /\ r - 1 < rows /\ "row" \in Kinds
      BY <2>2 DEF Row, Views, Kinds
    <3>2. \A c \in 1 .. Columns : 0 + c - 1 = c - 1
      BY <2>2
    <3>3. [c \in 1 .. Columns |-> Cell(r - 1, c - 1)]
            = [c \in 1 .. v.columns |-> Cell(v.row, v.offset + c - 1)]
      BY <3>1, <3>2
    <3> HIDE DEF v
    <3>4. v.columns > 0 => v.row < rows /\ v.offset + v.columns <= Len(names)
      BY <2>2, <3>1
    <3>5. QED BY <2>1, <3>1, <3>3, <3>4, RowAs DEF v
  <2>5. AsContainer(type) = Members(all)
    <3>1. [i \in DOMAIN Rows |-> As("row", Rows[i], type)] = all
      BY <2>4 DEF Rows
    <3>2. QED BY <3>1 DEF AsContainer
  <2>6. rows = 1 => ResultAs(type) = wanted(1)
    <3> SUFFICES ASSUME rows = 1 PROVE As("row", Row(0, 0, Columns), type) = wanted(1)
      BY DEF ResultAs
    <3>1. 1 \in 1 .. rows /\ 1 - 1 = 0
      OBVIOUS
    <3>2. QED BY <2>4, <3>1
  <2>7. rows # 1 => ResultAs(type) = Failed
    BY DEF ResultAs
  <2>8. ResultAs(type) = IF rows = 1 THEN all[1] ELSE Failed
    <3>1. rows = 1 => all[1] = wanted(1)
      OBVIOUS
    <3> HIDE DEF all, wanted
    <3>2. QED BY <2>6, <2>7, <3>1
  <2>9. ResultOptional(type) = IF rows = 0 THEN Read(<< >>) ELSE ResultAs(type)
    BY DEF ResultOptional
  <2> HIDE DEF all
  <2>10. QED BY <2>3, <2>5, <2>8, <2>9 DEF all
<1>2. QED BY <1>1, RowInvariant, PTL
=============================================================================
