------------------------------ MODULE RowTypes ------------------------------
(***************************************************************************)
(* Reading a row, of a result or of a table_reader, or all rows of a       *)
(* result, as a C++ type.                                                  *)
(*                                                                         *)
(* A type takes as many columns as its members do.  A tuple, a pair and    *)
(* an aggregate read each member at the sum of the sizes before it; a      *)
(* member of more than one column is read from a slice.  An optional of    *)
(* such a type is empty when every column of its slice is NULL.            *)
(***************************************************************************)
EXTENDS RowIndex, ExclusiveScan, SequencesExt

CONSTANTS
  Types,        \* the types that are looked at
  MaxNesting    \* bound: how deep they are nested

ASSUME MaxNestingAssumption == MaxNesting \in Nat

\* result_traits<> of one column: of a value that NULL is no value of (int),
\* and of one that it is a value of (optional< int >)
DirectTypes == [of : {"plain", "optional"}, parts : {<< >>}]

\* result_traits<> of members, and of an optional of such a type (which C++ only
\* has if the type is of several columns)
Composites(types) == [of : {"tuple", "optional_tuple"}, parts : Seq(types) \ {<< >>}]

TypesUpTo[n \in 0 .. MaxNesting] ==
  IF n = 0 THEN DirectTypes ELSE TypesUpTo[n - 1] \cup Composites(TypesUpTo[n - 1])

Nested == TypesUpTo[MaxNesting]

ASSUME TypesAssumption == Types \subseteq Nested

IsDirect(type) == type.of \in {"plain", "optional"}

\* result_traits_size<>
Size[type \in Nested] ==
  IF IsDirect(type) THEN 1 ELSE Total([i \in DOMAIN type.parts |-> Size[type.parts[i]]])

Sizes(type) == [i \in DOMAIN type.parts |-> Size[type.parts[i]]]

\* Mistake: the members are read at consecutive columns.
OffsetsOne(type) == [i \in DOMAIN type.parts |-> i - 1]

\* The column at which each member begins
Offsets(type) == Scan(Sizes(type))

\* What a conversion returns: the cells of its values, or an exception
Read(cells) == [ok |-> TRUE, cells |-> cells]
Failed == [ok |-> FALSE, cells |-> << >>]

Members(reads) ==
  IF \E i \in DOMAIN reads : ~reads[i].ok
    THEN Failed
    ELSE Read(FlattenSeq([i \in DOMAIN reads |-> reads[i].cells]))

-----------------------------------------------------------------------------
\* A column of a row, or of a table_row; both have the same templates
Kinds == {"row", "table_row"}
Views == [row : Nat, offset : Nat, columns : Nat]
Places == [kind : Kinds, view : Views, column : Nat]
Place(k, v, c) == [kind |-> k, view |-> v, column |-> c]

ReadAt(at) ==
  IF at.kind = "row" THEN RowRead(at.view, at.column) ELSE TableRead(at.view, at.column)

\* row::get< T >( column ); T is read from one value
GetDirect(type, at) ==
  LET cell == ReadAt(at)
  IN  IF cell = Failure \/ (type.of = "plain" /\ cell = Null) THEN Failed ELSE Read(<< cell >>)

\* optional: is every column of the slice NULL?
AllNull(k, v) == \A c \in 0 .. v.columns - 1 : ReadAt(Place(k, v, c)) = Null

\* row::get< T >( column ), for a composite through a slice
Get[type \in Nested] ==
  [at \in Places |->
     LET n == Size[type]
         s == SliceOf(at.view, at.column, n)
     IN  CASE IsDirect(type) -> GetDirect(type, at)
           [] ~IsDirect(type) /\ ~CanSlice(at.view, at.column, n) -> Failed
           [] /\ type.of = "optional_tuple" /\ CanSlice(at.view, at.column, n)
              /\ AllNull(at.kind, s) -> Read(<< Null >>)
           [] OTHER -> Members([i \in DOMAIN type.parts |->
                                  Get[type.parts[i]][Place(at.kind, s, Offsets(type)[i])]])]

\* row::as< T >()
As(k, v, type) == IF Size[type] # v.columns THEN Failed ELSE Get[type][Place(k, v, 0)]

\* result::begin() to result::end()
Rows == [r \in 1 .. rows |-> Row(r - 1, 0, Columns)]

\* result::as_container<>(), vector<>(), list<>(), ...
AsContainer(type) == Members([i \in DOMAIN Rows |-> As("row", Rows[i], type)])

\* result::as< T >(); any other number of rows than one is an exception
ResultAs(type) == IF rows = 1 THEN As("row", Row(0, 0, Columns), type) ELSE Failed

\* result::optional< T >(); an empty result is no value, two rows are an error
ResultOptional(type) == IF rows = 0 THEN Read(<< >>) ELSE ResultAs(type)

-----------------------------------------------------------------------------
\* What a type reads by definition: it takes its cells from the front of a
\* sequence and leaves the rest to what comes after it.

Portion(ok, cells, rest) == [ok |-> ok, cells |-> cells, rest |-> rest]

\* One member takes what it can from what the members before it have left.
TakeNext(before, take) ==
  LET t == take[before.rest] IN Portion(before.ok /\ t.ok, before.cells \o t.cells, t.rest)

OneByOne(takes, cells) ==
  LET taken[n \in 0 .. Len(takes)] ==
        IF n = 0 THEN Portion(TRUE, << >>, cells) ELSE TakeNext(taken[n - 1], takes[n])
  IN  taken[Len(takes)]

\* The first cells of a row, as many as there are, and what is behind them
First(cells, n) == [i \in DOMAIN cells \cap 1 .. n |-> cells[i]]
Left(cells, n) == SubSeq(cells, n + 1, Len(cells))

Values == {Null} \cup (Nat \X Nat)

Take[type \in Nested] ==
  [cells \in Seq(Values) |->
     LET n == Size[type]
     IN  CASE IsDirect(type) ->
                Portion(type.of = "optional" \/ First(cells, 1) # << Null >>, First(cells, 1), Left(cells, 1))
           [] type.of = "optional_tuple" /\ First(cells, n) = [i \in 1 .. n |-> Null] ->
                Portion(TRUE, << Null >>, Left(cells, n))
           [] OTHER -> OneByOne([i \in DOMAIN type.parts |-> Take[type.parts[i]]], cells)]

Expected(type, cells) ==
  LET t == Take[type][cells]
  IN  IF Size[type] = Len(cells) /\ t.ok THEN Read(t.cells) ELSE Failed

\* Any row or slice, of a result or of a table_reader, converts to a type of
\* its size, and to no other, and the values of the type are the columns of the
\* row in their order: no column is skipped, used twice or taken from outside,
\* however the type is nested; and NULL is an exception exactly where the type
\* has no value for it.  So do all rows of a result as a container, and its
\* only row as a value.
TypesReadInOrder ==
  \A type \in Types :
    /\ view # NoRow =>
         \A k \in Kinds :
           As(k, view, type) = Expected(type, [i \in DOMAIN own |-> Cell(view.row, own[i])])
    /\ view = NoRow =>
         LET all == [r \in 1 .. rows |-> Expected(type, [c \in 1 .. Columns |-> Cell(r - 1, c - 1)])]
         IN  /\ AsContainer(type) = Members(all)
             /\ ResultAs(type) = IF rows = 1 THEN all[1] ELSE Failed
             /\ ResultOptional(type) = IF rows = 0 THEN Read(<< >>) ELSE ResultAs(type)
=============================================================================
