------------------------------ MODULE RowIndex ------------------------------
(***************************************************************************)
(* Where the cell of a result is, seen from a row, a slice of a row, a     *)
(* slice of a slice, or a field of any of them.                            *)
(*                                                                         *)
(* A row is a result with the number of a row, an offset and a number of   *)
(* columns; slice() adds offsets, and as<>() of a composite type slices    *)
(* for every member.  A field is a row with a column, and two conventions  *)
(* meet in it: row::at(), operator[], begin() and end() store the column   *)
(* of the result, while field::get(), is_null(), name() and as() hand it   *)
(* to member functions of the row that expect a column of the row.  The    *)
(* rows of a table_reader (table_row, table_field) are made the same way,  *)
(* but read what the reader has parsed, with no second check.              *)
(*                                                                         *)
(* The program slices at will; reading changes nothing, and is stated for  *)
(* every column in every state.                                            *)
(***************************************************************************)
EXTENDS Naturals, Sequences

CONSTANTS
  Names,        \* the names of columns
  MaxRows,      \* bounds of the results that are looked at
  MaxColumns

ASSUME MaxColumnsAssumption == MaxColumns \in Nat \ {0}

VARIABLES
  names,        \* the names of the result's columns, more than one may be equal
  rows,         \* the number of its rows
  nulls,        \* the columns that are NULL (in every row)
  view,         \* the row object: m_row, m_offset, m_columns
  own           \* history: the columns of the result that the row was made of

rowVars == << names, rows, nulls, view, own >>

Columns == Len(names)

\* What a read returns: the address of a cell, NULL, or an exception
Null == << "null" >>
Failure == << >>
Cell(r, c) == IF c \in nulls THEN Null ELSE << r, c >>

-----------------------------------------------------------------------------
\* result::check_row() and result::is_null(), result::get()

InResult(r, c) == r < rows /\ c < Columns

\* result::name(); the empty name is the exception
ResultName(c) == IF c < Columns THEN names[c + 1] ELSE ""

\* result::index(): PQfnumber() finds the first column of a name
ResultIndex(n) ==
  IF \E c \in 0 .. Columns - 1 : names[c + 1] = n
    THEN CHOOSE c \in 0 .. Columns - 1 :
           names[c + 1] = n /\ \A d \in 0 .. c - 1 : names[d + 1] # n
    ELSE Columns

\* result::get< std::optional<> >(): NULL is a value
ResultRead(r, c) == IF InResult(r, c) THEN Cell(r, c) ELSE Failure

-----------------------------------------------------------------------------
\* row: m_row, m_offset and m_columns

Row(r, o, n) == [row |-> r, offset |-> o, columns |-> n]
NoRow == Row(0, 0, 0)

\* row::ensure_column()
HasColumn(v, c) == c < v.columns

\* row::slice() does not throw.
CanSlice(v, o, n) == n # 0 /\ o + n <= v.columns

\* Mistake: a slice of a slice starts at the beginning of the result's row.
SliceFromResult(v, o, n) == Row(v.row, o, n)

SliceOf(v, o, n) == Row(v.row, v.offset + o, n)

\* row::get() and row::is_null()
RowRead(v, c) == IF HasColumn(v, c) THEN ResultRead(v.row, v.offset + c) ELSE Failure

\* table_row::get(): the reader's data, the row's own check alone
TableRead(v, c) == IF HasColumn(v, c) THEN Cell(v.row, v.offset + c) ELSE Failure

\* row::name()
RowName(v, c) == ResultName(v.offset + c)

\* Mistake: a name the result first has before the slice is not searched for.
RowIndexNoSearch(v, n) ==
  LET c == ResultIndex(n)
  IN  IF c # Columns /\ c >= v.offset /\ c - v.offset < v.columns THEN c - v.offset ELSE v.columns

\* row::index(); v.columns is the exception.  A column of that name before the
\* slice may hide one in it, one behind the slice cannot.
RowIndexOf(v, n) ==
  LET c == ResultIndex(n)
      Named(p) == RowName(v, p) = ResultName(c)
  IN  CASE c = Columns -> v.columns
        [] c # Columns /\ c >= v.offset ->
             IF c - v.offset < v.columns THEN c - v.offset ELSE v.columns
        [] OTHER ->
             IF \E p \in 0 .. v.columns - 1 : Named(p)
               THEN CHOOSE p \in 0 .. v.columns - 1 : Named(p) /\ \A q \in 0 .. p - 1 : ~Named(q)
               ELSE v.columns

-----------------------------------------------------------------------------
\* field: the column that at(), operator[] and the iterators store

FieldAt(v, c) == v.offset + c

\* row::begin() to row::end(), which are compared by field::index()
FieldIndex(v, f) == f - v.offset
Fields(v) ==
  [i \in 1 .. FieldIndex(v, v.offset + v.columns) - FieldIndex(v, v.offset) |-> FieldAt(v, i - 1)]

\* field::get(), is_null() and as(): the row is asked for that column.
FieldRead(v, f) == RowRead(v, f)

-----------------------------------------------------------------------------
RowInit ==
  /\ names = << >>
  /\ rows = 0
  /\ nulls = {}
  /\ view = NoRow
  /\ own = << >>

\* A result arrives.
Execute(ns, r, nl) ==
  /\ names = << >>
  /\ names' = ns
  /\ rows' = r
  /\ nulls' = nl
  /\ UNCHANGED << view, own >>

\* result::at(); an exception leaves everything as it is
At(r) ==
  /\ r < rows
  /\ view' = Row(r, 0, Columns)
  /\ own' = [i \in 1 .. Columns |-> i - 1]
  /\ UNCHANGED << names, rows, nulls >>

\* row::slice()
Slice(o, n) ==
  /\ CanSlice(view, o, n)
  /\ view' = SliceOf(view, o, n)
  /\ own' = [i \in 1 .. n |-> own[o + i]]
  /\ UNCHANGED << names, rows, nulls >>

RowNext ==
  \/ \E n \in 1 .. MaxColumns : \E ns \in [1 .. n -> Names], r \in 0 .. MaxRows, nl \in SUBSET (0 .. n - 1) :
       Execute(ns, r, nl)
  \/ \E r \in 0 .. MaxRows : At(r)
  \/ \E o, n \in 0 .. MaxColumns : Slice(o, n)

RowSpec == RowInit /\ [][RowNext]_rowVars

-----------------------------------------------------------------------------
\* However often a row is sliced, its column c is the c-th of the columns the
\* program selected, and no column but those can be read through it: get(),
\* is_null() of a row, a table_row and their slices.
SliceReadsOwn ==
  \A c \in 0 .. MaxColumns :
    LET expected == IF c < Len(own) THEN Cell(view.row, own[c + 1]) ELSE Failure
    IN  RowRead(view, c) = expected /\ TableRead(view, c) = expected

\* A name means the first column of that name in the slice, also where the
\* result has one of that name before the slice or behind it.
NamesFindOwn ==
  \A n \in Names :
    LET found == { c \in 0 .. Len(own) - 1 : names[own[c + 1] + 1] = n }
    IN  IF found = {}
          THEN RowIndexOf(view, n) = view.columns
          ELSE RowIndexOf(view, n) \in found /\ \A c \in found : RowIndexOf(view, n) <= c

\* doc/Result.md: the fields of a row, which a slice is, are iterated over
\* with the usual methods; they are the cells of the row's columns in order.
FieldsReadOwn ==
  [i \in DOMAIN Fields(view) |-> FieldRead(view, Fields(view)[i])]
    = [i \in DOMAIN own |-> Cell(view.row, own[i])]
=============================================================================
