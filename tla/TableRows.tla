----------------------------- MODULE TableRows -----------------------------
(***************************************************************************)
(* A program reading the rows of a table_reader: a loop over the range     *)
(* begin() to end(), as in as_container(), or get_row() until it returns   *)
(* false.                                                                  *)
(*                                                                         *)
(* begin() and operator++ fetch a row into the reader, which all its       *)
(* table_rows look at.  operator++ gives the iterator no columns when      *)
(* there is no further row, which is what end() is; begin() ignores that.  *)
(* The end of the data releases the transaction, and a fetch after that    *)
(* follows a null pointer.  What the server sends in between is left to    *)
(* BulkTransfer; here it sends rows, and then the end or an error.         *)
(***************************************************************************)
EXTENDS Naturals, Sequences

CONSTANT MaxTable       \* the largest number of rows

ASSUME MaxTableAssumption == MaxTable \in Nat

VARIABLES
  size,         \* the number of rows
  failing,      \* does an error follow them instead of the end?
  taken,         \* the number of rows the server has sent
  open,         \* m_transaction is set
  data,         \* m_data: the row the reader holds, NoData when empty
  visited,      \* history: the rows that the program has seen
  at            \* where the program is, or what became of it

tableVars == << size, failing, taken, open, data, visited, at >>

NoData == 0

-----------------------------------------------------------------------------
\* table_reader::get_row(), that is get_raw_data() and parse_data(): a row,
\* no row, an exception, or the null m_transaction is followed.
Outcome ==
  CASE ~open -> "crashed"
    [] open /\ taken < size -> "row"
    [] open /\ taken = size /\ failing -> "thrown"
    [] OTHER -> "end"

\* An error leaves m_data and m_transaction as they are.
Fetch ==
  /\ taken' = IF Outcome = "row" THEN taken + 1 ELSE taken
  /\ data' = CASE Outcome = "row" -> taken + 1 [] Outcome = "end" -> NoData [] OTHER -> data
  /\ open' = (open /\ Outcome # "end")
  /\ UNCHANGED << size, failing >>

TableInit ==
  /\ size = 0
  /\ failing = FALSE
  /\ taken = 0
  /\ open = FALSE
  /\ data = NoData
  /\ visited = << >>
  /\ at = "none"

\* The constructor of the table_reader
StartCopy(n, f) ==
  /\ at = "none"
  /\ size' = n
  /\ failing' = f
  /\ open' = TRUE
  /\ at' = "start"
  /\ UNCHANGED << taken, data, visited >>

\* table_reader::begin(), which differs from end() with or without a row.
LoopBegin ==
  /\ at = "start"
  /\ Fetch
  /\ at' = IF Outcome = "thrown" THEN "thrown" ELSE "body"
  /\ UNCHANGED visited

\* The body of the loop reads the row through table_row::get(); m_data may
\* have no element to read.
LoopBody ==
  /\ at = "body"
  /\ visited' = Append(visited, data)
  /\ at' = IF data = NoData THEN "undefined" ELSE "next"
  /\ UNCHANGED << size, failing, taken, open, data >>

\* Mistake: an exception is taken for the end.
LoopNextQuiet ==
  /\ at = "next"
  /\ Fetch
  /\ at' = IF Outcome = "row" THEN "body" ELSE "over"
  /\ UNCHANGED visited

\* operator++, which is noexcept, and the comparison with end()
LoopNext ==
  /\ at = "next"
  /\ Fetch
  /\ at' = CASE Outcome = "row" -> "body" [] Outcome = "end" -> "over" [] OTHER -> "terminated"
  /\ UNCHANGED visited

\* get_row() called by the program, and called again after the end
GetRow ==
  /\ at \in {"start", "rows", "over"}
  /\ Fetch
  /\ at' = CASE Outcome = "row" -> "rows" [] Outcome = "end" -> "over" [] OTHER -> Outcome
  /\ visited' = IF Outcome = "row" THEN Append(visited, taken + 1) ELSE visited

TableNext ==
  \/ \E n \in 0 .. MaxTable, f \in BOOLEAN : StartCopy(n, f)
  \/ LoopBegin
  \/ LoopBody
  \/ LoopNext
  \/ GetRow

TableSpec == TableInit /\ [][TableNext]_tableVars

-----------------------------------------------------------------------------
\* A program that gets to the end of its loop without an exception has seen
\* every row the server had, once and in order, and there was no error: an
\* error behind the rows is never taken for the end of the table.
LoopsSeeEverything ==
  at = "over" => visited = [i \in 1 .. size |-> i] /\ ~failing
=============================================================================
