------------------------------ MODULE CopyText ------------------------------
(***************************************************************************)
(* The text format of COPY between table_writer, server and table_reader.  *)
(*                                                                         *)
(* A value is a sequence of characters or NULL, a row a sequence of        *)
(* values.  The characters that matter are the ones the format uses; a     *)
(* letter after a backslash may mean another character, so the letters     *)
(* that do are looked at as well.                                          *)
(*                                                                         *)
(* The program writes a row, the server stores it, and the program reads   *)
(* the table.                                                              *)
(***************************************************************************)
EXTENDS Naturals, SequencesExt

CONSTANTS
  Cells,        \* the values written: sequences of characters, SqlNull
  MaxWidth      \* bound: how many columns a row has

ASSUME CellsAssumption == \A c \in Cells : c \in Seq(Range(c))

VARIABLES
  written,      \* the row the program has inserted
  table,        \* the row as the server has it
  fetched       \* the row as the program reads it

copyVars == << written, table, fetched >>

SqlNull == << "SQL NULL" >>
Nothing == << >>
Broken == << << "broken" >> >>     \* behaviour the code rules out as unreachable

\* Where a machine that reads character by character is at the end of a text
After(Step(_, _), start, text) ==
  LET state[n \in 0 .. Len(text)] == IF n = 0 THEN start ELSE Step(state[n - 1], text[n])
  IN  state[Len(text)]

-----------------------------------------------------------------------------
\* The characters that have a letter of their own, and the letter.  "BS" and so
\* on are characters that TLA+ has no sign for.
Letters == {"b", "f", "n", "r", "t", "v"}

Control(letter) ==
  CASE letter = "b" -> "BS"
    [] letter = "f" -> "FF"
    [] letter = "n" -> "\n"
    [] letter = "r" -> "CR"
    [] letter = "t" -> "\t"
    [] OTHER -> "VT"

Controls == { Control(letter) : letter \in Letters }

Letter(ch) == CHOOSE letter \in Letters : Control(letter) = ch

\* Mistake: the backslash is not escaped itself.
EscapedRaw(ch) == IF ch \in Controls THEN << "\\", ch >> ELSE << ch >>

\* internal::table_writer_append(): a backslash and the character as it is
Escaped(ch) == IF ch \in Controls \cup {"\\"} THEN << "\\", ch >> ELSE << ch >>

EscapeAll(data) == FlattenSeq([i \in DOMAIN data |-> Escaped(data[i])])

\* parameter_traits<>::copy_to() of a text and of NULL
CopyTo(cell) == IF cell = SqlNull THEN << "\\", "N" >> ELSE EscapeAll(cell)

\* table_writer::insert(): a tab after each column, the last one a newline
InsertText(row) ==
  FlattenSeq([i \in DOMAIN row |->
                CopyTo(row[i]) \o << IF i = Len(row) THEN "\n" ELSE "\t" >>])

-----------------------------------------------------------------------------
\* table_reader::parse_data(), one character at a time.  The code moves the
\* runs between special characters together in the buffer.
ParseStart == [cells |-> << >>, cell |-> << >>, escape |-> FALSE, null |-> FALSE, done |-> FALSE]

Escape(s, ch) ==
  CASE ch = "N" -> [s EXCEPT !.escape = FALSE, !.null = TRUE, !.cells = Append(@, SqlNull)]
    [] ch \in Letters -> [s EXCEPT !.escape = FALSE, !.cell = Append(@, Control(ch))]
    [] ch = "\\" -> [s EXCEPT !.escape = FALSE, !.cell = Append(@, ch)]
    [] OTHER -> [s EXCEPT !.cells = Broken, !.done = TRUE]

Separator(s, ch) ==
  [s EXCEPT !.cells = IF s.null THEN @ ELSE Append(@, s.cell),
            !.cell = << >>, !.null = FALSE, !.done = ch = "\n"]

ParseStep(s, ch) ==
  CASE s.done -> s
    [] ~s.done /\ s.escape -> Escape(s, ch)
    [] ~s.done /\ ~s.escape /\ ch = "\\" -> [s EXCEPT !.escape = TRUE]
    [] ~s.done /\ ~s.escape /\ ch \in {"\t", "\n"} -> Separator(s, ch)
    [] OTHER -> [s EXCEPT !.cell = Append(@, ch)]

ParseData(text) == After(ParseStep, ParseStart, text).cells

-----------------------------------------------------------------------------
\* The server, CopyAttributeOutText() and CopyReadAttributesText(): it writes
\* control characters as letters, and it reads letters as well as a backslash
\* before the character itself.
ServerEscaped(ch) ==
  CASE ch \in Controls -> << "\\", Letter(ch) >>
    [] ch = "\\" -> << "\\", ch >>
    [] OTHER -> << ch >>

ServerCell(cell) ==
  IF cell = SqlNull THEN << "\\", "N" >>
  ELSE FlattenSeq([i \in DOMAIN cell |-> ServerEscaped(cell[i])])

ServerText(row) ==
  FlattenSeq([i \in DOMAIN row |->
                ServerCell(row[i]) \o << IF i = Len(row) THEN "\n" ELSE "\t" >>])

\* A column is NULL when it is a backslash and an N before any decoding.
ServerStep(s, ch) ==
  CASE s.done -> s
    [] ~s.done /\ s.escape ->
         [s EXCEPT !.escape = FALSE,
                   !.null = ch = "N" /\ s.cell = << >>,
                   !.cell = Append(@, IF ch \in Letters THEN Control(ch) ELSE ch)]
    [] ~s.done /\ ~s.escape /\ ch = "\\" -> [s EXCEPT !.escape = TRUE, !.null = FALSE]
    [] ~s.done /\ ~s.escape /\ ch \in {"\t", "\n"} ->
         [s EXCEPT !.cells = Append(@, IF s.null THEN SqlNull ELSE s.cell),
                   !.cell = << >>, !.null = FALSE, !.done = ch = "\n"]
    [] OTHER -> [s EXCEPT !.cell = Append(@, ch), !.null = FALSE]

ServerRow(text) == After(ServerStep, ParseStart, text).cells

-----------------------------------------------------------------------------
CopyInit == written = Nothing /\ table = Nothing /\ fetched = Nothing

\* table_writer::insert() and commit()
CopyInsert(row) ==
  /\ written' = row
  /\ table' = ServerRow(InsertText(row))
  /\ fetched' = Nothing

\* table_reader::get_row()
CopyFetch ==
  /\ table # Nothing
  /\ fetched' = ParseData(ServerText(table))
  /\ UNCHANGED << written, table >>

CopyNext ==
  \/ /\ table = Nothing
     /\ \E n \in 1 .. MaxWidth : \E row \in [1 .. n -> Cells] : CopyInsert(row)
  \/ CopyFetch

CopySpec == CopyInit /\ [][CopyNext]_copyVars

-----------------------------------------------------------------------------
\* Every row is stored and read back as it was written, whatever separators,
\* escapes and letters its values have: a value never ends early, spills over
\* into the next column or becomes NULL, NULL stays NULL, and the parser never
\* meets a case that it takes to be unreachable.
RowsRoundTrip ==
  /\ table = written
  /\ fetched # Nothing => fetched = written
=============================================================================
