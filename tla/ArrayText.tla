----------------------------- MODULE ArrayText -----------------------------
(***************************************************************************)
(* Arrays of texts between the program and the server, as a parameter of a *)
(* statement and back in a result, or through a table_writer and a         *)
(* table_reader, where the text of the array is a value of the COPY text.  *)
(*                                                                         *)
(* An element is NULL or a sequence of characters.  "NULL" and "null" are  *)
(* taken as characters: a word that PostgreSQL reads as NULL, in two       *)
(* spellings.                                                              *)
(***************************************************************************)
EXTENDS CopyText

CONSTANT Arrays         \* the arrays sent: sequences of SqlNull and sequences

ASSUME ArraysAssumption ==
  \A es \in Arrays : es \in Seq(Range(es)) /\ \A e \in Range(es) : e \in Seq(Range(e))

VARIABLES
  sent,         \* the array of the program
  stored,       \* the array on the server
  received      \* the array as the program reads it back

arrayVars == << sent, stored, received >>

\* The characters of the formats, by name
Quote == "\""
Comma == ","
Semicolon == ";"
LeftBrace == "{"
RightBrace == "}"
Blank == " "

NoArray == [kind |-> "none", elements |-> << >>]
Array(es) == [kind |-> "array", elements |-> es]
Refused == [kind |-> "refused", elements |-> << >>]       \* an error instead

\* Text between quotes, with backslashes before quotes and backslashes
Backslashed(ch) == IF ch \in {Quote, "\\"} THEN << "\\", ch >> ELSE << ch >>
Quoted(e) == << Quote >> \o FlattenSeq([i \in DOMAIN e |-> Backslashed(e[i])]) \o << Quote >>

\* A comma behind each, the last one replaced by the brace
Braced(texts) ==
  IF texts = << >>
    THEN << LeftBrace, RightBrace >>
    ELSE << LeftBrace >> \o
         FlattenSeq([i \in DOMAIN texts |->
                       texts[i] \o << IF i = Len(texts) THEN RightBrace ELSE Comma >>])

-----------------------------------------------------------------------------
\* The empty text, NULL, and what has one of the characters in it
NeedsQuotes(e) ==
  \/ e \in {<< >>, << "NULL" >>}
  \/ Range(e) \cap {"\\", Quote, LeftBrace, RightBrace, Comma, Semicolon, Blank, "\t"} # {}

\* Mistake: the empty text is written as it is.
ElementTextEmpty(e) ==
  CASE e = SqlNull -> << "NULL" >>
    [] e # SqlNull /\ e # << >> /\ NeedsQuotes(e) -> Quoted(e)
    [] OTHER -> e

\* internal::array_append(), and NULL of an optional
ElementText(e) ==
  CASE e = SqlNull -> << "NULL" >>
    [] e # SqlNull /\ NeedsQuotes(e) -> Quoted(e)
    [] OTHER -> e

\* internal::to_array()
ToArray(es) == Braced([i \in DOMAIN es |-> ElementText(es[i])])

-----------------------------------------------------------------------------
\* internal::parse_quoted(), parse_unquoted() and parse(), as one automaton.
\* at: "open" (before the brace), "first" (behind it), "element" (behind a
\* comma), "quoted", "unquoted", "after" a quoted element, "done", "error"
ParserStart == [at |-> "open", escape |-> FALSE, element |-> << >>, elements |-> << >>]

Close(s, e) == [s EXCEPT !.elements = Append(@, e), !.element = << >>]

QuotedStep(s, ch) ==
  CASE s.escape -> [s EXCEPT !.escape = FALSE, !.element = Append(@, ch)]
    [] ~s.escape /\ ch = "\\" -> [s EXCEPT !.escape = TRUE]
    [] ~s.escape /\ ch = Quote -> [Close(s, s.element) EXCEPT !.at = "after"]
    [] OTHER -> [s EXCEPT !.element = Append(@, ch)]

\* A comma or a semicolon goes on to the next element, a brace ends the array.
Delimit(s, ch) ==
  CASE ch \in {Comma, Semicolon} -> [s EXCEPT !.at = "element"]
    [] ch = RightBrace -> [s EXCEPT !.at = "done"]
    [] OTHER -> [s EXCEPT !.at = "error"]

\* Mistake: NULL without quotes is a text like any other.
UnquotedStepVerbatim(s, ch) ==
  IF ch \in {Comma, Semicolon, RightBrace}
    THEN Delimit(Close(s, s.element), ch)
    ELSE [s EXCEPT !.at = "unquoted", !.element = Append(@, ch)]

\* strpbrk( value, ",;}" ) ends an element without quotes.
UnquotedStep(s, ch) ==
  IF ch \in {Comma, Semicolon, RightBrace}
    THEN Delimit(Close(s, IF s.element = << "NULL" >> THEN SqlNull ELSE s.element), ch)
    ELSE [s EXCEPT !.at = "unquoted", !.element = Append(@, ch)]

ParserStep(s, ch) ==
  CASE s.at = "open" -> [s EXCEPT !.at = IF ch = LeftBrace THEN "first" ELSE "error"]
    [] s.at = "first" /\ ch = RightBrace -> [s EXCEPT !.at = "done"]
    [] s.at \in {"first", "element"} /\ ch = Quote -> [s EXCEPT !.at = "quoted"]
    [] s.at = "quoted" -> QuotedStep(s, ch)
    [] s.at = "after" -> Delimit(s, ch)
    [] s.at \in {"done", "error"} -> [s EXCEPT !.at = "error"]
    [] OTHER -> UnquotedStep(s, ch)

Parse(text) ==
  LET s == After(ParserStep, ParserStart, text)
  IN  IF s.at = "done" THEN Array(s.elements) ELSE Refused

-----------------------------------------------------------------------------
\* The server, array_in() and array_out(), for the element delimiter of texts,
\* the comma.  Without quotes it drops blanks around an element and reads NULL
\* in any spelling; it puts quotes where it would misread an element itself.
Blanks == {Blank} \cup { Control(letter) : letter \in Letters \ {"b"} }

ServerNeedsQuotes(e) ==
  \/ e \in {<< >>, << "NULL" >>, << "null" >>}
  \/ Range(e) \cap ({"\\", Quote, LeftBrace, RightBrace, Comma} \cup Blanks) # {}

ServerElementText(e) ==
  CASE e = SqlNull -> << "NULL" >>
    [] e # SqlNull /\ ServerNeedsQuotes(e) -> Quoted(e)
    [] OTHER -> e

ServerToArray(es) == Braced([i \in DOMAIN es |-> ServerElementText(es[i])])

Trimmed(e) ==
  LET kept == { i \in DOMAIN e : e[i] \notin Blanks }
  IN  IF kept = {} THEN << >>
      ELSE SubSeq(e, CHOOSE i \in kept : \A j \in kept : i <= j,
                     CHOOSE i \in kept : \A j \in kept : j <= i)

ServerElement(e) == IF Trimmed(e) \in {<< "NULL" >>, << "null" >>} THEN SqlNull ELSE Trimmed(e)

ServerStepArray(s, ch) ==
  CASE s.at = "open" -> [s EXCEPT !.at = IF ch = LeftBrace THEN "first" ELSE "error"]
    [] s.at = "first" /\ ch = RightBrace -> [s EXCEPT !.at = "done"]
    [] s.at \in {"first", "element"} /\ ch = Quote -> [s EXCEPT !.at = "quoted"]
    [] s.at = "quoted" -> QuotedStep(s, ch)
    [] s.at = "after" /\ ch \in {Comma, RightBrace} -> Delimit(s, ch)
    [] \/ s.at \in {"first", "element", "unquoted"} /\ ch = Comma
       \/ s.at \in {"element", "unquoted"} /\ ch = RightBrace ->
         IF Trimmed(s.element) = << >> THEN [s EXCEPT !.at = "error"]
         ELSE Delimit(Close(s, ServerElement(s.element)), ch)
    [] /\ s.at \in {"first", "element", "unquoted"}
       /\ ch \notin {Comma, RightBrace, LeftBrace, Quote, "\\"} ->
         [s EXCEPT !.at = "unquoted", !.element = Append(@, ch)]
    [] OTHER -> [s EXCEPT !.at = "error"]

ServerParse(text) ==
  LET s == After(ServerStepArray, ParserStart, text)
  IN  IF s.at = "done" THEN Array(s.elements) ELSE Refused

-----------------------------------------------------------------------------
ArrayInit == sent = NoArray /\ stored = NoArray /\ received = NoArray

\* execute() with the array as a parameter
SendArray(es) ==
  /\ sent = NoArray
  /\ sent' = Array(es)
  /\ stored' = ServerParse(ToArray(es))
  /\ UNCHANGED received

\* table_writer::insert() with the array as a column
CopyArray(es) ==
  /\ sent = NoArray
  /\ sent' = Array(es)
  /\ stored' = ServerParse(ServerRow(InsertText(<< ToArray(es) >>))[1])
  /\ UNCHANGED received

\* result_traits<>::from() of a field, and of a field of a table_reader
ReceiveArray ==
  /\ stored.kind = "array" /\ received = NoArray
  /\ received' = Parse(ServerToArray(stored.elements))
  /\ UNCHANGED << sent, stored >>

FetchArray ==
  /\ stored.kind = "array" /\ received = NoArray
  /\ received' = Parse(ParseData(ServerText(<< ServerToArray(stored.elements) >>))[1])
  /\ UNCHANGED << sent, stored >>

ArrayNext ==
  \/ \E es \in Arrays : SendArray(es) \/ CopyArray(es)
  \/ ReceiveArray
  \/ FetchArray

ArraySpec == ArrayInit /\ [][ArrayNext]_arrayVars

-----------------------------------------------------------------------------
\* The elements that the library leaves without quotes although the server
\* reads them differently: NULL in another spelling, and a blank at an end that
\* is none to the library (it knows the space and the tab).
UnquotedForServer(e) ==
  /\ ~NeedsQuotes(e)
  /\ e = << "null" >> \/ e[1] \in Blanks \/ e[Len(e)] \in Blanks

\* And the elements the server leaves without quotes although the library ends
\* an element at a semicolon.
UnquotedForLibrary(e) == ~ServerNeedsQuotes(e) /\ Semicolon \in Range(e)

\* An array arrives on the server exactly as it was sent, as a parameter and
\* in a COPY alike, unless an element is one of the two kinds above: no other
\* element is split, joined, shortened, taken for NULL or refused.
ArraysArrive ==
  sent # NoArray =>
    (stored = sent <=> ~\E i \in DOMAIN sent.elements :
                          sent.elements[i] # SqlNull /\ UnquotedForServer(sent.elements[i]))

\* An array of the server is read as it is, unless a semicolon is not quoted.
ArraysReturn ==
  received # NoArray =>
    (received = stored <=> ~\E i \in DOMAIN stored.elements :
                              /\ stored.elements[i] # SqlNull
                              /\ UnquotedForLibrary(stored.elements[i]))

\* test/integration/array.cpp: an array selected is the array inserted.
ArraysRoundTrip == received # NoArray => received = sent
=============================================================================
