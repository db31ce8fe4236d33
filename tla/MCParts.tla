------------------------------ MODULE MCParts -------------------------------
(***************************************************************************)
(* The parts of the library around the transactions, each on its own: the  *)
(* session of a connection, its pipeline mode, and what turns values, rows *)
(* and errors into each other.  They share no state (the statements of     *)
(* Session are executed outside of pipeline mode), and a behaviour         *)
(* exercises one of them.                                                  *)
(***************************************************************************)
EXTENDS Session, PipelineMode, SqlState, RowTypes, ArrayText, Parameter, TableRows

CONSTANT Parts          \* the parts that are looked at

VARIABLE part           \* the one of this behaviour

\* Types of one to four columns
MCTypes ==
  LET plain == [of |-> "plain", parts |-> << >>]
      optional == [of |-> "optional", parts |-> << >>]
      tuple(parts) == [of |-> "tuple", parts |-> parts]
      optional_of(parts) == [of |-> "optional_tuple", parts |-> parts]
      t2 == << plain, optional >>
      o2 == optional_of(<< optional, plain >>)
  IN  { plain, optional, tuple(t2), o2, optional_of(t2), tuple(<< optional, tuple(t2) >>),
        tuple(<< o2, plain >>), optional_of(<< plain, o2 >>), tuple(<< plain >>),
        tuple(<< optional, tuple(t2), optional >>), tuple(<< tuple(t2), o2 >>) }

\* Values of up to two characters: one that means nothing, the separator and
\* the end of a row, the escape, and letters that mean something behind it; and
\* the other control characters and letters alone
MCCells ==
  {SqlNull} \cup UNION { [1 .. n -> {"x", "N", "n", "\\", "\t", "\n"}] : n \in 0 .. 2 }
            \cup [{1} -> Controls \cup Letters]

\* Elements of up to two characters, see ArrayText
MCElements ==
  {SqlNull} \cup
  UNION { [1 .. n -> {"x", "NULL", "null", ",", ";", "\"", "\\", "{", "}", " ", "\n"}] : n \in 0 .. 2 }
            \cup [{1} -> Controls]

\* Arrays of up to two elements, not both of more than one character
MCArrays ==
  LET short == { e \in MCElements : Len(e) <= 1 }
  IN  {<< >>} \cup { << a >> : a \in MCElements } \cup (MCElements \X short) \cup (short \X MCElements)

\* A temporary string; a variable with a type of two columns and a string; a
\* temporary pair of a string and a number; and temporaries that to_taopq()
\* converts to references: one of its own, and one in a pair with a view
MCArguments ==
  { [columns |-> << 1 >>, lies |-> << "argument" >>, contained |-> << FALSE >>, temporary |-> TRUE],
    [columns |-> << 2, 1 >>, lies |-> << "traits", "argument" >>,
     contained |-> << TRUE, FALSE >>, temporary |-> FALSE],
    [columns |-> << 1, 1 >>, lies |-> << "argument", "traits" >>,
     contained |-> << FALSE, TRUE >>, temporary |-> TRUE],
    [columns |-> << 2 >>, lies |-> << "argument" >>, contained |-> << TRUE >>, temporary |-> TRUE],
    [columns |-> << 1, 1 >>, lies |-> << "argument", "program" >>,
     contained |-> << TRUE, FALSE >>, temporary |-> TRUE] }

Init ==
  /\ part \in Parts
  /\ SessionInit /\ PipelineInit /\ SqlStateInit /\ RowInit
  /\ CopyInit /\ ArrayInit /\ ParameterInit /\ TableInit

Next ==
  /\ UNCHANGED part
  /\ \/ /\ part = "session" /\ SessionNext
        /\ UNCHANGED << pipelineVars, sqlStateVars, rowVars, copyVars,
                        arrayVars, parameterVars, tableVars >>
     \/ /\ part = "pipeline" /\ PipelineNext
        /\ UNCHANGED << sessionVars, sqlStateVars, rowVars, copyVars,
                        arrayVars, parameterVars, tableVars >>
     \/ /\ part = "sql_state" /\ SqlStateNext
        /\ UNCHANGED << sessionVars, pipelineVars, rowVars, copyVars,
                        arrayVars, parameterVars, tableVars >>
     \/ /\ part = "row" /\ RowNext
        /\ UNCHANGED << sessionVars, pipelineVars, sqlStateVars, copyVars,
                        arrayVars, parameterVars, tableVars >>
     \/ /\ part = "copy" /\ CopyNext
        /\ UNCHANGED << sessionVars, pipelineVars, sqlStateVars, rowVars,
                        arrayVars, parameterVars, tableVars >>
     \/ /\ part = "array" /\ ArrayNext
        /\ UNCHANGED << sessionVars, pipelineVars, sqlStateVars, rowVars,
                        copyVars, parameterVars, tableVars >>
     \/ /\ part = "parameter" /\ ParameterNext
        /\ UNCHANGED << sessionVars, pipelineVars, sqlStateVars, rowVars,
                        copyVars, arrayVars, tableVars >>
     \/ /\ part = "table" /\ TableNext
        /\ UNCHANGED << sessionVars, pipelineVars, sqlStateVars, rowVars,
                        copyVars, arrayVars, parameterVars >>
=============================================================================
