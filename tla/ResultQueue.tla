---------------------------- MODULE ResultQueue -----------------------------
(***************************************************************************)
(* What a program may expect of pipeline mode: the results come in the     *)
(* order in which the queries were sent, each once; results are passed     *)
(* over only by a call that throws.                                        *)
(***************************************************************************)
EXTENDS Naturals, Sequences

CONSTANT Query      \* the queries

VARIABLES
  waiting,          \* queries that were sent, and their results not given
  given,            \* queries whose results the program was given, in order
  threw             \* did the last call throw?

queueVars == << waiting, given, threw >>

Init == waiting = << >> /\ given = << >> /\ threw = FALSE

Send(q) ==
  /\ \A i \in DOMAIN waiting : waiting[i] # q
  /\ waiting' = Append(waiting, q)
  /\ threw' = FALSE
  /\ UNCHANGED given

\* The result may be the error of the query, which is thrown.
Give ==
  /\ waiting # << >>
  /\ given' = Append(given, Head(waiting))
  /\ waiting' = Tail(waiting)
  /\ threw' \in BOOLEAN

PassOver ==
  /\ threw' = TRUE
  /\ \E n \in 1 .. Len(waiting) : waiting' = SubSeq(waiting, n + 1, Len(waiting))
  /\ UNCHANGED given

\* Any other call
Other == threw' \in BOOLEAN /\ UNCHANGED << waiting, given >>

Next ==
  \/ \E q \in Query : Send(q)
  \/ Give
  \/ PassOver
  \/ Other

Spec == Init /\ [][Next]_queueVars
=============================================================================
