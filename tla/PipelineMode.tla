---------------------------- MODULE PipelineMode ----------------------------
(***************************************************************************)
(* Pipeline mode: the pipeline object, which puts the connection into the  *)
(* mode for its lifetime, and the calls that send queries and              *)
(* synchronisation points and collect results.  The calls of the           *)
(* connection itself, enter_pipeline_mode() and exit_pipeline_mode(), do   *)
(* the same without an object.                                             *)
(*                                                                         *)
(* In this mode libpq keeps a queue of the commands that were sent.  The   *)
(* result of a query is followed by a null, that of a synchronisation      *)
(* point is not; and nothing says to the program which of the two is next. *)
(* The queue and the nulls are external.                                   *)
(*                                                                         *)
(* The statements of commit() and prepare(), which the program should not  *)
(* execute in this mode, are left out.                                     *)
(***************************************************************************)
EXTENDS Naturals, SequencesExt

CONSTANT MaxCommands      \* bound: how many commands are sent

ASSUME MaxCommandsAssumption == MaxCommands \in Nat

VARIABLES
  pg,           \* libpq's side of the connection, see PipelineOff
  pipeline,     \* the pipeline object: "none", "active", or "finished" when
                \* it has given m_previous up
  commands,     \* how many commands were sent: the last one's number
  first,        \* the number of the first command after the mode was entered
  given,        \* history: the queries whose results the program was given
  threw,        \* did the last call throw?
  byHand,       \* history: the program entered the mode itself
  stuck         \* history: leaving the mode has failed

pipelineVars == << pg, pipeline, commands, first, given, threw, byHand, stuck >>

\* mode    PQpipelineStatus(): "off", "on", "aborted"
\* queue   the commands whose results were not all taken, oldest first
\* null    the null behind a query's result is next
\* single  single-row mode for the first query of the queue
\* closed  a timeout has closed the connection
PipelineOff ==
  [mode |-> "off", queue |-> << >>, null |-> FALSE, single |-> FALSE, closed |-> FALSE]

PipelineInit ==
  /\ pg = PipelineOff
  /\ pipeline = "none"
  /\ commands = 0
  /\ first = 1
  /\ given = << >>
  /\ threw = FALSE
  /\ byHand = FALSE
  /\ stuck = FALSE

-----------------------------------------------------------------------------
(* libpq                                                                   *)

Sends(cmd) == [pg EXCEPT !.queue = Append(@, [cmd |-> cmd, id |-> commands + 1])]

\* Does PQisBusy() come to an end?  The server answers at synchronisation
\* points; for an aborted query libpq makes up the result itself.
Answered(p) ==
  \/ p.null
  \/ p.queue = << >>
  \/ p.mode = "aborted" /\ Head(p.queue).cmd = "query"
  \/ \E i \in DOMAIN p.queue : p.queue[i].cmd = "sync"

Removed(p, mode, null) ==
  [p EXCEPT !.mode = mode, !.queue = Tail(@), !.null = null, !.single = FALSE]

\* PQgetResult(): what it may return, and what is left.
Taken(p) ==
  CASE p.null -> { [status |-> "null", left |-> [p EXCEPT !.null = FALSE]] }
    [] ~p.null /\ p.queue = << >> -> { [status |-> "null", left |-> p] }
    [] ~p.null /\ p.queue # << >> /\ Head(p.queue).cmd = "sync" ->
         { [status |-> "sync", left |-> Removed(p, "on", FALSE)] }
    [] ~p.null /\ p.queue # << >> /\ Head(p.queue).cmd = "query" ->
         IF p.mode = "aborted"
           THEN { [status |-> "aborted", left |-> Removed(p, "aborted", TRUE)] }
           ELSE { [status |-> "ok", left |-> Removed(p, "on", TRUE)],
                  [status |-> "error", left |-> Removed(p, "aborted", TRUE)] }
                \cup (IF p.single THEN { [status |-> "row", left |-> p] } ELSE {})

\* PQexitPipelineMode() returns 1.
MayExit == ~pg.closed /\ pg.queue = << >>

-----------------------------------------------------------------------------
(* The calls                                                               *)

\* connection::enter_pipeline_mode(): if the mode is on already, nothing
Enter ==
  IF pg.mode = "off"
    THEN pg' = [pg EXCEPT !.mode = "on"] /\ first' = commands + 1
    ELSE UNCHANGED << pg, first >>

\* connection::exit_pipeline_mode()
Exit ==
  /\ pg' = IF MayExit THEN PipelineOff ELSE pg
  /\ threw' = ~MayExit
  /\ stuck' = ~MayExit
  /\ byHand' = (byHand /\ ~MayExit)

EnterByHand ==
  /\ ~pg.closed /\ pipeline # "active"
  /\ Enter
  /\ byHand' = TRUE
  /\ threw' = FALSE
  /\ UNCHANGED << pipeline, commands, given, stuck >>

ExitByHand ==
  /\ ~pg.closed /\ pipeline # "active"
  /\ Exit
  /\ UNCHANGED << pipeline, commands, first, given >>

\* The constructor of the pipeline
OpenPipeline ==
  /\ ~pg.closed /\ pipeline = "none"
  /\ Enter
  /\ pipeline' = "active"
  /\ threw' = FALSE
  /\ UNCHANGED << commands, given, byHand, stuck >>

\* transaction_base::send() and pipeline::sync()
SendCommand(cmd) ==
  /\ ~pg.closed /\ pg.mode # "off" /\ commands < MaxCommands
  /\ pg' = Sends(cmd)
  /\ commands' = commands + 1
  /\ threw' = FALSE
  /\ UNCHANGED << pipeline, first, given, byHand, stuck >>

\* transaction_base::set_single_row_mode()
SetSingleRowMode ==
  /\ ~pg.closed /\ pg.mode = "on" /\ ~pg.null /\ pg.queue # << >>
  /\ Head(pg.queue).cmd = "query" /\ ~pg.single
  /\ pg' = [pg EXCEPT !.single = TRUE]
  /\ threw' = FALSE
  /\ UNCHANGED << pipeline, commands, first, given, byHand, stuck >>

\* connection::wait() throws timeout_reached: PQfinish()
Timeout ==
  /\ pg.queue # << >>
  /\ pg' = [PipelineOff EXCEPT !.closed = TRUE]
  /\ threw' = TRUE
  /\ UNCHANGED given

Throws(left) == pg' = left /\ threw' = TRUE /\ UNCHANGED given

\* Does the program learn the result of the first query?  It does by an
\* exception, too, if that is the error of the query.
Gives(status) ==
  IF status \in {"ok", "error", "aborted"}
    THEN given' = Append(given, Head(pg.queue).id)
    ELSE UNCHANGED given

\* get_result() and then consume_empty_result(), except for a single row.
\* Behind a synchronisation point there is no null: the first result of what
\* follows is taken, and the call throws.
Collect(taken) ==
  IF taken.status = "row"
    THEN pg' = taken.left /\ threw' = FALSE /\ UNCHANGED given
    ELSE /\ Answered(taken.left)
         /\ \E next \in Taken(taken.left) :
              IF next.status = "null"
                THEN /\ pg' = next.left
                     /\ threw' = (taken.status = "error")
                     /\ Gives(taken.status)
                ELSE Throws(next.left)

\* transaction_base::get_result()
PipelineGetResult ==
  /\ ~pg.closed /\ pg.mode # "off"
  /\ \/ Timeout
     \/ /\ Answered(pg)
        /\ \E taken \in Taken(pg) :
             IF taken.status = "null" THEN Throws(taken.left) ELSE Collect(taken)
  /\ UNCHANGED << pipeline, commands, first, byHand, stuck >>

\* Mistake: whatever result is next is taken for the synchronisation point.
ConsumeSyncUnread ==
  /\ ~pg.closed /\ pg.mode # "off"
  /\ \/ Timeout
     \/ /\ Answered(pg)
        /\ \E taken \in Taken(pg) : pg' = taken.left /\ threw' = FALSE /\ UNCHANGED given
  /\ UNCHANGED << pipeline, commands, first, byHand, stuck >>

\* transaction_base::consume_pipeline_sync(): another result is taken as well,
\* but then the call throws.
ConsumeSync ==
  /\ ~pg.closed /\ pg.mode # "off"
  /\ \/ Timeout
     \/ /\ Answered(pg)
        /\ \E taken \in Taken(pg) :
             /\ pg' = taken.left
             /\ threw' = (taken.status # "sync")
             /\ UNCHANGED given
  /\ UNCHANGED << pipeline, commands, first, byHand, stuck >>

\* Mistake: the pipeline gives the transaction back, and stays in the mode.
FinishActiveQuietly ==
  /\ pipeline' = "finished"
  /\ threw' = FALSE
  /\ UNCHANGED << pg, byHand, stuck >>

\* m_previous is gone before the mode is left.
FinishActive == pipeline' = "finished" /\ Exit

\* pipeline::finish(); again it does nothing, also if it threw before.
PipelineFinish ==
  /\ pipeline # "none"
  /\ IF pipeline = "active"
       THEN FinishActive
       ELSE threw' = FALSE /\ UNCHANGED << pg, pipeline, byHand, stuck >>
  /\ UNCHANGED << commands, first, given >>

\* ~pipeline() of a pipeline that is finished; one that is not finishes first
\* (PipelineFinish), its exception being caught.
PipelineDestroy ==
  /\ pipeline = "finished"
  /\ pipeline' = "none"
  /\ UNCHANGED << pg, commands, first, given, threw, byHand, stuck >>

PipelineNext ==
  \/ EnterByHand
  \/ ExitByHand
  \/ OpenPipeline
  \/ \E cmd \in {"query", "sync"} : SendCommand(cmd)
  \/ SetSingleRowMode
  \/ PipelineGetResult
  \/ ConsumeSync
  \/ PipelineFinish
  \/ PipelineDestroy

PipelineSpec == PipelineInit /\ [][PipelineNext]_pipelineVars

-----------------------------------------------------------------------------
\* The queries among the commands of a queue
Queries(q) ==
  LET ids[n \in 0 .. Len(q)] ==
        IF n = 0 THEN << >>
        ELSE IF q[n].cmd = "query" THEN Append(ids[n - 1], q[n].id) ELSE ids[n - 1]
  IN  ids[Len(q)]

Waiting == Queries(pg.queue)

\* What a program may rely on in whatever order it sends, synchronises and
\* collects: get_result() gives the results in the order of the queries, and
\* skips one, having mistaken it for a null or for a synchronisation point,
\* only when it, or consume_sync(), throws.
PipelineResults ==
  INSTANCE ResultQueue WITH Query <- 1 .. MaxCommands, waiting <- Waiting
ImplementsResultQueue == PipelineResults!Spec

\* The connection is in pipeline mode exactly for the lifetime of a pipeline
\* object, with no result left over from before; unless the program has
\* entered the mode itself, or finish() or the destructor could not leave it
\* (then no later finish() tries again, and the next pipeline gets the
\* results that were left).
ModeIsOwned ==
  byHand \/ stuck \/ pg.closed
    \/ /\ (pg.mode = "off") = (pipeline # "active")
       /\ \A i \in DOMAIN pg.queue : pg.queue[i].id >= first
=============================================================================
