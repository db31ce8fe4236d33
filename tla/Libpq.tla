------------------------------- MODULE Libpq -------------------------------
(***************************************************************************)
(* The part of libpq's asynchronous interface that a conversation about    *)
(* one statement goes through, outside of pipeline mode (external: libpq   *)
(* is not in the repository).  A connection is a record of                 *)
(*   async    what libpq is in the middle of; "closed" stands for a        *)
(*            connection that is lost, or a null PGconn                    *)
(*   replies  the results the server sends before it is ready again        *)
(*   rows     in a COPY TO, the rows it sends before the COPY ends         *)
(*   ending   and the result with which the COPY ends                      *)
(* After the last reply the server reports that it is ready (the protocol  *)
(* message ReadyForQuery): PQgetResult() returns null, and any call that   *)
(* parses the input makes the connection idle.                             *)
(***************************************************************************)
EXTENDS Naturals, Sequences

Results == {"command_ok", "fatal_error", "empty_query", "copy_in", "copy_out"}
Endings == {"command_ok", "fatal_error"}

Connections(maxRows) ==
  [ async   : {"idle", "busy", "copy_in", "copy_out", "closed"},
    replies : Seq(Results),
    rows    : 0 .. maxRows,
    ending  : Endings ]

Fresh == [async |-> "idle", replies |-> <<>>, rows |-> 0, ending |-> "command_ok"]
Closed == [Fresh EXCEPT !.async = "closed"]

\* PQsendQueryParams() on an idle connection; the server's first reply, and
\* what it has in stock if that is the beginning of a COPY TO.
Sent(pg, reply, rows, ending) ==
  [async |-> "busy", replies |-> << reply >>, rows |-> rows, ending |-> ending]

\* PQgetResult() when PQisBusy() is false: a result, and what is left.  During
\* a COPY it returns the result that announced it again and again.
Result(pg) ==
  CASE pg.async = "busy" /\ pg.replies # <<>> -> Head(pg.replies)
    [] pg.async \in {"copy_in", "copy_out"}   -> pg.async
    [] OTHER                                  -> "null"

AfterResult(pg) ==
  CASE pg.async = "busy" /\ pg.replies # <<>> ->
         [pg EXCEPT !.replies = Tail(@),
                    !.async = IF Result(pg) \in {"copy_in", "copy_out"} THEN Result(pg) ELSE "busy"]
    [] pg.async = "busy" /\ pg.replies = <<>> -> [pg EXCEPT !.async = "idle"]
    [] OTHER                                  -> pg

\* PQnotifies() parses what has arrived: that may include the message that the
\* server is ready, or not yet.
Parsed(pg) ==
  {pg} \cup (IF pg.async = "busy" /\ pg.replies = <<>> THEN {[pg EXCEPT !.async = "idle"]} ELSE {})

\* PQgetCopyData() at the end of a COPY TO, PQputCopyEnd() in a COPY FROM:
\* one more reply is on its way.
CopyEnds(pg, reply) == [pg EXCEPT !.async = "busy", !.replies = << reply >>]

\* What PQcancel() may come to: the COPY TO fails before or after some more
\* rows, or it was at its end already.
Cancelled(pg) ==
  {pg} \cup
    (IF pg.async = "copy_out" \/ pg.replies = << "copy_out" >>
       THEN { [pg EXCEPT !.rows = n, !.ending = "fatal_error"] : n \in 0 .. pg.rows }
       ELSE {})
=============================================================================
