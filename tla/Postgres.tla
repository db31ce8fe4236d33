------------------------------ MODULE Postgres ------------------------------
(***************************************************************************)
(* The part of a PostgreSQL session that taoPQ's transactions rely on      *)
(* (external: the server is not in the repository).  A session is          *)
(*   xact    what the protocol's ReadyForQuery message reports, and what   *)
(*           libpq hands out through PQtransactionStatus()                 *)
(*   levels  the open transaction block and its savepoints, outermost      *)
(*           first: the savepoint's name, the transaction object that      *)
(*           created the level, and the objects whose writes are pending   *)
(*           in it                                                         *)
(* A write is identified by the transaction object that executed it.       *)
(***************************************************************************)
EXTENDS Naturals, Sequences

\* The commands the library sends; by is the object that sends the command,
\* name the savepoint it names.
Ops == {"write", "start", "commit", "rollback", "savepoint", "release", "rollback_to"}
Command(op, by, name) == [op |-> op, by |-> by, name |-> name]

Idle == [xact |-> "idle", levels |-> <<>>]

Sessions(Names, Writers) ==
  [ xact   : {"idle", "in_transaction", "error"},
    levels : Seq([name : Names, by : Writers, writes : SUBSET Writers]) ]

Pending(s) == UNION { s.levels[i].writes : i \in 1 .. Len(s.levels) }

\* Savepoint names may repeat; a command means the newest of that name.  The
\* first level is the transaction block itself and has no name.
Named(s, name) == { i \in 2 .. Len(s.levels) : s.levels[i].name = name }
Newest(s, name) ==
  CHOOSE i \in Named(s, name) : \A j \in Named(s, name) : j <= i

Accepts(s, c) ==
  CASE c.op \in {"write", "start"}      -> s.xact # "error"
    [] c.op \in {"commit", "rollback"}  -> TRUE
    [] c.op = "savepoint"               -> s.xact = "in_transaction"
    [] c.op = "release"                 -> s.xact = "in_transaction" /\ Named(s, c.name) # {}
    [] c.op = "rollback_to"             -> s.xact # "idle" /\ Named(s, c.name) # {}

\* The first n levels, with w as the pending writes of the last of them.
Cut(s, n, w) ==
  [ xact   |-> "in_transaction",
    levels |-> Append(SubSeq(s.levels, 1, n - 1), [s.levels[n] EXCEPT !.writes = w]) ]

Level(c) == [name |-> c.name, by |-> c.by, writes |-> {}]

\* The session after a command it accepts.  START in a transaction block is
\* only a warning; ROLLBACK TO keeps the savepoint it rolls back to.
Apply(s, c) ==
  LET n == Len(s.levels)
  IN  CASE c.op = "write" ->
             IF s.xact = "idle" THEN s
             ELSE Cut(s, n, s.levels[n].writes \cup {c.by})
        [] c.op = "start" ->
             IF s.xact = "idle"
               THEN [xact |-> "in_transaction", levels |-> << Level(c) >>]
               ELSE s
        [] c.op \in {"commit", "rollback"} -> Idle
        [] c.op = "savepoint" -> [s EXCEPT !.levels = Append(@, Level(c))]
        [] c.op = "release" ->
             LET i == Newest(s, c.name)
             IN  Cut(s, i - 1, UNION { s.levels[j].writes : j \in (i - 1) .. n })
        [] c.op = "rollback_to" -> Cut(s, Newest(s, c.name), {})

\* The writes an accepted command makes durable.  COMMIT of a failed
\* transaction succeeds and discards them.
Hardens(s, c) ==
  CASE c.op = "commit" /\ s.xact = "in_transaction" -> Pending(s)
    [] c.op = "write" /\ s.xact = "idle"            -> {c.by}
    [] OTHER                                        -> {}

\* The session after a command it answers with an error.
Fail(s, c) ==
  IF s.xact = "idle" \/ c.op = "commit" THEN Idle ELSE [s EXCEPT !.xact = "error"]
=============================================================================
