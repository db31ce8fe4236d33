---------------------------- MODULE BulkTransfer ----------------------------
(***************************************************************************)
(* table_reader, table_writer, and any statement executed, on direct       *)
(* transactions of one connection: Registry composed with the conversation *)
(* that the connection has with libpq.                                     *)
(*                                                                         *)
(* A method is not one step: each function of connection that it calls on  *)
(* the way is, and each of them may throw, because the timeout has closed  *)
(* the connection, because a poll callback or a notification handler       *)
(* throws, or because libpq answers something else than the method         *)
(* expects.  An exception ends the method where it is.                     *)
(*                                                                         *)
(* A reader or writer is identified with its transaction_guard.  A direct  *)
(* transaction executes no statement of its own at its begin and end.      *)
(***************************************************************************)
EXTENDS Registry, Libpq

CONSTANTS
  MaxRows,        \* the longest COPY TO
  CallbacksThrow  \* may poll callbacks and notification handlers throw?

ASSUME MaxRowsAssumption == MaxRows \in Nat
ASSUME CallbacksThrowAssumption == CallbacksThrow \in BOOLEAN

VARIABLES
  pg,             \* the connection, as libpq and the server have it
  role,           \* what each object is the guard of
  call,           \* the method that is running, its object, and what is left
                  \* for it to call
  last,           \* history: the method that ran last, and what it threw
  copier,         \* history: the object that sent the last statement
  failed,         \* history: the readers and writers that have thrown
  stored,         \* history: the server completed the COPY FROM of the writer
                  \* constructed last
  asked           \* history: commit() of that writer was called

historyVars == << last, copier, failed, stored, asked >>
vars == << registryVars, pg, role, call, historyVars >>

\* The methods: send(), execute() and get_result() of a transaction, the
\* constructor and get_raw_data() of a reader (with a row, or at the end), the
\* constructor, insert_raw(), commit() and the destructor of a writer
Methods == { "send", "execute", "get_result", "reader", "row", "read",
             "writer", "insert", "commit", "unwind" }

\* What they call: transaction_base::send_params() and get_result(), the
\* switches of reader, writer and get_raw_data() on a result of
\* connection::get_result(), get_fatal_error(), consume_empty_result(),
\* put_copy_end() without and with a message, cancel(), clear_copy_data().
\* "throw" is an exception, "unreachable" is TAO_PQ_INTERNAL_UNREACHABLE.
Calls == { "send", "tx_result", "reader_result", "writer_result", "read_result",
           "fatal", "null", "put_end", "put_error", "cancel", "clear",
           "throw", "unreachable" }

\* Nothing thrown; thrown by check_current_transaction(); by a callback; by
\* cancel(), as the request could not be made; by anything else
Exceptions == {"none", "order", "callback", "cancel", "other"}

NoCall == [op |-> "none", obj |-> NoTx, todo |-> <<>>]

CopyTypeOK ==
  /\ pg \in Connections(MaxRows)
  /\ role \in [Tx -> {"none", "reader", "writer"}]
  /\ call \in {NoCall} \cup [op : Methods, obj : Tx, todo : Seq(Calls) \ {<<>>}]
  /\ last \in [op : Methods \cup {"none"}, thrown : Exceptions]
  /\ copier \in Tx \cup {NoTx}
  /\ failed \in SUBSET Tx
  /\ stored \in BOOLEAN
  /\ asked \in BOOLEAN

TypeOK == RegistryTypeOK /\ CopyTypeOK

Init ==
  /\ RegistryInit
  /\ pg = Fresh
  /\ role = [t \in Tx |-> "none"]
  /\ call = NoCall
  /\ last = [op |-> "none", thrown |-> "none"]
  /\ copier = NoTx
  /\ failed = {}
  /\ stored = FALSE
  /\ asked = FALSE

-----------------------------------------------------------------------------
(* How a method goes on and ends.                                          *)

Start(op, obj, todo) == call' = [op |-> op, obj |-> obj, todo |-> todo]

\* Method op of object t has ended.
Finished(op, t, thrown) ==
  /\ last' = [op |-> op, thrown |-> thrown]
  /\ failed' = IF thrown = "none" THEN failed ELSE failed \cup {t}

\* A reader or writer whose constructor throws is not alive, and gives up its
\* guard; so do a reader at its end, a writer after commit(), and a writer
\* whose destructor has run, whatever it met.
GivesUpGuard(thrown) ==
  \/ call.op \in {"reader", "writer"} /\ thrown # "none"
  \/ call.op \in {"read", "commit"} /\ thrown = "none"
  \/ call.op = "unwind"

End(thrown) ==
  /\ call' = NoCall
  /\ Finished(call.op, call.obj, thrown)
  /\ IF GivesUpGuard(thrown)
       THEN Drop(call.obj) /\ role' = [role EXCEPT ![call.obj] = "none"]
       ELSE UNCHANGED << registryVars, role >>

\* What was called has returned, and this is left to be called.
Proceed(todo) ==
  IF todo = <<>>
    THEN End("none")
    ELSE /\ call' = [call EXCEPT !.todo = todo]
         /\ UNCHANGED << registryVars, role, last, failed >>

Calling(c) == call.todo # <<>> /\ Head(call.todo) = c
Rest == Tail(call.todo)

\* While libpq waits, the timeout may close the connection.
TimesOut == pg' = Closed /\ End("other") /\ UNCHANGED stored

-----------------------------------------------------------------------------
(* What the methods call.                                                  *)

\* send_params(): libpq refuses a connection that is not idle.  The server may
\* answer with any first result, a COPY TO with any number of rows.
SendParams ==
  /\ Calling("send")
  /\ IF IsCurrent(call.obj) /\ pg.async = "idle"
       THEN /\ \E reply \in Results, rows \in 0 .. MaxRows, ending \in Endings :
                 /\ reply # "copy_out" => rows = 0 /\ ending = "command_ok"
                 /\ pg' = Sent(pg, reply, rows, ending)
            /\ copier' = call.obj
            /\ Proceed(Rest)
       ELSE /\ End(IF IsCurrent(call.obj) THEN "other" ELSE "order")
            /\ UNCHANGED << pg, copier >>
  /\ UNCHANGED << stored, asked >>

\* The switches on a first result r: what is then left to be called.
Refuse == << "cancel", "clear", "fatal", "null", "throw" >>

\* Mistakes in transaction_base::get_result(): it does not end a COPY; it does
\* not throw when it has ended one; it leaves the null behind.
AfterTxResultCopies(r) == IF r = "command_ok" THEN << "null" >> ELSE << "throw" >>

AfterTxResultQuiet(r) ==
  CASE r = "command_ok" -> << "null" >>
    [] r = "copy_in"    -> << "put_error", "fatal", "null" >>
    [] r = "copy_out"   -> Refuse
    [] OTHER            -> << "null", "throw" >>

AfterTxResultEarly(r) ==
  CASE r = "command_ok" -> <<>>
    [] r = "copy_in"    -> << "put_error", "fatal", "null", "throw" >>
    [] r = "copy_out"   -> Refuse
    [] OTHER            -> << "throw" >>

AfterTxResult(r) ==
  CASE r = "command_ok" -> << "null" >>
    [] r = "copy_in"    -> << "put_error", "fatal", "null", "throw" >>
    [] r = "copy_out"   -> Refuse
    [] r = "null"       -> << "throw" >>
    [] OTHER            -> << "null", "throw" >>

AfterReaderResult(r) ==
  CASE r = "copy_out" -> <<>>
    [] r = "copy_in"  -> << "tx_result", "unreachable" >>
    [] OTHER          -> << "null", "throw" >>

\* Mistake: a writer takes any COPY.
AfterWriterResultAny(r) == IF r \in {"copy_in", "copy_out"} THEN <<>> ELSE << "null", "throw" >>

AfterWriterResult(r) ==
  CASE r = "copy_in"  -> <<>>
    [] r = "copy_out" -> Refuse
    [] OTHER          -> << "null", "throw" >>

\* Mistake: get_raw_data() does not look at the result after the last row.
AfterReadResultAny(r) == <<>>

\* The constructor of result throws.
AfterReadResult(r) == IF r = "command_ok" THEN <<>> ELSE << "throw" >>

\* get_fatal_error() and consume_empty_result()
AfterFatal(r) == IF r = "fatal_error" THEN <<>> ELSE << "throw" >>
AfterNull(r)  == IF r = "null" THEN <<>> ELSE << "throw" >>

\* connection::get_result(), after whose result todo is left to be called: a
\* notification handler that throws does so when the result is already taken
\* from libpq.
Receive(c, todo) ==
  /\ Calling(c)
  /\ \/ /\ pg' \in Parsed(AfterResult(pg))
        /\ Proceed(todo \o Rest)
        /\ UNCHANGED stored
     \/ pg.async = "busy" /\ TimesOut
     \/ /\ CallbacksThrow
        /\ pg' \in Parsed(pg) \cup Parsed(AfterResult(pg))
        /\ End("callback")
        /\ UNCHANGED stored
  /\ UNCHANGED << copier, asked >>

TxResult ==
  /\ Calling("tx_result")
  /\ IF IsCurrent(call.obj)
       THEN Receive("tx_result", AfterTxResult(Result(pg)))
       ELSE End("order") /\ UNCHANGED << pg, copier, stored, asked >>

GetResult ==
  \/ TxResult
  \/ Receive("reader_result", AfterReaderResult(Result(pg)))
  \/ Receive("writer_result", AfterWriterResult(Result(pg)))
  \/ Receive("read_result", AfterReadResult(Result(pg)))
  \/ Receive("fatal", AfterFatal(Result(pg)))
  \/ Receive("null", AfterNull(Result(pg)))

\* Mistake: the message is lost.
CopyInRepliesAlike(c) == {"command_ok", "fatal_error"}

\* The server's answer to the end of a COPY FROM: what was written may be
\* wrong, or be refused; a COPY that ends with a message always fails.
CopyInReplies(c) == IF c = "put_end" THEN {"command_ok", "fatal_error"} ELSE {"fatal_error"}

\* put_copy_end()
PutCopyEnd(c) ==
  /\ Calling(c)
  /\ \/ \E reply \in CopyInReplies(c) :
          /\ pg.async = "copy_in"
          /\ pg' = CopyEnds(pg, reply)
          /\ stored' = (stored \/ reply = "command_ok")
          /\ Proceed(Rest)
     \/ pg.async = "copy_in" /\ TimesOut
     \/ pg.async = "copy_in" /\ CallbacksThrow /\ End("callback") /\ UNCHANGED << pg, stored >>
     \/ pg.async # "copy_in" /\ End("other") /\ UNCHANGED << pg, stored >>
  /\ UNCHANGED << copier, asked >>

\* cancel(): without a connection there is nothing to cancel, and the request
\* may fail.
Cancel ==
  /\ Calling("cancel")
  /\ \/ pg' \in Cancelled(pg) /\ Proceed(Rest)
     \/ pg.async # "closed" /\ End("cancel") /\ UNCHANGED pg
  /\ UNCHANGED << copier, stored, asked >>

\* clear_copy_data(): the rows are dropped.
ClearCopyData ==
  /\ Calling("clear")
  /\ \/ pg.async = "copy_out" /\ pg' = CopyEnds(pg, pg.ending) /\ Proceed(Rest) /\ UNCHANGED stored
     \/ pg.async = "copy_out" /\ TimesOut
     \/ /\ pg.async = "copy_out" /\ CallbacksThrow
        /\ \E n \in 0 .. pg.rows : pg' = [pg EXCEPT !.rows = n]
        /\ End("callback") /\ UNCHANGED stored
     \/ pg.async # "copy_out" /\ End("other") /\ UNCHANGED << pg, stored >>
  /\ UNCHANGED << copier, asked >>

Throw ==
  /\ Calling("throw")
  /\ End("other")
  /\ UNCHANGED << pg, copier, stored, asked >>

Step ==
  \/ SendParams \/ GetResult \/ Cancel \/ ClearCopyData \/ Throw
  \/ \E c \in {"put_end", "put_error"} : PutCopyEnd(c)

-----------------------------------------------------------------------------
(* The methods.                                                            *)

Ready == Running /\ call = NoCall

BeginDirect(t) ==
  /\ Ready
  /\ Begin(t, "direct")
  /\ UNCHANGED << pg, role, call, historyVars >>

\* commit() or rollback()
FinishDirect(t) ==
  /\ Ready
  /\ Finish(t)
  /\ UNCHANGED << pg, role, call, historyVars >>

\* send(), execute(), get_result()
Request(t, op, todo) ==
  /\ Ready
  /\ held[t] /\ kind[t] = "direct"
  /\ Start(op, t, todo)
  /\ UNCHANGED << registryVars, pg, role, historyVars >>

Requests(t) ==
  \/ Request(t, "send", << "send" >>)
  \/ Request(t, "execute", << "send", "tx_result" >>)
  \/ Request(t, "get_result", << "tx_result" >>)

\* The constructors: the guard is registered first.
NewReader(p, g) ==
  /\ Ready
  /\ Guard(p, g)
  /\ role' = [role EXCEPT ![g] = "reader"]
  /\ failed' = failed \ {g}
  /\ Start("reader", g, << "send", "reader_result" >>)
  /\ UNCHANGED << pg, last, copier, stored, asked >>

NewWriter(p, g) ==
  /\ Ready
  /\ Guard(p, g)
  /\ role' = [role EXCEPT ![g] = "writer"]
  /\ failed' = failed \ {g}
  /\ Start("writer", g, << "send", "writer_result" >>)
  /\ stored' = FALSE
  /\ asked' = FALSE
  /\ UNCHANGED << pg, last, copier >>

\* The methods of readers and writers do not check that their guard is the
\* current transaction.
Usable(g, r) ==
  /\ Ready /\ role[g] = r
  /\ OutOfOrder \/ current = g

\* Mistake: the end of the rows is taken for a row.
HasRowPast == pg.async = "copy_out"

\* get_copy_data() returns a row.
HasRow == pg.async = "copy_out" /\ pg.rows > 0

\* get_raw_data(): a row, the end of the rows, or an exception
Read(g) ==
  /\ Usable(g, "reader")
  /\ \/ /\ HasRow
        /\ pg' = [pg EXCEPT !.rows = @ - 1]
        /\ Finished("row", g, "none")
        /\ UNCHANGED call
     \/ /\ pg.async = "copy_out" /\ ~HasRow
        /\ pg' = CopyEnds(pg, pg.ending)
        /\ Start("read", g, << "read_result" >>)
        /\ UNCHANGED << last, failed >>
     \/ /\ pg.async = "copy_out"
        /\ pg' = Closed
        /\ Finished("row", g, "other")
        /\ UNCHANGED call
     \/ /\ pg.async = "copy_out" /\ CallbacksThrow
        /\ Finished("row", g, "callback")
        /\ UNCHANGED << pg, call >>
     \/ /\ pg.async # "copy_out"
        /\ Finished("row", g, "other")
        /\ UNCHANGED << pg, call >>
  /\ UNCHANGED << registryVars, role, copier, stored, asked >>

\* insert_raw(): the row is taken, the timeout is reached, the callback throws,
\* or there is no COPY FROM.
Insert(g) ==
  /\ Usable(g, "writer")
  /\ \/ pg.async = "copy_in" /\ Finished("insert", g, "none") /\ UNCHANGED pg
     \/ pg.async = "copy_in" /\ Finished("insert", g, "other") /\ pg' = Closed
     \/ /\ pg.async = "copy_in" /\ CallbacksThrow
        /\ Finished("insert", g, "callback")
        /\ UNCHANGED pg
     \/ pg.async # "copy_in" /\ Finished("insert", g, "other") /\ UNCHANGED pg
  /\ UNCHANGED << registryVars, role, call, copier, stored, asked >>

CommitWriter(g) ==
  /\ Usable(g, "writer")
  /\ asked' = TRUE
  /\ Start("commit", g, << "put_end", "tx_result" >>)
  /\ UNCHANGED << registryVars, pg, role, last, copier, failed, stored >>

\* The program lets go of an object.  A reader just gives up its guard; the
\* destructor of a writer asks for a result first, which ends the COPY.
Release(t) ==
  /\ Ready /\ held[t]
  /\ IF role[t] = "writer"
       THEN Start("unwind", t, << "tx_result" >>) /\ UNCHANGED << registryVars, role >>
       ELSE Drop(t) /\ role' = [role EXCEPT ![t] = "none"] /\ UNCHANGED call
  /\ UNCHANGED << pg, historyVars >>

Destruct(t) ==
  /\ Destroy(t)
  /\ UNCHANGED << pg, role, call, historyVars >>

\* connection::cancel() and connection::get_notifications()
CancelNow ==
  /\ Ready
  /\ pg' \in Cancelled(pg)
  /\ UNCHANGED << registryVars, role, call, historyVars >>

GetNotifications ==
  /\ Ready
  /\ pg' \in Parsed(pg)
  /\ UNCHANGED << registryVars, role, call, historyVars >>

Next ==
  \/ Step
  \/ \E t \in Tx : BeginDirect(t)
  \/ \E t \in Tx : FinishDirect(t)
  \/ \E t \in Tx : Requests(t)
  \/ \E p, g \in Tx : NewReader(p, g)
  \/ \E p, g \in Tx : NewWriter(p, g)
  \/ \E g \in Tx : Read(g)
  \/ \E g \in Tx : Insert(g)
  \/ \E g \in Tx : CommitWriter(g)
  \/ \E t \in Tx : Release(t)
  \/ \E t \in Tx : Destruct(t)
  \/ CancelNow
  \/ GetNotifications

Spec == Init /\ [][Next]_vars

-----------------------------------------------------------------------------
(* What must hold.                                                         *)

Last(op, thrown) == call = NoCall /\ last = [op |-> op, thrown |-> thrown]

\* A reader or writer none of whose methods has thrown is in the middle of the
\* COPY its own constructor has begun, whatever else was tried on the connection
\* or abandoned there: no statement comes in between, and a COPY that somebody
\* else left open is never taken for its own.
CopyIsOwn ==
  call = NoCall =>
    \A g \in Tx \ failed :
      role[g] # "none" =>
        /\ copier = g
        /\ pg.async = IF role[g] = "reader" THEN "copy_out" ELSE "copy_in"

\* A COPY FROM is all or nothing (test/integration/table_writer.cpp counts the
\* rows): the server completes it only if commit() was called, whatever threw
\* before, and if commit() returns it has done so.
WriterIsAllOrNothing ==
  /\ stored => asked
  /\ Last("commit", "none") => stored

\* A reader reports the end of the rows only if it got all of them and the
\* server completed the COPY: a COPY that is cancelled or that fails half-way
\* is never taken for a complete one.
ReaderIsComplete ==
  Last("read", "none") => pg.rows = 0 /\ pg.ending = "command_ok"

\* A COPY that was begun by mistake, or abandoned, ends when a transaction asks
\* for a result, so does that of a writer in its destructor: the call throws,
\* but unless it was stopped by a callback or could not cancel, no COPY is left.
GetResultEndsCopy ==
  \A op \in {"get_result", "unwind"}, thrown \in {"none", "other"} :
    Last(op, thrown) => pg.async \notin {"copy_in", "copy_out"}

\* After execute() or a writer's commit() has returned the connection is ready
\* for the next statement.
ReturnLeavesReady ==
  \A op \in {"execute", "commit"} : Last(op, "none") => pg.async = "idle"

\* The code marked TAO_PQ_INTERNAL_UNREACHABLE is not reached: a reader on a
\* COPY FROM always gets an exception out of get_result().
UnreachableIsNot == ~Calling("unreachable")

=============================================================================
