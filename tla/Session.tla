------------------------------ MODULE Session ------------------------------
(***************************************************************************)
(* What a connection keeps about its session besides the transactions: the *)
(* names of its prepared statements, m_prepared_statements, and the        *)
(* handlers for notifications.                                             *)
(*                                                                         *)
(* The two meet because notifications are looked for whenever the          *)
(* connection waits and after every PQgetResult(), that is in the middle   *)
(* of prepare(), deallocate() and every other call.  A handler is code of  *)
(* the program: it may throw, and it may use the connection again.  libpq  *)
(* refuses a new command until it is idle, that is until the result of the *)
(* last one was taken and the ReadyForQuery behind it was parsed, which    *)
(* PQnotifies() does as well as PQgetResult(); deallocate() and execute()  *)
(* need that there is no current transaction, prepare() does not look.  So *)
(* a handler may send the next command when the call it runs in has its    *)
(* result but not yet the null, and may leave that call an answer that is  *)
(* not its own.                                                            *)
(*                                                                         *)
(* calls is the stack of calls on the connection, the handler of one being *)
(* what makes the next.  The server runs a command when it is sent; what   *)
(* is left is to read its answer.  A call that libpq refuses throws at     *)
(* once and changes nothing, and is no step.  A connection that is lost is *)
(* left to the other modules, its names are of no use any more.            *)
(***************************************************************************)
EXTENDS Naturals, SequencesExt

CONSTANTS
  Statements,   \* names of prepared statements
  MaxNotified   \* bound: how many notifications arrive

VARIABLES
  known,        \* m_prepared_statements
  prepared,     \* the prepared statements the server has
  calls,        \* the calls in progress, the innermost last
  command,      \* the last one sent: its result, and the call that sent it
  unread,       \* of that command: "result"; "null", its ReadyForQuery is not
                \* parsed; or "nothing", libpq is idle
  queue,        \* notifications that libpq has parsed, numbered
  notified,     \* how many have arrived
  handled,      \* history: those the general handler was called with
  doubtful      \* history: names with a call that did not read its own answer
                \* to the end, or within which a handler has used the name again

sessionVars ==
  << known, prepared, calls, command, unread, queue, notified, handled, doubtful >>

NoName == "none"

ASSUME NoNameAssumption == NoName \notin Statements

\* The calls: "execute" also stands for listen(), unlisten() and notify(),
\* "drain" for a transaction's get_result(), which reads what is left.
Operations == {"prepare", "deallocate", "execute", "drain", "get_notifications"}

\* at: what was read; said: the result that get_result() returned;
\* handler: "none", "general" or "channel", the handler that is running
Call(op, n) == [op |-> op, name |-> n, at |-> "sent", said |-> "nothing", handler |-> "none"]

SessionInit ==
  /\ known = {}
  /\ prepared = {}
  /\ calls = << >>
  /\ command = [ok |-> TRUE, by |-> 0]
  /\ unread = "nothing"
  /\ queue = << >>
  /\ notified = 0
  /\ handled = << >>
  /\ doubtful = {}

-----------------------------------------------------------------------------
Idle == calls = << >>
Innermost == Last(calls)

\* The program runs: outside of any call, or in a handler.
ProgramRuns == \A i \in DOMAIN calls : i = Len(calls) => calls[i].handler # "none"

Working == ~Idle /\ Innermost.handler = "none"

\* A call in progress holds a transaction, on which the next would have to be.
HasTransaction ==
  \E i \in DOMAIN calls : calls[i].op \in {"execute", "deallocate", "drain"}

InUse(n) == \E i \in DOMAIN calls : calls[i].name = n

NameOf(call) == {call.name} \ {NoName}

Push(call) == calls' = Append(calls, call)
Update(call) == calls' = [calls EXCEPT ![Len(calls)] = call]

\* PQsendPrepare() and the other functions that send, when libpq is idle
Send(op, n, ok) ==
  /\ ProgramRuns /\ unread = "nothing"
  /\ Push(Call(op, n))
  /\ command' = [ok |-> ok, by |-> Len(calls) + 1]
  /\ unread' = "result"

\* connection::prepare(): the name is known only at the end.
Prepare(n, ok) ==
  /\ ok => n \notin prepared    \* or the server refuses
  /\ Send("prepare", n, ok)
  /\ prepared' = IF ok THEN prepared \cup {n} ELSE prepared
  /\ doubtful' = IF InUse(n) THEN doubtful \cup {n} ELSE doubtful
  /\ UNCHANGED << known, queue, notified, handled >>

\* Mistake: the statement is sent without a transaction of its own.
DeallocateAnyway(n, ok) ==
  /\ n \in known
  /\ ok => n \in prepared
  /\ Send("deallocate", n, ok)
  /\ prepared' = IF ok THEN prepared \ {n} ELSE prepared
  /\ doubtful' = IF InUse(n) THEN doubtful \cup {n} ELSE doubtful
  /\ UNCHANGED << known, queue, notified, handled >>

\* connection::deallocate(): find() in m_prepared_statements, the iterator is
\* kept; then execute(), which makes a direct transaction
Deallocate(n, ok) ==
  /\ n \in known /\ ~HasTransaction
  /\ ok => n \in prepared
  /\ Send("deallocate", n, ok)
  /\ prepared' = IF ok THEN prepared \ {n} ELSE prepared
  /\ doubtful' = IF InUse(n) THEN doubtful \cup {n} ELSE doubtful
  /\ UNCHANGED << known, queue, notified, handled >>

\* connection::execute(), listen(), unlisten(), notify()
ExecuteStatement(ok) ==
  /\ ~HasTransaction
  /\ Send("execute", NoName, ok)
  /\ UNCHANGED << known, prepared, queue, notified, handled, doubtful >>

\* direct() and get_result(): the only way to read what a call left unread
DrainResult ==
  /\ ProgramRuns /\ ~HasTransaction /\ unread # "nothing"
  /\ Push(Call("drain", NoName))
  /\ UNCHANGED << known, prepared, command, unread, queue, notified, handled, doubtful >>

\* libpq parses a notification, if more says so.
Parsed(more) ==
  /\ more => notified < MaxNotified
  /\ queue' = IF more THEN Append(queue, notified + 1) ELSE queue
  /\ notified' = IF more THEN notified + 1 ELSE notified

\* connection::get_notifications(), in the case that there is one
GetNotifications ==
  /\ ProgramRuns
  /\ Push([Call("get_notifications", NoName) EXCEPT !.at = "read"])
  /\ Parsed(TRUE)
  /\ UNCHANGED << known, prepared, command, unread, handled, doubtful >>

-----------------------------------------------------------------------------
\* connection::wait() brings a notification ahead of what get_result() is for.
Arrive ==
  /\ Working /\ Innermost.at \in {"sent", "answered"} /\ unread # "nothing"
  /\ Parsed(TRUE)
  /\ UNCHANGED << known, prepared, calls, command, unread, handled, doubtful >>

\* libpq parses the ReadyForQuery when it looks for notifications: in the loop
\* of handle_notifications(), also on behalf of a handler or of the program.
ReadyForQuery ==
  /\ unread = "null"
  /\ unread' = "nothing"
  /\ UNCHANGED << known, prepared, calls, command, queue, notified, handled, doubtful >>

\* The first connection::get_result() of a call returns a result, whichever
\* command it is of.  What wait() has brought was handled there; another
\* notification may come with the result itself.
Answer(more) ==
  /\ Working /\ Innermost.at = "sent" /\ queue = << >>
  /\ unread = "result" /\ unread' = "null"
  /\ Parsed(more)
  /\ Update([Innermost EXCEPT !.at = "answered", !.said = IF command.ok THEN "ok" ELSE "error"])
  /\ doubtful' = IF command.by = Len(calls) THEN doubtful ELSE doubtful \cup NameOf(Innermost)
  /\ UNCHANGED << known, prepared, command, handled >>

\* It returns the null: a handler has taken the result.  The transaction's
\* get_result() throws, prepare() goes on to consume_empty_result().
NoAnswer(more) ==
  /\ Working /\ Innermost.at = "sent" /\ queue = << >>
  /\ unread # "result" /\ unread' = "nothing"
  /\ Parsed(more)
  /\ Update([Innermost EXCEPT !.at = IF Innermost.op = "prepare" THEN "answered" ELSE "read",
                                !.said = "nothing"])
  /\ UNCHANGED << known, prepared, command, handled, doubtful >>

\* connection::consume_empty_result() reads the null, or finds the result of
\* a command that a handler has sent and left, and throws.
ReadNull(more) ==
  /\ Working /\ Innermost.at = "answered" /\ queue = << >>
  /\ Parsed(more)
  /\ IF unread = "result"
       THEN unread' = "null" /\ Update([Innermost EXCEPT !.at = "read", !.said = "unexpected"])
       ELSE unread' = "nothing" /\ Update([Innermost EXCEPT !.at = "read"])
  /\ UNCHANGED << known, prepared, command, handled, doubtful >>

\* Mistake: the notification stays in the queue until its handlers are done.
HandleFirst ==
  /\ Working /\ queue # << >>
  /\ handled' = Append(handled, Head(queue))
  /\ Update([Innermost EXCEPT !.handler = "general"])
  /\ UNCHANGED << known, prepared, command, unread, queue, notified, doubtful >>

\* connection::handle_notifications(), in the loop: PQnotifies() takes the
\* notification out of the queue before any handler is called.
Handle ==
  /\ Working /\ queue # << >>
  /\ queue' = Tail(queue)
  /\ handled' = Append(handled, Head(queue))
  /\ Update([Innermost EXCEPT !.handler = "general"])
  /\ UNCHANGED << known, prepared, command, unread, notified, doubtful >>

\* The general handler returns, the handler of the channel is looked up; or
\* the latter returns, or there is none.
HandlerReturns ==
  /\ ~Idle /\ Innermost.handler # "none"
  /\ \E next \in IF Innermost.handler = "general" THEN {"channel", "none"} ELSE {"none"} :
       Update([Innermost EXCEPT !.handler = next])
  /\ UNCHANGED << known, prepared, command, unread, queue, notified, handled, doubtful >>

\* A handler throws: the call it runs in ends there, with nothing more read.
\* In deallocate() and prepare() the name may have changed on the server.  The
\* program may catch it in the handler around that call, or outside.
HandlerThrows ==
  /\ ~Idle /\ Innermost.handler # "none"
  /\ calls' = Front(calls)
  /\ doubtful' = doubtful \cup NameOf(Innermost)
  /\ UNCHANGED << known, prepared, command, unread, queue, notified, handled >>

\* The call did not read the answer it was for.
Misled == Innermost.at = "read" /\ Innermost.said \in {"nothing", "unexpected"}

\* Mistake: the name is taken out although the server has refused.
ReturnRegardless ==
  /\ Working /\ Innermost.at = "read" /\ queue = << >>
  /\ calls' = Front(calls)
  /\ known' = CASE Innermost.op = "prepare" /\ Innermost.said = "ok" -> known \cup {Innermost.name}
                [] Innermost.op = "deallocate" -> known \ {Innermost.name}
                [] OTHER -> known
  /\ doubtful' = IF Misled THEN doubtful \cup NameOf(Innermost) ELSE doubtful
  /\ UNCHANGED << prepared, command, unread, queue, notified, handled >>

\* The call returns; or it throws the error of the server, or because of a
\* result that it did not expect or that was not there.
Return ==
  /\ Working /\ Innermost.at = "read" /\ queue = << >>
  /\ calls' = Front(calls)
  /\ known' = CASE Innermost.op = "prepare" /\ Innermost.said = "ok" -> known \cup {Innermost.name}
                [] Innermost.op = "deallocate" /\ Innermost.said = "ok" -> known \ {Innermost.name}
                [] OTHER -> known
  /\ doubtful' = IF Misled THEN doubtful \cup NameOf(Innermost) ELSE doubtful
  /\ UNCHANGED << prepared, command, unread, queue, notified, handled >>

SessionNext ==
  \/ \E n \in Statements, ok \in BOOLEAN : Prepare(n, ok) \/ Deallocate(n, ok)
  \/ \E ok \in BOOLEAN : ExecuteStatement(ok)
  \/ DrainResult
  \/ GetNotifications
  \/ Arrive \/ ReadyForQuery
  \/ \E more \in BOOLEAN : Answer(more) \/ NoAnswer(more) \/ ReadNull(more)
  \/ Handle \/ HandlerReturns \/ HandlerThrows
  \/ Return

SessionSpec == SessionInit /\ [][SessionNext]_sessionVars

-----------------------------------------------------------------------------
\* The connection knows exactly the prepared statements of the server, so that
\* execute() takes a name for a statement when it is one.  Errors of the server
\* never lead to a difference, nor do handlers that prepare or deallocate other
\* names, even between the result and the null of a call, as long as they leave
\* nothing unread behind.  Excepted are names a call on which is in progress,
\* and those a call on which met a second one for the same name from a handler,
\* or did not read its own answer to the end: because a handler in it threw, or
\* because a handler in it took its result, or left it that of a command that
\* was cut short in its turn.
NamesAgree ==
  \A n \in Statements : InUse(n) \/ n \in doubtful \/ (n \in known <=> n \in prepared)

\* The iterator that deallocate() keeps while it executes the statement stays
\* valid whatever handlers do in between: no other call erases its element.
IteratorStaysValid ==
  \A i \in DOMAIN calls : calls[i].op = "deallocate" => calls[i].name \in known

\* Notifications are handled in the order of their arrival and none twice,
\* also when a handler throws, or uses the connection and so meets the next
\* notification within its own call; none is lost on the way.
HandledInOrder ==
  /\ handled = [i \in 1 .. Len(handled) |-> i]
  /\ queue = [i \in 1 .. Len(queue) |-> Len(handled) + i]
=============================================================================
