# TLA+ models of taoPQ

taoPQ is a C++ client library for PostgreSQL on top of libpq. This directory
holds TLA+ models of the parts of the library that have a protocol to get wrong,
TLC configurations that model-check them on small instances, and proofs,
checked by TLAPS, of what holds for every instance. Paths below are relative to
the repository: `include/tao/pq/` and `src/lib/pq/`.

## 1. Inventory of the system

| Component | State | Operations | Interacts with |
|---|---|---|---|
| **transaction registration** (`transaction.hpp`, `transaction_base.*`, `transaction.cpp`) | the raw pointer `connection::m_current_transaction`; in each object `m_connection` (null once finished) and `m_previous` (a `shared_ptr` to the object below) | constructors, `commit`, `rollback`, `v_reset`, destructors, `check_current_transaction` | every object that uses the connection; `transaction_guard` for readers and writers; `pipeline` |
| **transactions on the server** (same files, `connection.cpp`) | the server's block and savepoints; libpq's transaction status; the savepoint's name, which is the object's address | `START`, `SAVEPOINT`, `RELEASE`, `ROLLBACK TO`, `COMMIT`, `ROLLBACK`, `execute`, `send`, `get_result`, `rollback_in_dtor` | registration, connection, server |
| **connection** (`connection.*`) | `PGconn`, timeout, poll callback, notification handlers, `m_prepared_statements`, log | `send_params`, `wait`, `get_result`, `consume_empty_result`, COPY helpers, `cancel`, notifications, `prepare`/`deallocate`, pipeline mode | everything |
| **connection_pool** (`connection_pool.*`, `internal/pool.hpp`) | `m_items` under a mutex, the atomic `m_attached`, a `weak_ptr` in each connection's deleter | `connection()` (`get`, `pull`, `create`), the deleter, `push`, `attach`, `detach`, `erase_invalid`, destruction of the pool | several threads; the validity of connections |
| **pipeline** (`pipeline.*`) | `m_previous`, libpq's pipeline mode and queue | constructor, `sync`, `consume_sync`, `finish`, destructor | registration, connection |
| **table_reader, table_writer** | `m_transaction`, a guard, the COPY state of the connection, a buffer | constructor, `get_raw_data`/`insert_raw`, `commit`, destructor, iterators | registration, connection |
| **result, row, field, table_row, table_field** | offset and number of columns of a slice | `slice`, `at`, `operator[]`, iterators, `get`, `index`, `name` | result |
| **large_object** | the descriptor, `m_transaction` | `create`, `open`, `read`, `write`, `seek`, `close`, move | transaction |
| **parameter, traits, arrays** | `parameter<Max>`: the arrays that are sent, the objects they point into | constructor, `bind`, `reset`, conversions | connection |
| **exceptions** | none | `throw_sqlstate` | result, connection |
| **poll, strtox, log, enumerations** | none of their own | | |

Behaviours that are hard here, and what makes each component correct:

- *Registration.* Objects are released in any order and destroyed by reference
  counts; every destructor writes the raw pointer. Correct: the pointer is the
  innermost open object, nothing dangles, and a connection whose objects are
  all released can be used again.
- *Transactions on the server.* Every statement can be answered, refused,
  lost, or cut short, and the objects end all the same. Correct: only what was
  committed at every level is durable, what was acknowledged is durable, and a
  connection without objects has no transaction open on the server.
- *Pool.* Threads borrow and return while others clean up or drop the pool; the
  deleter works in several unprotected steps. Correct: a connection is never
  shared, lost, or counted twice; a pool is not destroyed under a thread that
  uses it; what is borrowed is usable; calls return.
- *Connection, COPY, pipeline.* Loops that wait, time out, or run callbacks; a
  conversation that must be finished before the next statement. Correct: a COPY
  belongs to the object that began it, is all or nothing, is not taken for
  complete when it is not, and an abandoned conversation ends in a state the
  next user can work from.
- *Session.* Handlers for notifications run in the middle of other calls and may
  use the connection. Correct: the names of prepared statements agree with the
  server's, and notifications are handled in order.
- *Large objects.* A number that only the server knows the meaning of, closed by
  the server when its level ends. Correct: it means the object it was opened
  for, and exactly one object closes it.
- *Rows.* Index arithmetic over slices of slices. Correct: an element is the one
  the reference definition selects, or an exception.
- *Text.* Values are escaped and quoted in one place and read in another, with
  PostgreSQL in between. Correct: what is sent arrives, what was stored returns.
- *Parameters.* Pointers into objects that are made, kept and deleted call by
  call. Correct: what is sent is what was bound, and is alive.

## 2. Modules

| Module | Models | Uses |
|---|---|---|
| `TransactionOrder` | abstract: the stack of open transactions that `doc/Transaction.md` promises | |
| `Registry` | the raw pointer, `m_previous`, `m_connection`, reference counts and destructors | instantiates `TransactionOrder` |
| `Postgres` | the server's session: block, savepoints, pending writes (external) | |
| `Transaction` | the four kinds of transactions and the statements they execute | extends `Registry`, `Postgres` |
| `Pool` | `internal::pool` and `connection_pool` under several threads | |
| `Libpq` | libpq's side of the conversation about one statement (external): operators on a connection, no variables | |
| `BulkTransfer` | `table_reader`, `table_writer` and plain statements on direct transactions, one call of `connection` at a time | extends `Registry`, `Libpq` |
| `LargeObject` | `large_object` on transactions, and the server's descriptors | extends `Registry` |
| `Session` | prepared statements and notification handlers, in calls nested in calls | |
| `ResultQueue` | abstract: results in the order of the queries, passed over only with an exception | |
| `PipelineMode` | the `pipeline` object, pipeline mode, single-row mode and libpq's queue | instantiates `ResultQueue` |
| `TableRows` | loops over a `table_reader` and calls after its end | |
| `RowIndex` | rows, slices, names, fields | |
| `RowTypes` | rows, those of a `table_reader` and results as tuples, pairs, aggregates, optionals and containers, nested in each other | extends `RowIndex`, `ExclusiveScan` |
| `CopyText` | the COPY text format in both directions, with PostgreSQL's side (external) | |
| `ArrayText` | arrays as text in both directions, with PostgreSQL's side (external) | |
| `ExclusiveScan` | where the columns of each of several members begin | |
| `Parameter` | `parameter<Max>` | extends `ExclusiveScan` |
| `SqlState` | the exception for every SQLSTATE and the classes that catch it | |
| `RegistryProofs`, `PoolProofs` | theorems about the module of that name | extend it |
| `TransactionProofs`, `LargeObjectProofs`, `BulkTransferProofs` | theorems about the module of that name, on top of those about `Registry` | extend it and `RegistryProofs` |
| `DataProofs` | theorems about `RowIndex`, `RowTypes` and `Parameter`, and the lemmas about numbers and sequences that the next two share | extends them |
| `PartsProofs` | theorems about `Session`, `PipelineMode` and `TableRows` | extends them and `DataProofs` |
| `TextProofs` | theorems about `CopyText` and `ArrayText` | extends `ArrayText` and `DataProofs` |
| `MCRegistry`, `MCTransaction`, `MCPool`, `MCBulkTransfer`, `MCLargeObject` | instances for TLC | extend the above |
| `MCParts` | one instance of `Session`, `PipelineMode`, `SqlState`, `RowTypes`, `ArrayText` (with `CopyText`), `Parameter` and `TableRows`, which share no state: a behaviour is one of them | extends them |

**Registry.** `current` is `m_current_transaction`, `reg[t]` says that
`m_connection` is set (for a pipeline, `m_previous`), `prev[t]` is `m_previous`,
`held[t]` that the program owns a `shared_ptr`; `alive` are the constructed
objects. `Construct` is the bodies of the constructors, `Reset` is `v_reset()`,
`Finish` is `commit()`/`rollback()`, `Guard` the constructors of `table_reader`
and `table_writer`. Releasing the last `shared_ptr` starts the destructor
(`dying`), and `Destroy` runs one destructor, which may release the last
reference to the object below: the chain is several steps, between which the
state is checked. `OutOfOrder` says whether the program may finish an object
that is not the current one or copy through one that is finished. `active` is a
history variable, the stack of the documentation: it gains an object when that
is constructed and loses it when its logical lifetime ends, wherever it is in
the stack, so that it refines `TransactionOrder` only if lifetimes do end from
the top.

**Transaction.** A method is one step: its registration (an action of
`Registry`) and its statement (`Execute`), whose five outcomes are *done*,
*error* (the server's), *refused* (libpq has an unread result or no
connection), *lost* (the connection dies or the timeout closes it; the
statement may or may not have been executed), and *interrupted* (a poll callback or
a notification handler throws out of `get_result()`, leaving what libpq
still holds as it is). A constructor that throws leaves no object but may leave
the server's transaction. `fate` and `lineage` are history: how each lifetime
ended and which objects enclosed it. A write is identified by the object that
executed it.

**BulkTransfer.** Where `Transaction` makes one step of a statement,
`BulkTransfer` makes one step of each function of `connection` that a method
calls. `call` is the running method with what it still has to call: the
methods put the first calls there (`Request`, `NewReader`, `NewWriter`, `Read`,
`CommitWriter`, `Release`), and the switches on a result add those that follow
from it (`AfterTxResult`, `AfterReaderResult`, `AfterWriterResult`,
`AfterReadResult`, `AfterFatal`, `AfterNull`). Every call may succeed, run into the
timeout (which closes the connection), be left by an exception of a callback,
or find libpq in a state in which it refuses; an exception ends the method and
with it, for a constructor, the object and its guard. `pg` is the connection
as libpq sees it (`Libpq`): what it is in the middle of, the results the server
will still send, and the rows left of a COPY TO. `copier`, `failed`, `stored`, `asked` and
`last` are history. A reader or writer is identified with its guard; that it keeps
the transaction below alive is in `Registry`. Rows have no contents.

**Pool.** Each thread has a program counter. Sections under the mutex are one
step; outside of them each step makes one access to shared state, so that
counting (`Count`, `Uncount`), validation (`Check`, `Validate`), listing (`Push`,
`Pull`) and the end of a `shared_ptr` to the pool (`Leave`, `DropPool`)
interleave. `SeesEnd` FALSE is the stock `v_is_valid()`; TRUE stands for a
derived pool whose `v_is_valid()` finds out that a session has ended: the class
is made to be derived from.

**LargeObject.** `trans` is `m_transaction`, `fd` is `m_fd`; a shared pointer of a
large object keeps its transaction alive, so it is a second owner in `Releases`.
`slot` is the server's table of descriptors: a number, its large object and the
level it belongs to; `RELEASE` moves it to the level below, a rollback or an
error closes it (`LevelEnds`, `CallFails`). The constructor takes any transaction of the
connection (`OpenObject`), but the level is that of the current one. Every method
finds the connection through `m_transaction`, which is where `Dereferences` may
crash, as the constructor does with a transaction that has ended. `leftOpen` and
`strayed` are history: numbers that no proper object can close any more before the
block ends, and the objects that are not proper: those opened through a
transaction that was not the current one, and those whose number such an object
has closed.

**Session.** `known` is `m_prepared_statements`, `prepared` the server's set.
`calls` is the stack of calls in progress: wherever libpq may have parsed a
notification (while it waits, and behind every result) a handler may run, and a
handler may call again, throw, or return. `unread` is what libpq still has of the
last `command`: its result, the null behind it, or nothing, when libpq is idle and
takes the next one (`Send`). That happens not only when the null is read but as
soon as the ReadyForQuery is parsed (`ReadyForQuery`), which `PQnotifies()` does in
the loop of `handle_notifications()`: so a handler behind the first result of a call
may send a command before that call reads its null. What is read next is the
result of the last command, whoever asks: `Answer`, `NoAnswer` and `ReadNull` are
the outcomes for the call that does, its own result, somebody else's or none, and
`Misled` is a call that met anything but its own. A call that a handler has cut
short leaves its result `unread`, and libpq refuses commands until `DrainResult` or
a call further out reads it. That `execute()` and `deallocate()` make a direct
transaction and `prepare()` does not is what decides which calls may nest.

**PipelineMode.** `pg.queue` is libpq's queue of commands, `pg.null` the null it
returns behind the result of a query and not behind that of a synchronisation
point. `PipelineGetResult` and `ConsumeSync` take one or two results from it, in
whatever order the program calls them; `Timeout` closes the connection. `given` and
`threw` are what the program learns, mapped to `ResultQueue`.

**TableRows.** `at` is where the program is; `Fetch` is `get_row()`, and its
`Outcome` is a row, the end, an exception, or a null `m_transaction` that is
followed. `"undefined"`, `"terminated"` and `"crashed"` are what becomes of a
program that reads the row of an empty table, meets an error in `operator++`,
which is `noexcept`, or fetches after the end.

**RowIndex, RowTypes.** `view` is the row object, `own` the columns of the result
that the program has selected by slicing. Reads are operators, stated for every
column in every state. A C++ type is a record of its members, which are types in
turn; `TypesUpTo` are the types of so many levels, and `Nested` those of up to
`MaxNesting`, on which the templates are recursive functions. (C++ has fewer: an
optional of an aggregate of one column does not compile.) `Size`, `Offsets`,
`Get` and `Members` are the templates, for `row` and `table_row` (`Kinds`), and
`Take` is what they are compared with, a definition without any offset or slice:
each type takes its cells from the front and leaves the rest to the next.

**CopyText, ArrayText.** A value is a sequence of characters (for arrays, of a
few tokens), chosen so that each is one the encoder, the parser or the server
treats differently. An action encodes a value and hands it to the server's
parser, or the server's text to the library's parser. The characters of the
array format have names (`Comma`, `LeftBrace`), since the provers cannot take them
in a string; `"BS"`, `"FF"`, `"CR"` and `"VT"` are the control characters that TLA+
has no sign for.

**Parameter.** `objects` is `m_params` up to `m_pos`, `values` is `m_values` up to
`m_size`: for each column, where the pointer leads, what it was made from, and what
it should be. An argument has members, each with its columns, the place where its
characters lie (in the traits object that converted it, in the argument, or
elsewhere in the program) and what its traits say of `self_contained`; and it is a
temporary or not. `Held` is the choice between holder and binder, for all members
together; `CharactersAt` is what becomes of the pointer, which is `Gone` for a
member in a temporary that was not moved into the holder. `self_contained` is
false for strings, views and spans, true for numbers and arrays, which are
converted, and always true for a type with `to_taopq()`
(`parameter_traits.hpp:496`), also if that returns references to its members.

**SqlState.** `Thrown` is the nested switch of `throw_sqlstate`, class by class;
`Derived` is the class hierarchy of `exception.hpp`, and `Caught` the exceptions
that a `catch` of a class catches.

## 3. Runs

| Run | Question | Result |
|---|---|---|
| `registry` | do pointers, reference counts and destructors implement the stack, for objects finished in order and released in any order? | holds; also that releasing everything frees the connection (liveness) |
| `registry_crash` | does misuse always throw, as documented? | violated: finding 1 |
| `transaction` | durability, atomicity of nested rollbacks, savepoint names, clean connections, under every outcome | holds |
| `tx_destructor` | does a destructor roll back, as documented? | violated: finding 2 |
| `bulk_transfer` | is a COPY its object's own, all or nothing, complete when it says so, and ended by whoever asks next, whatever is answered or thrown? | holds |
| `pool` | exclusivity, counting, lifetime and usability under two threads and two pools | holds |
| `pool_calls` | does every call return? | holds |
| `large_object` | does a descriptor mean the object it was opened for, and does one object close it, whatever ends around it? | holds |
| `lo_crash` | may a large object be destroyed at any time, as documented? | violated: finding 5 |
| `parts` | the components that share no state: sessions, pipelines, rows, texts, parameters, loops, exceptions | holds |
| `row_slices` | do the fields of a slice iterate over its columns, as documented? | violated: finding 3 |
| `array_round_trip` | does an array come back as it was sent, as a test assumes? | violated: finding 4 |

What the properties of the passing runs say:

- `CurrentIsTop`, `PointersAlive`, `ImplementsTransactionOrder`,
  `DroppedHandlesFreeConnection`: the stack is what the raw pointer and the
  `m_previous` pointers describe; objects live exactly as long as they are
  owned; lifetimes end from the top down although handles are released in any
  order; no handle left, no object left.
- `SavepointIsOwn`: savepoints are named after addresses, addresses are reused,
  and `ROLLBACK TO` leaves its savepoint behind; still the newest savepoint of a
  name is always the one the usable object made.
- `DurableWasCommitted`, `AcknowledgedIsDurable`, `RollbackDiscardsOwn`,
  `FreeMeansIdle`: see the comments in the module. The three outcomes in which
  the library does leave a server transaction behind (an unread result, a
  statement cut short) are the named exception of `FreeMeansIdle`, and the
  subject of finding 2.
- `CopyIsOwn`: a reader or writer that has not thrown is in the middle of the COPY
  of its own constructor, although objects are refused, abandoned and stacked
  on each other and a plain `send()` may have left a COPY open.
- `WriterIsAllOrNothing`, `ReaderIsComplete`: the two promises of bulk transfer.
- `GetResultEndsCopy`: asking for a result, as the destructor of a writer does,
  ends a COPY in either direction. The exceptions are named: a callback threw,
  or the request to cancel could not be sent.
- `ReturnLeavesReady`: after `execute()` and `table_writer::commit()` the next
  statement is accepted. A reader at its end is not among them: section 4.
- `UnreachableIsNot`: the code after `get_result()` in
  `table_reader::check_result()` is never reached.
- `OnePlace`, `ListedIsFree`, `AttachedIsExact`, `NoUseAfterFree`,
  `BorrowedIsUsable`, `CallsReturn`: see `Pool`.
- `DescriptorIsOwn`, `DescriptorIsHeldOnce`: the server reuses numbers and closes
  descriptors on its own, and objects are moved and closed in between; a number
  is never used for another large object, and none is forgotten. The exceptions are
  named: a block that has failed; the commit of a nested transaction under an
  object; and objects that were opened through a transaction that was not the
  current one (section 4), with the objects whose number they close.
- `NamesAgree`, `IteratorStaysValid`, `HandledInOrder`: handlers that prepare,
  deallocate or execute in the middle of a call do no harm to other names, nor to
  the iterator `deallocate()` holds, nor to the order of notifications. For the
  names the exceptions are those of a call that is in progress, that met a second
  one for the same name, or that did not read its own answer to the end
  (`doubtful`): because a handler in it threw, or because a handler in it took its
  result or left it another one. The last is possible behind the first result: a
  handler there prepares another name, is cut short in that by a second handler,
  and catches what this throws; then the outer `prepare()` meets the result of the
  inner one in `consume_empty_result()` and throws, with its name on the server.
- `ImplementsResultQueue`: pipeline mode against the abstract queue, for any order
  of sending, synchronising and collecting. `ModeIsOwned`: the mode lasts as long as
  the object, unless leaving it has failed.
- `LoopsSeeEverything`: a loop that ends without an exception has seen the whole
  table. What else may become of it is in section 4.
- `SliceReadsOwn`, `NamesFindOwn`, `TypesReadInOrder`: slices of slices, names that
  occur more than once, nested types.
- `RowsRoundTrip`: every row that is inserted as COPY text is read back the same, by
  the server and by `table_reader`. `ArraysArrive`, `ArraysReturn`: arrays do, except
  those with an element the module names (`UnquotedForServer`,
  `UnquotedForLibrary`), the subject of finding 4.
- `BoundInOrder`, `HeapIsOwned`: `parameter<Max>`, also after a `bind()` that threw
  half-way. A constructor that throws leaks what it has bound. A pointer may lead
  to what is deleted or destroyed in two cases, which are named: it was copied from
  another parameter, or it is that of a member of a temporary whose traits call it
  self-contained although it is not (section 4).
- `HandlersExact`: a `catch` of a class catches exactly the SQLSTATEs that
  PostgreSQL's codes put under it.

### Bounds

- `registry`: four objects (two nested objects on an outermost one, and a
  finished object that is still held). Memory is reused, so behaviours are
  unbounded in length. A defect of a stack of raw pointers shows with three
  objects: one below, one in the middle, one on top.
- `transaction`: three objects, each used once, and two addresses. Two
  savepoints in a transaction suffice for a name that is reused by a later
  sibling or by a later transaction; three objects give three levels of nesting
  or two transactions in a row. Objects and addresses are symmetric. All of its
  properties are safety, for which symmetry is sound.
- `bulk_transfer`: three objects, a direct transaction with a reader or writer on it
  and a third one in its place, on top of it, or refused; up to two rows,
  so that a COPY may fail before, between and after rows. Objects are reused,
  so behaviours are unbounded; the properties are safety and the objects are
  symmetric.
- `pool`: two threads, two connections, two pools; the server ends `MaxEnded`
  sessions. Two threads give every pair of steps; two pools are what `attach()`
  distinguishes; a closed connection is opened again, so behaviours are
  unbounded.
- `pool_calls`: one pool and two ended sessions.
- `large_object`: three transactions, two objects, two large objects, three
  descriptors: a nested transaction inside another, a number that is used again
  for another large object, one that was left open, and an object opened through
  the outer of two transactions. Transactions are reused;
  the properties are safety, and the three sets are symmetric.
- `parts`: two names and two notifications (a handler within a handler's call);
  five commands (two queries, two synchronisation points, and one to be mistaken
  for another); results of up to two rows and four columns, which hold every
  slice of a slice of a slice; eleven types of up to four columns and three levels
  (`MCTypes`, `MaxNesting`), in which composite types are the first, the last
  or another member of others; rows of up
  to two values and arrays of up to two elements, of up to two characters each, which hold
  every pair of a character and what follows it; two parameters of four columns, four objects, five arguments of one or two members
  (`MCArguments`: held and not held, wholly and in part self-contained); tables of
  up to three rows. The SQLSTATEs are all that the source mentions, one
  unknown of every class, and one of an unknown class.

### Fairness

`Registry`: weak fairness of `Destroy` only, a destructor that has begun runs to
its end; the program is never obliged to call anything, so
`DroppedHandlesFreeConnection` starts from a program that has released its
handles. `Pool`: weak fairness of each thread's `Continue`, the operating system
schedules every thread; no fairness of the calls themselves. `CallsReturn` also
rests on a finite number of ended sessions (`MaxEnded`): against a server that
ends every session a loop over pooled connections ends only when the list is
empty, which another thread may prevent for ever.

### Deadlock

`registry` is checked for deadlock. The others switch it off because the
instances may really stop: objects of `Transaction` are used once, and a program
that has let go of its pools and connections has nothing left to do. In
`BulkTransfer` cancelling and looking for notifications are always possible, so
the check would say nothing.

## 4. Findings

1. `commit()` or `rollback()` on a finished transaction dereferences a null
   `m_connection` in `v_reset()` (`transaction.cpp:121`), where
   `doc/Transaction.md:114` promises a `std::logic_error`. (`registry_crash`)
2. A destructor with an unread result does not roll back
   (`connection.cpp:190`), against `doc/Transaction.md:118`; a later commit makes
   the changes durable. (`tx_destructor`)
3. The fields of a slice add its offset twice (`row.cpp:65`), against
   `doc/Result.md:382`. (`row_slices`)
4. An array with an element that holds a `;`, or is `null` in small letters, or has
   a line break (or a form feed or vertical tab) at its edge, does not come back (`result_traits_array.cpp:40`,
   `parameter_traits.cpp:20`), where `test/integration/array.cpp:97` takes the
   round trip for granted. (`array_round_trip`)
5. A large object destroyed or used after its transaction has ended dereferences
   a null connection (`large_object.cpp:107`), against `doc/Large-Object.md:134`.
   (`lo_crash`)
Behaviour that the models contain and a reader of the properties should know of,
without a run of its own:

- A commit or rollback refused for its order has still overwritten
  `m_current_transaction`; two branches of transactions are then registered.
  `Registry` has it with `OutOfOrder`, and the theorems assume its absence.
- `commit()` of a transaction the server has already failed returns normally;
  `AcknowledgedIsDurable` excludes it.
- `erase_invalid()` keeps connections whose session has ended unless `v_is_valid()`
  finds out: `SeesEnd` in `Pool`.
- `table_reader::get_raw_data()` takes one result at the end and leaves the null
  one that ends the statement (`table_reader.cpp:63`); whether the next statement
  is accepted depends on whether the server's ReadyForQuery has arrived.
- A loop over an empty table runs its body once, with nothing to read
  (`table_reader.cpp:157`); an error in `operator++` ends the program; a fetch
  after the end follows a null pointer (`table_reader.cpp:55`). In `TableRows` these
  are states of `at`.
- A large object can be opened through a transaction that is not the current one;
  the constructor does not notice (`large_object.cpp:70`), although
  `doc/Transaction.md:114` says of wrong orders that they are noticed, as
  `execute()` does. The descriptor then belongs to the inner transaction: begin a
  transaction, then a subtransaction, open an object through the outer one, roll
  the inner one back, and open another object; the server gives that the same
  number, and a write to the first, whose own transaction is open, goes to the
  second. These objects are `strayed` in `LargeObject`.
- A temporary of a type whose `to_taopq()` returns references, as the `std::tie` in
  `doc/Parameter-Type-Conversion.md:129` does for numbers, is not moved into the
  parameter, since such a type is always `self_contained` (`parameter_traits.hpp:496`,
  `parameter.hpp:121`). Numbers are converted on the spot; with strings, or anything
  else that is sent from where it lies, a `parameter` keeps pointers into the
  temporary: `Gone` in `Parameter`. Used directly as an argument of `execute()` the
  temporary lives long enough.
- A `prepare()` whose result a handler has taken, or replaced, reports what it
  finds instead (`connection.cpp:611`): `Answer`, `NoAnswer` in `Session`. The
  commands of the model have no rows; a result with rows would be one that
  `prepare()` takes for impossible (`connection.cpp:618`).
- A `pipeline` that could not leave pipeline mode does not try again
  (`pipeline.cpp:33`): `stuck` in `PipelineMode`.

## 5. Proofs

Every theorem holds for any value of the constants, finite sets or not, under
the named assumptions of the modules (`NoTxAssumption` and the like: a marker
such as "no transaction" is not one; bounds such as `MaxTable`, `MaxCommands`,
`MaxNesting` and `Capacity` are numbers; the types that are looked at are nested to
that depth, `TypesAssumption`; values and arrays are sequences, `CellsAssumption` and
`ArraysAssumption`; and an argument has a column in each of its members,
`ArgumentsAssumption`, as the concept `parameter_type_direct` demands). The
theorems about objects in a stack also assume `~OutOfOrder`, a program that
finishes transactions in order, which the documentation asks for; with
`OutOfOrder` they are false (finding 1). Those about the COPY do without it, except
for `CopyIsAlwaysOwn`. The sets of threads, connections, objects and messages
have no bound; what a run bounds for TLC's sake (`MaxFd`, `MaxRows`, `MaxEnded`) is
a parameter of the theorem.

### Registration (`RegistryProofs`)

`CurrentIsTop` is not inductive. That `v_reset()` restores the right pointer
needs the stack to be linked and without repetitions; that a destructor only
meets the top of the stack needs to know that whoever is dying has no owner;
and that needs the relation between the `m_previous` pointers, the handles and
the living objects. `IInv` is the conjunction of these. `RegistryInvariant` proves
it for every step, one lemma per action; from it follow `RegistryTypeCorrect`,
`CurrentIsAlwaysTop`, `PointersAlwaysAlive` and `InOrderNeverCrashes`.
`RegistryImplementsOrder` proves the refinement: each step pushes, pops the top,
or leaves the stack alone (the key fact is `EndedIsFront`, removing the top
wherever it is means taking the front).

### Transactions on the server (`TransactionProofs`)

`TransactionImplementsRegistry` proves that every step of `Transaction` is a
step of `Registry` or leaves its variables alone, whatever the server and the
connection do; `TransactionKeepsOrder` carries over the theorems.

`TransactionInv` says that two stacks agree, that of the objects and that of the
server's levels. They are not the same: `ROLLBACK TO` leaves its savepoint behind,
so there are levels without an object, of the same name as others, since
addresses are used again. Its parts:

- `Lifetimes`: which class of object is where in the stack, which objects enclose
  which, and that nothing is known of an object before it is made;
- `Block`: the server has levels exactly while it has a transaction, and has one
  while an object needs one and the connection lives;
- `Savepoints`: the levels made by the objects of the stack lie in the order of
  the stack, each object made at most one, and that of a nested transaction is
  the newest of its name. The last part is why `SavepointIsAlwaysOwn` holds, and
  the order is why a `ROLLBACK TO` by an inner one keeps it;
- `Writes`: a pending write lies at or above the savepoint of a nested transaction
  exactly if that transaction encloses it, and nothing that encloses it was
  rolled back. From it follow `DurableWasAlwaysCommitted` and
  `OnlyOwnWritesAreDiscarded`, a property of steps;
- `Acked`: a write whose transactions are all open or committed is durable or still
  pending under an open one, which makes `AcknowledgedIsDurable` inductive over a
  sequence of commits from the inside out;
- `FreeIdle`: with direct transactions only, the server has no block, which makes
  `FreeMeansIdle` inductive.

The proof goes class by class of what a method does to the objects (`NoneMoves`,
`Born`, `Stillborn`, `Over`) and to the session (`Vanishes`, `Clears`, `Stays`,
`Grows`, `CutsBack`), and then outcome by outcome of its statement.

### COPY (`BulkTransferProofs`)

The first part has one lemma per call and per method, each of which says
that the types are kept and that the step is one of `Registry`'s or none:
`BulkTransferImplementsRegistry`, and with the theorems about `Registry`,
`BulkTransferTypeCorrect` and `BulkTransferKeepsOrder`. The type of `call` is a
sequence of calls, so the lemmas about the switches (`SwitchesAreCalls`) are what
makes it go through.

`WriterIsAllOrNothing` is not inductive: the server answers the end of a COPY
before `commit()` looks at the answer. `CommitGoesOn` follows `commit()` through
its calls: the rows are stored, or the error is the next result, or an
exception is all that can still come. `EndsAreAsked` says that nobody else ends
a COPY without a message.

The other properties are about how a method ends, and so about all it went
through before. `Conversation` ties what is left of the running method to what
libpq is in the middle of: `GoesOn` if nothing has gone wrong, `WindsUp` on its way
to an exception. `Outcome` is how methods leave the connection, and `InTurn` that
one result at most is outstanding. Together they are `CInv`, from which
`ReaderIsAlwaysComplete`, `GetResultAlwaysEndsCopy`, `ReturnAlwaysLeavesReady` and
`UnreachableIsNever` follow. `CopyIsAlwaysOwn` adds `CopyShape` and `Ownership`: who
talks to libpq is the current object, or is about to find out whether it is, and
a reader or writer in the middle of its COPY is the current one, or below one
that is being refused or destroyed (`GoodIsTop`).

### Pool (`PoolProofs`)

No property of the pool is inductive, because what one thread has seen is used
some steps of other threads later. The invariant has five layers: what the
variables of a call hold at each of its labels (`Typed`, `InCallOK`); who shares a
pool keeps it alive (`PoolsAlive`); a connection has one owner, and an open one
has one (`OneOwner`, `Accounted`); what an owner knows of its connection (`PlaceOK`),
which others cannot change, since only the owner changes its link or status;
and the counters (`CountsOK`), where a decrement relies on the connection being
among those counted. From them follow `TypeCorrect`, `PoolsOutliveCalls`,
`ListsHoldFreeConnections`, `CountersAreExact`, `EachInOnePlace`, and `GetIsUsable`
about steps. Nothing is assumed of the number of threads, connections and pools:
that finitely many connections are open, without which `Cardinality` means
nothing, is part of the invariant.

### Large objects (`LargeObjectProofs`)

Objects may be opened through any transaction, so the level of a descriptor is not
that of its object's transaction for all of them. It is for the proper ones, those
not `strayed` (`Descriptors`), and that is what ties the program to the server: what
a failure or a rollback closes is at the current level or at one that nobody can
use, so it belongs to objects that cannot be used any longer, or was left
(`EndKeeps`, `FailKeeps`). A stray object closes what its number means by then; the
proper object that has the number is strayed from there on (`AfterClose`). `Nesting`
says that the transactions of a block are all of the block, and `Holders` that
every open descriptor has a proper object or is one that was left.
`DescriptorIsAlwaysOwn` and `DescriptorIsAlwaysHeldOnce` follow. An object that is
used after its transaction crashes the program (finding 5); the invariant is
that of `Registry` up to there.

The proof found a mistake in an earlier version of the model that three
transactions do not show: `ROLLBACK TO` of an outer savepoint also closes what is
at the levels of inner transactions whose `RELEASE` the failed block had refused
(`Below`).

### Sessions, pipelines, loops (`PartsProofs`)

- `SessionInv` is about every call of a stack of calls of any depth. At most one of
  them has a transaction, so no other can be a `deallocate()` that erases what the
  first points to (`IteratorIsAlwaysValid`); a call about a name that is not
  doubtful goes by the result of its own command, read or still to be read
  (`Says`), and that is what the server has done, so the library has it too when
  the call ends (`NamesAlwaysAgree`); and the notifications are numbered through from
  `handled` to `queue` (`AlwaysHandledInOrder`).
- `ModeIsAlwaysOwned`: the mode has an owner, nothing in libpq's queue is older than
  the first command of the mode, and outside of the mode the queue is empty.
- `PipelineImplementsResultQueue`: every call of the pipeline is a step of
  `ResultQueue`. The queries that wait are the ones among the commands in libpq's
  queue, listed by a recursive function; what it does when a command is added
  behind or taken from the front is proved first (`Lists`). A call takes one or two
  results; one that gives none leaves the queries without the n oldest (`Skips`),
  and throws if n is not zero (`Passes`). `QueueInv` adds to the invariant that the
  commands in libpq's queue are some of those that were sent, so that a query
  being sent does not wait yet.
- `LoopsAlwaysSeeEverything`: what a loop has visited is what the reader has taken,
  or all of that but the row the body is looking at.

### Rows, types and parameters (`DataProofs`)

For results of any size and slices of any depth. `RowInvariant` says that the
columns the program has selected are a range that begins at the row's offset
(`OwnIsRange`) and ends within the result (`ViewInResult`); `SlicesAlwaysReadOwn`
follows from it, and `FieldsAtOffsetZeroReadOwn` is how far the documented
iteration is true (finding 3 needs an offset). `NamesAlwaysFindOwn`: both lookups
take the least column of a name, the first in the result and the second in
the row, and `RowNames` relates them; `LeastNumber` is the least-number principle,
from the library's theorem about well-founded relations.

`TypesAreAlwaysReadInOrder` is about types of any nesting and any number of members.
The sizes, `Get` and the reference are recursive functions of types, so two
things come first. `TypeInduction`: what holds of a type whenever it holds of its
members holds of all, by going up the levels. `TypeRecursion`: a function of
types that is defined by its values at the members exists, so that `Size`, `Get` and
`Take` are what their definitions say (`SizeFacts`, `GetFacts`, `TakeFacts`). The
induction is over the claim that wherever a place in a row `Shows` the first cells of
a sequence, `Get` at that place reads what `Take` takes, and `Take` leaves the cells
behind them (`ReadsAsTaken`). For a composite type the slice it reads from lies in
the row (`SliceIsNull`), the offset of each member in it is the number of cells that
the members before have taken (`OffsetFacts`, `MemberShown`), and so the members
together read what is taken one by one (`MembersInTurn`). That the row itself
shows its cells, and only if the sizes agree, is `RowInvariant`.

For parameters of any capacity and arguments of any number of members and
columns. `internal::gen` finds the member of a column by counting the sums of
`exclusive_scan` that are not greater; that this and the column inside the member
enumerate every column of every member in turn is proved of the sums, which only
grow as each member has a column (`ArgumentsAssumption`: with a member without any, the
count would skip it). `ParameterInvariant` is about each object and about all of
them: what is bound is what the values say, each argument has taken at least one
place, so that `m_params` has no more than `Max` either (`BoundAlwaysInOrder`), and
the heap objects of different parameters are different ones, numbered up to `made`
(`HeapIsAlwaysOwned`). That no pointer leads into a temporary, but to the members
that are said to be self-contained, is `MemberFacts`: one member that is not makes
`Held` true for all. A `bind()` of several arguments is followed argument by
argument, since it may throw at each.

### Texts (`TextProofs`)

For rows and arrays of any length, of values of any length with any characters in
them, also those the formats use (the word NULL counts as a character, in two
spellings); `RowsAlwaysRoundTrip` says that the round trip is
the identity on rows, and `ArraysAlwaysArrive` and `ArraysAlwaysReturn` say of arrays
for which elements exactly it is not. The second half of that is as much work
as the first: an array with such an element never comes out as it was, whatever
stands before and behind it.

A parser is a recursive function over the text, which cannot be unfolded for
a text of unknown length. So it is looked at as a machine, a set of
triples of a state, a character and the next state, and `Leads` says that
there is a run over a text; runs are put together (`LeadsOn`, `LeadsThrough`,
`Gathering`) from the character to the value to the row, by induction over a number.
One lemma for each of the four machines (`ParserRuns`, `ServerRuns`, `LibraryRuns`,
`ServerArrayRuns`) says that its run is what the model's operator returns. The two
machines for arrays have much in common (`ArrayMachine`); what differs is which
characters may stand in an element without quotes, and what is made of it
(`ServerTakes`, `LibraryTakes`). That an element which is misread spoils the
array (`Spoils`) rests on `Lasting`: the machines only ever add to the elements they
have, and never leave an error. COPY is transparent for the text of an array,
`CopyDelivers`, by the theorem about rows.

The proof found two arms of a CASE in the model of the server's parser that
overlapped (a closing brace right behind the opening one): TLC takes the first, but
what the definition means is either. They are disjoint now.

### Only model-checked

- Liveness: `DroppedHandlesFreeConnection` and `CallsReturn`.
- `HandlersExact` is about finitely many codes, all of which TLC looks at.

Every other property of a passing run is a theorem.

## 6. What is not modelled, and why

- Isolation level and access mode: they change the text of `START` only.
- Conversions of single values (numbers, names, byte strings), `strtox`, exception
  texts, log callbacks, enumerations, demangling: no state, no control.
- `internal::poll` is one system call; its results are outcomes of waiting. The
  arithmetic of milliseconds in `wait()` (a cast to `int`) is left out: a timeout
  happens or does not.
- In `Transaction` the calls inside a statement are folded into its outcome;
  `BulkTransfer` has them one by one, but only direct transactions, so that a
  statement is the only thing on the connection. Inside a call, the loop of
  `wait()` is its outcome: done, timed out, or left by a callback's exception.
- `Session`, `PipelineMode` and `LargeObject` each have the connection for
  themselves: no COPY in pipeline mode, no loss of the connection under a large
  object, no prepared statements in a pipeline. libpq refuses most of these.
- Chunk mode, which is single-row mode with more rows to a result.
- The table of channels and handlers: in `Session` a notification has a general
  handler and perhaps one of its channel.
- Offsets near 2^64 in `row::slice()`; the static functions of `large_object`,
  which are statements without an object.
- In `BulkTransfer`, a connection that the server loses is the same as one that the
  timeout has closed. A program that goes on using a reader after it has
  thrown, below another reader, may take that one's rows; the properties are
  about objects that are used in order.
- In `Pool`, the timeout and the poll callback a pool sets on what it lends, and
  what a borrower leaves behind on a connection: handlers, LISTEN, prepared
  statements.
- Misuse from several threads of one connection: the documentation excludes it.

## 7. Plan

The parts of the system that have state are modelled, and the safety properties
of the runs are proved, except for those named at the end of section 5. What is
left:

- What a pool's borrower leaves on a connection, and chunk mode: they need more
  state than the modules have.

## Running

`tlc -config MCRegistry.cfg MCRegistry` and likewise for the others;
`tlapm RegistryProofs.tla` and likewise for the other modules of proofs. Definitions marked
*Mistake* are variants of the definition that follows them with a plausible
bug; `PROJECT.json` says which property each of them breaks.
