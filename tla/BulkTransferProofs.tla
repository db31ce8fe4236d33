------------------------- MODULE BulkTransferProofs -------------------------
(***************************************************************************)
(* What holds of readers and writers for any number of objects and rows.   *)
(* Each lemma is about one of the things a method does next; the step from *)
(* one state to the next is one of them, or the call of a method.          *)
(*                                                                         *)
(* The first part is about types and about the transactions that readers   *)
(* and writers are, the second about what they leave of a COPY.            *)
(***************************************************************************)
EXTENDS BulkTransfer, RegistryProofs

RegistryStep == RegistryNext \/ UNCHANGED registryVars

\* A method is running.
InCall == call \in [op : Methods, obj : Tx, todo : Seq(Calls) \ {<<>>}]

\* The types of what the end of a method changes
MethodTypeOK ==
  /\ role \in [Tx -> {"none", "reader", "writer"}]
  /\ call \in {NoCall} \cup [op : Methods, obj : Tx, todo : Seq(Calls) \ {<<>>}]
  /\ last \in [op : Methods \cup {"none"}, thrown : Exceptions]
  /\ failed \in SUBSET Tx

LEMMA CallingInCall ==
  ASSUME CopyTypeOK, NEW c, Calling(c)
  PROVE  InCall /\ c \in Calls /\ Rest \in Seq(Calls)
<1>1. call # NoCall
  BY DEF Calling, NoCall
<1>2. InCall
  BY <1>1 DEF CopyTypeOK, InCall
<1>3. QED
  BY <1>2 DEF InCall, Calling, Rest

\* A method that ends gives up at most the guard it works on.
LEMMA EndKeepsTypes ==
  ASSUME CopyTypeOK, InCall, NEW thrown \in Exceptions, End(thrown)
  PROVE  MethodTypeOK' /\ RegistryStep
<1>1. call.op \in Methods /\ call.obj \in Tx
  BY DEF InCall
<1>2. call' = NoCall /\ last' \in [op : Methods \cup {"none"}, thrown : Exceptions]
  BY <1>1 DEF End, Finished
<1>3. failed' \in SUBSET Tx
  BY <1>1 DEF End, Finished, CopyTypeOK
<1>4. role' \in [Tx -> {"none", "reader", "writer"}]
  BY <1>1 DEF End, CopyTypeOK
<1>5. RegistryStep
  BY <1>1 DEF End, RegistryStep, RegistryNext
<1>6. QED BY <1>2, <1>3, <1>4, <1>5 DEF MethodTypeOK

LEMMA ProceedKeepsTypes ==
  ASSUME CopyTypeOK, InCall, NEW todo \in Seq(Calls), Proceed(todo)
  PROVE  MethodTypeOK' /\ RegistryStep
<1>1. CASE todo = <<>>
  <2>1. End("none") /\ "none" \in Exceptions
    BY <1>1 DEF Proceed, Exceptions
  <2>2. QED BY <2>1, EndKeepsTypes
<1>2. CASE todo # <<>>
  <2>1. call' = [call EXCEPT !.todo = todo] /\ UNCHANGED << registryVars, role, last, failed >>
    BY <1>2 DEF Proceed
  <2>2. call' \in [op : Methods, obj : Tx, todo : Seq(Calls) \ {<<>>}]
    BY <1>2, <2>1 DEF InCall
  <2>3. QED BY <2>1, <2>2 DEF MethodTypeOK, RegistryStep, CopyTypeOK
<1>3. QED BY <1>1, <1>2

-----------------------------------------------------------------------------
\* libpq's operations keep the connection a connection.
LEMMA LibpqKeepsTypes ==
  ASSUME pg \in Connections(MaxRows)
  PROVE  /\ Closed \in Connections(MaxRows)
         /\ AfterResult(pg) \in Connections(MaxRows)
         /\ Parsed(pg) \subseteq Connections(MaxRows)
         /\ Parsed(AfterResult(pg)) \subseteq Connections(MaxRows)
         /\ Cancelled(pg) \subseteq Connections(MaxRows)
         /\ \A reply \in Results : CopyEnds(pg, reply) \in Connections(MaxRows)
         /\ \A reply \in Results, rows \in 0 .. MaxRows, ending \in Endings :
              Sent(pg, reply, rows, ending) \in Connections(MaxRows)
         /\ \A n \in 0 .. pg.rows : [pg EXCEPT !.rows = n] \in Connections(MaxRows)
         /\ Result(pg) \in Results \cup {"null"}
<1> USE MaxRowsAssumption
<1>1. /\ <<>> \in Seq(Results)
      /\ \A reply \in Results : << reply >> \in Seq(Results)
  OBVIOUS
<1>2. Closed \in Connections(MaxRows)
  <2>1. Fresh \in Connections(MaxRows)
    BY <1>1 DEF Fresh, Connections, Endings
  <2>2. QED BY <2>1 DEF Closed, Connections
<1>3. Result(pg) \in Results \cup {"null"}
  BY DEF Result, Connections, Results
<1>4. AfterResult(pg) \in Connections(MaxRows)
  <2>1. CASE pg.async = "busy" /\ pg.replies # <<>>
    <3>1. Tail(pg.replies) \in Seq(Results)
      BY <2>1 DEF Connections
    <3>2. QED BY <2>1, <3>1 DEF AfterResult, Connections, Result
  <2>2. CASE ~(pg.async = "busy" /\ pg.replies # <<>>)
    BY <2>2 DEF AfterResult, Connections
  <2>3. QED BY <2>1, <2>2
<1>5. ASSUME NEW p \in Connections(MaxRows) PROVE Parsed(p) \subseteq Connections(MaxRows)
  BY DEF Parsed, Connections
<1>6. \A n \in 0 .. pg.rows : n \in 0 .. MaxRows
  BY DEF Connections
<1>7. \A n \in 0 .. pg.rows : [pg EXCEPT !.rows = n] \in Connections(MaxRows)
  BY <1>6 DEF Connections
<1>8. Cancelled(pg) \subseteq Connections(MaxRows)
  BY <1>6 DEF Cancelled, Connections, Endings
<1>9. \A reply \in Results : CopyEnds(pg, reply) \in Connections(MaxRows)
  BY <1>1 DEF CopyEnds, Connections
<1>10. \A reply \in Results, rows \in 0 .. MaxRows, ending \in Endings :
        Sent(pg, reply, rows, ending) \in Connections(MaxRows)
  BY <1>1 DEF Sent, Connections
<1>11. QED BY <1>2, <1>3, <1>4, <1>5, <1>7, <1>8, <1>9, <1>10

-----------------------------------------------------------------------------
\* After any first result a method goes on with calls that exist.
LEMMA SwitchesAreCalls ==
  ASSUME NEW r \in Results \cup {"null"}
  PROVE  /\ AfterTxResult(r) \in Seq(Calls)
         /\ AfterReaderResult(r) \in Seq(Calls)
         /\ AfterWriterResult(r) \in Seq(Calls)
         /\ AfterReadResult(r) \in Seq(Calls)
         /\ AfterFatal(r) \in Seq(Calls)
         /\ AfterNull(r) \in Seq(Calls)
<1>1. /\ <<>> \in Seq(Calls)
      /\ << "null" >> \in Seq(Calls)
      /\ << "throw" >> \in Seq(Calls)
      /\ << "null", "throw" >> \in Seq(Calls)
      /\ << "tx_result", "unreachable" >> \in Seq(Calls)
      /\ << "put_error", "fatal", "null", "throw" >> \in Seq(Calls)
      /\ << "cancel", "clear", "fatal", "null", "throw" >> \in Seq(Calls)
  BY DEF Calls
<1>2. AfterTxResult(r) \in Seq(Calls)
  BY <1>1 DEF AfterTxResult, Refuse
<1>3. AfterReaderResult(r) \in Seq(Calls)
  BY <1>1 DEF AfterReaderResult
<1>4. AfterWriterResult(r) \in Seq(Calls)
  BY <1>1 DEF AfterWriterResult, Refuse
<1>5. QED BY <1>1, <1>2, <1>3, <1>4 DEF AfterReadResult, AfterFatal, AfterNull

LEMMA TimesOutKeepsTypes ==
  ASSUME CopyTypeOK, InCall, TimesOut
  PROVE  MethodTypeOK' /\ pg' \in Connections(MaxRows) /\ stored' \in BOOLEAN /\ RegistryStep
<1>1. pg' \in Connections(MaxRows)
  BY LibpqKeepsTypes DEF TimesOut, CopyTypeOK
<1>2. MethodTypeOK' /\ RegistryStep
  BY EndKeepsTypes DEF TimesOut, Exceptions
<1>3. QED BY <1>1, <1>2 DEF TimesOut, CopyTypeOK

LEMMA ReceiveKeepsTypes ==
  ASSUME CopyTypeOK, NEW c, NEW todo \in Seq(Calls), Receive(c, todo)
  PROVE  CopyTypeOK' /\ RegistryStep
<1>1. InCall /\ todo \o Rest \in Seq(Calls)
  BY CallingInCall DEF Receive
<1>2. copier' = copier /\ asked' = asked
  BY DEF Receive
<1>3. CASE /\ pg' \in Parsed(AfterResult(pg))
           /\ Proceed(todo \o Rest)
           /\ UNCHANGED stored
  <2>1. pg' \in Connections(MaxRows)
    BY <1>3, LibpqKeepsTypes DEF CopyTypeOK
  <2>2. MethodTypeOK' /\ RegistryStep
    BY <1>1, <1>3, ProceedKeepsTypes
  <2>3. QED BY <1>2, <1>3, <2>1, <2>2 DEF CopyTypeOK, MethodTypeOK
<1>4. CASE TimesOut
  BY <1>1, <1>2, <1>4, TimesOutKeepsTypes DEF CopyTypeOK, MethodTypeOK
<1>5. CASE /\ pg' \in Parsed(pg) \cup Parsed(AfterResult(pg))
           /\ End("callback")
           /\ UNCHANGED stored
  <2>1. pg' \in Connections(MaxRows)
    BY <1>5, LibpqKeepsTypes DEF CopyTypeOK
  <2>2. MethodTypeOK' /\ RegistryStep
    BY <1>1, <1>5, EndKeepsTypes DEF Exceptions
  <2>3. QED BY <1>2, <1>5, <2>1, <2>2 DEF CopyTypeOK, MethodTypeOK
<1>6. QED BY <1>3, <1>4, <1>5 DEF Receive

LEMMA GetResultKeepsTypes ==
  ASSUME CopyTypeOK, GetResult
  PROVE  CopyTypeOK' /\ RegistryStep
<1>1. Result(pg) \in Results \cup {"null"}
  BY LibpqKeepsTypes DEF CopyTypeOK
<1>2. CASE TxResult
  <2>1. CASE Receive("tx_result", AfterTxResult(Result(pg)))
    BY <1>1, <2>1, SwitchesAreCalls, ReceiveKeepsTypes
  <2>2. CASE /\ Calling("tx_result")
             /\ End("order") /\ UNCHANGED << pg, copier, stored, asked >>
    <3>1. MethodTypeOK' /\ RegistryStep
      BY <2>2, CallingInCall, EndKeepsTypes DEF Exceptions
    <3>2. QED BY <2>2, <3>1 DEF CopyTypeOK, MethodTypeOK
  <2>3. QED BY <1>2, <2>1, <2>2 DEF TxResult
<1>3. CASE Receive("reader_result", AfterReaderResult(Result(pg)))
  BY <1>1, <1>3, SwitchesAreCalls, ReceiveKeepsTypes
<1>4. CASE Receive("writer_result", AfterWriterResult(Result(pg)))
  BY <1>1, <1>4, SwitchesAreCalls, ReceiveKeepsTypes
<1>5. CASE Receive("read_result", AfterReadResult(Result(pg)))
  BY <1>1, <1>5, SwitchesAreCalls, ReceiveKeepsTypes
<1>6. CASE Receive("fatal", AfterFatal(Result(pg)))
  BY <1>1, <1>6, SwitchesAreCalls, ReceiveKeepsTypes
<1>7. CASE Receive("null", AfterNull(Result(pg)))
  BY <1>1, <1>7, SwitchesAreCalls, ReceiveKeepsTypes
<1>8. QED BY <1>2, <1>3, <1>4, <1>5, <1>6, <1>7 DEF GetResult

-----------------------------------------------------------------------------
\* What the methods call besides connection::get_result()
LEMMA SendParamsKeepsTypes ==
  ASSUME CopyTypeOK, SendParams
  PROVE  CopyTypeOK' /\ RegistryStep
<1>1. InCall /\ Rest \in Seq(Calls)
  BY CallingInCall DEF SendParams
<1>2. stored' = stored /\ asked' = asked
  BY DEF SendParams
<1>3. CASE IsCurrent(call.obj) /\ pg.async = "idle"
  <2>1. PICK reply \in Results, rows \in 0 .. MaxRows, ending \in Endings :
          pg' = Sent(pg, reply, rows, ending)
    BY <1>3 DEF SendParams
  <2>2. pg' \in Connections(MaxRows)
    BY <2>1, LibpqKeepsTypes DEF CopyTypeOK
  <2>3. Proceed(Rest) /\ copier' \in Tx
    BY <1>1, <1>3 DEF SendParams, InCall
  <2>4. MethodTypeOK' /\ RegistryStep
    BY <1>1, <2>3, ProceedKeepsTypes
  <2>5. QED BY <1>2, <2>2, <2>3, <2>4 DEF CopyTypeOK, MethodTypeOK
<1>4. CASE ~(IsCurrent(call.obj) /\ pg.async = "idle")
  <2>1. PICK thrown \in Exceptions : End(thrown)
    BY <1>4 DEF SendParams, Exceptions
  <2>2. UNCHANGED << pg, copier >>
    BY <1>4 DEF SendParams
  <2>3. MethodTypeOK' /\ RegistryStep
    BY <1>1, <2>1, EndKeepsTypes
  <2>4. QED BY <1>2, <2>2, <2>3 DEF CopyTypeOK, MethodTypeOK
<1>5. QED BY <1>3, <1>4

LEMMA PutCopyEndKeepsTypes ==
  ASSUME CopyTypeOK, NEW c, PutCopyEnd(c)
  PROVE  CopyTypeOK' /\ RegistryStep
<1>1. InCall /\ Rest \in Seq(Calls)
  BY CallingInCall DEF PutCopyEnd
<1>2. copier' = copier /\ asked' = asked
  BY DEF PutCopyEnd
<1>3. ASSUME NEW reply \in CopyInReplies(c),
             pg' = CopyEnds(pg, reply),
             stored' = (stored \/ reply = "command_ok"),
             Proceed(Rest)
      PROVE  CopyTypeOK' /\ RegistryStep
  <2>1. reply \in Results
    BY DEF CopyInReplies, Results
  <2>2. pg' \in Connections(MaxRows)
    BY <1>3, <2>1, LibpqKeepsTypes DEF CopyTypeOK
  <2>3. stored' \in BOOLEAN
    BY <1>3
  <2>4. MethodTypeOK' /\ RegistryStep
    BY <1>1, <1>3, ProceedKeepsTypes
  <2>5. QED BY <1>2, <2>2, <2>3, <2>4 DEF CopyTypeOK, MethodTypeOK
<1>4. CASE TimesOut
  BY <1>1, <1>2, <1>4, TimesOutKeepsTypes DEF CopyTypeOK, MethodTypeOK
<1>5. ASSUME NEW thrown \in Exceptions, End(thrown), UNCHANGED << pg, stored >>
      PROVE  CopyTypeOK' /\ RegistryStep
  <2>1. MethodTypeOK' /\ RegistryStep
    BY <1>1, <1>5, EndKeepsTypes
  <2>2. QED BY <1>2, <1>5, <2>1 DEF CopyTypeOK, MethodTypeOK
<1>6. "callback" \in Exceptions /\ "other" \in Exceptions
  BY DEF Exceptions
<1>7. QED BY <1>3, <1>4, <1>5, <1>6 DEF PutCopyEnd

LEMMA CancelKeepsTypes ==
  ASSUME CopyTypeOK, Cancel
  PROVE  CopyTypeOK' /\ RegistryStep
<1>1. InCall /\ Rest \in Seq(Calls)
  BY CallingInCall DEF Cancel
<1>2. UNCHANGED << copier, stored, asked >>
  BY DEF Cancel
<1>3. pg' \in Connections(MaxRows)
  BY LibpqKeepsTypes DEF Cancel, CopyTypeOK
<1>4. MethodTypeOK' /\ RegistryStep
  <2>1. CASE Proceed(Rest)
    BY <1>1, <2>1, ProceedKeepsTypes
  <2>2. CASE End("cancel")
    BY <1>1, <2>2, EndKeepsTypes DEF Exceptions
  <2>3. QED BY <2>1, <2>2 DEF Cancel
<1>5. QED BY <1>2, <1>3, <1>4 DEF CopyTypeOK, MethodTypeOK

LEMMA ClearCopyDataKeepsTypes ==
  ASSUME CopyTypeOK, ClearCopyData
  PROVE  CopyTypeOK' /\ RegistryStep
<1>1. InCall /\ Rest \in Seq(Calls)
  BY CallingInCall DEF ClearCopyData
<1>2. copier' = copier /\ asked' = asked
  BY DEF ClearCopyData
<1>3. CASE TimesOut
  BY <1>1, <1>2, <1>3, TimesOutKeepsTypes DEF CopyTypeOK, MethodTypeOK
<1>4. CASE pg' = CopyEnds(pg, pg.ending) /\ Proceed(Rest) /\ UNCHANGED stored
  <2>1. pg.ending \in Results
    BY DEF CopyTypeOK, Connections, Endings, Results
  <2>2. pg' \in Connections(MaxRows)
    BY <1>4, <2>1, LibpqKeepsTypes DEF CopyTypeOK
  <2>3. MethodTypeOK' /\ RegistryStep
    BY <1>1, <1>4, ProceedKeepsTypes
  <2>4. QED BY <1>2, <1>4, <2>2, <2>3 DEF CopyTypeOK, MethodTypeOK
<1>5. ASSUME NEW thrown \in Exceptions, End(thrown), UNCHANGED stored,
             pg' \in Connections(MaxRows)
      PROVE  CopyTypeOK' /\ RegistryStep
  <2>1. MethodTypeOK' /\ RegistryStep
    BY <1>1, <1>5, EndKeepsTypes
  <2>2. QED BY <1>2, <1>5, <2>1 DEF CopyTypeOK, MethodTypeOK
<1>6. "callback" \in Exceptions /\ "other" \in Exceptions
  BY DEF Exceptions
<1>7. /\ pg \in Connections(MaxRows)
      /\ \A n \in 0 .. pg.rows : [pg EXCEPT !.rows = n] \in Connections(MaxRows)
  BY LibpqKeepsTypes DEF CopyTypeOK
<1>8. QED BY <1>3, <1>4, <1>5, <1>6, <1>7 DEF ClearCopyData

\* Everything that a running method does next
LEMMA StepKeepsTypes ==
  ASSUME CopyTypeOK, Step
  PROVE  CopyTypeOK' /\ RegistryStep
<1>1. CASE Throw
  <2>1. MethodTypeOK' /\ RegistryStep
    BY <1>1, CallingInCall, EndKeepsTypes DEF Throw, Exceptions
  <2>2. QED BY <1>1, <2>1 DEF Throw, CopyTypeOK, MethodTypeOK
<1>2. QED
  BY <1>1, SendParamsKeepsTypes, GetResultKeepsTypes, CancelKeepsTypes,
     ClearCopyDataKeepsTypes, PutCopyEndKeepsTypes DEF Step

-----------------------------------------------------------------------------
\* The program calls a method.
LEMMA StartsAreCalls ==
  /\ << "send" >> \in Seq(Calls) \ {<<>>}
  /\ << "tx_result" >> \in Seq(Calls) \ {<<>>}
  /\ << "read_result" >> \in Seq(Calls) \ {<<>>}
  /\ << "send", "tx_result" >> \in Seq(Calls) \ {<<>>}
  /\ << "send", "reader_result" >> \in Seq(Calls) \ {<<>>}
  /\ << "send", "writer_result" >> \in Seq(Calls) \ {<<>>}
  /\ << "put_end", "tx_result" >> \in Seq(Calls) \ {<<>>}
  BY DEF Calls

LEMMA RequestsKeepsTypes ==
  ASSUME CopyTypeOK, NEW t \in Tx, Requests(t)
  PROVE  CopyTypeOK' /\ RegistryStep
<1>1. PICK op \in Methods, todo \in Seq(Calls) \ {<<>>} : Request(t, op, todo)
  BY StartsAreCalls DEF Requests, Methods
<1>2. call' \in [op : Methods, obj : Tx, todo : Seq(Calls) \ {<<>>}]
  BY <1>1 DEF Request, Start
<1>3. UNCHANGED << registryVars, pg, role, historyVars >>
  BY <1>1 DEF Request
<1>4. QED BY <1>2, <1>3 DEF CopyTypeOK, historyVars, RegistryStep

LEMMA NewReaderKeepsTypes ==
  ASSUME CopyTypeOK, NEW p \in Tx, NEW g \in Tx, NewReader(p, g)
  PROVE  CopyTypeOK' /\ RegistryStep
<1>1. call' \in [op : Methods, obj : Tx, todo : Seq(Calls) \ {<<>>}]
  BY StartsAreCalls DEF NewReader, Start, Methods
<1>2. /\ role' \in [Tx -> {"none", "reader", "writer"}]
      /\ failed' \in SUBSET Tx
      /\ UNCHANGED << pg, last, copier, stored, asked >>
  BY DEF NewReader, CopyTypeOK
<1>3. RegistryStep
  BY DEF NewReader, RegistryStep, RegistryNext
<1>4. QED BY <1>1, <1>2, <1>3 DEF CopyTypeOK

LEMMA NewWriterKeepsTypes ==
  ASSUME CopyTypeOK, NEW p \in Tx, NEW g \in Tx, NewWriter(p, g)
  PROVE  CopyTypeOK' /\ RegistryStep
<1>1. call' \in [op : Methods, obj : Tx, todo : Seq(Calls) \ {<<>>}]
  BY StartsAreCalls DEF NewWriter, Start, Methods
<1>2. /\ role' \in [Tx -> {"none", "reader", "writer"}]
      /\ failed' \in SUBSET Tx
      /\ stored' \in BOOLEAN /\ asked' \in BOOLEAN
      /\ UNCHANGED << pg, last, copier >>
  BY DEF NewWriter, CopyTypeOK
<1>3. RegistryStep
  BY DEF NewWriter, RegistryStep, RegistryNext
<1>4. QED BY <1>1, <1>2, <1>3 DEF CopyTypeOK

LEMMA ReadKeepsTypes ==
  ASSUME CopyTypeOK, NEW g \in Tx, Read(g)
  PROVE  CopyTypeOK' /\ RegistryStep
<1>1. UNCHANGED << registryVars, role, copier, stored, asked >>
  BY DEF Read
<1>2. pg' \in Connections(MaxRows)
  <2>1. pg.async = "copy_out" /\ HasRow => pg.rows - 1 \in 0 .. pg.rows
    BY DEF CopyTypeOK, Connections, HasRow
  <2>2. pg.ending \in Results
    BY DEF CopyTypeOK, Connections, Endings, Results
  <2>3. pg \in Connections(MaxRows)
    BY DEF CopyTypeOK
  <2>4. pg' \in { pg, Closed, CopyEnds(pg, pg.ending) } \/ (HasRow /\ pg' = [pg EXCEPT !.rows = pg.rows - 1])
    BY DEF Read
  <2>5. QED BY <2>1, <2>2, <2>3, <2>4, LibpqKeepsTypes DEF HasRow
<1>3. /\ last' \in [op : Methods \cup {"none"}, thrown : Exceptions]
      /\ failed' \in SUBSET Tx
      /\ call' \in {NoCall} \cup [op : Methods, obj : Tx, todo : Seq(Calls) \ {<<>>}]
  <2>1. CASE Start("read", g, << "read_result" >>) /\ UNCHANGED << last, failed >>
    <3>1. call' \in [op : Methods, obj : Tx, todo : Seq(Calls) \ {<<>>}]
      BY <2>1, StartsAreCalls DEF Start, Methods
    <3>2. QED BY <2>1, <3>1 DEF CopyTypeOK
  <2>2. ASSUME NEW thrown \in Exceptions, Finished("row", g, thrown), UNCHANGED call
        PROVE  /\ last' \in [op : Methods \cup {"none"}, thrown : Exceptions]
               /\ failed' \in SUBSET Tx
               /\ call' \in {NoCall} \cup [op : Methods, obj : Tx, todo : Seq(Calls) \ {<<>>}]
    BY <2>2 DEF Finished, Methods, CopyTypeOK
  <2>3. QED BY <2>1, <2>2 DEF Read, Exceptions
<1>4. QED BY <1>1, <1>2, <1>3 DEF CopyTypeOK, RegistryStep

LEMMA InsertKeepsTypes ==
  ASSUME CopyTypeOK, NEW g \in Tx, Insert(g)
  PROVE  CopyTypeOK' /\ RegistryStep
<1>1. UNCHANGED << registryVars, role, call, copier, stored, asked >>
  BY DEF Insert
<1>2. pg' \in Connections(MaxRows)
  BY LibpqKeepsTypes DEF Insert, CopyTypeOK
<1>3. /\ last' \in [op : Methods \cup {"none"}, thrown : Exceptions]
      /\ failed' \in SUBSET Tx
  BY DEF Insert, Finished, Methods, Exceptions, CopyTypeOK
<1>4. QED BY <1>1, <1>2, <1>3 DEF CopyTypeOK, RegistryStep

LEMMA CommitWriterKeepsTypes ==
  ASSUME CopyTypeOK, NEW g \in Tx, CommitWriter(g)
  PROVE  CopyTypeOK' /\ RegistryStep
<1>1. call' \in [op : Methods, obj : Tx, todo : Seq(Calls) \ {<<>>}]
  BY StartsAreCalls DEF CommitWriter, Start, Methods
<1>2. UNCHANGED << registryVars, pg, role, last, copier, failed, stored >> /\ asked' \in BOOLEAN
  BY DEF CommitWriter
<1>3. QED BY <1>1, <1>2 DEF CopyTypeOK, RegistryStep

LEMMA ReleaseKeepsTypes ==
  ASSUME CopyTypeOK, NEW t \in Tx, Release(t)
  PROVE  CopyTypeOK' /\ RegistryStep
<1>1. UNCHANGED << pg, historyVars >>
  BY DEF Release
<1>2. CASE role[t] = "writer"
  <2>1. Start("unwind", t, << "tx_result" >>)
    BY <1>2 DEF Release
  <2>2. call' \in [op : Methods, obj : Tx, todo : Seq(Calls) \ {<<>>}]
    BY <2>1, StartsAreCalls DEF Start, Methods
  <2>3. UNCHANGED << registryVars, role >>
    BY <1>2 DEF Release
  <2>4. QED BY <1>1, <2>2, <2>3 DEF CopyTypeOK, historyVars, RegistryStep
<1>3. CASE role[t] # "writer"
  <2>1. Drop(t) /\ role' = [role EXCEPT ![t] = "none"] /\ UNCHANGED call
    BY <1>3 DEF Release
  <2>2. RegistryStep
    BY <2>1 DEF RegistryStep, RegistryNext
  <2>3. QED BY <1>1, <2>1, <2>2 DEF CopyTypeOK, historyVars
<1>4. QED BY <1>2, <1>3

\* Every step keeps the types, and is a step of Registry or none.
LEMMA NextKeepsTypes ==
  ASSUME CopyTypeOK, Next
  PROVE  CopyTypeOK' /\ RegistryStep
<1>1. ASSUME NEW t \in Tx, BeginDirect(t) PROVE CopyTypeOK' /\ RegistryStep
  <2>1. Begin(t, "direct") /\ UNCHANGED << pg, role, call, historyVars >>
    BY <1>1 DEF BeginDirect
  <2>2. RegistryNext
    BY <2>1 DEF RegistryNext
  <2>3. QED BY <2>1, <2>2 DEF CopyTypeOK, historyVars, RegistryStep
<1>2. ASSUME NEW t \in Tx, FinishDirect(t) PROVE CopyTypeOK' /\ RegistryStep
  BY <1>2 DEF FinishDirect, CopyTypeOK, historyVars, RegistryStep, RegistryNext
<1>3. ASSUME NEW t \in Tx, Destruct(t) PROVE CopyTypeOK' /\ RegistryStep
  BY <1>3 DEF Destruct, CopyTypeOK, historyVars, RegistryStep, RegistryNext
<1>4. CASE CancelNow
  BY <1>4, LibpqKeepsTypes DEF CancelNow, CopyTypeOK, historyVars, RegistryStep
<1>5. CASE GetNotifications
  BY <1>5, LibpqKeepsTypes DEF GetNotifications, CopyTypeOK, historyVars, RegistryStep
<1>6. CASE Step
  BY <1>6, StepKeepsTypes
<1>7. QED
  BY <1>1, <1>2, <1>3, <1>4, <1>5, <1>6, RequestsKeepsTypes, NewReaderKeepsTypes,
     NewWriterKeepsTypes, ReadKeepsTypes, InsertKeepsTypes, CommitWriterKeepsTypes,
     ReleaseKeepsTypes DEF Next

LEMMA StutterKeepsTypes ==
  ASSUME CopyTypeOK, UNCHANGED vars
  PROVE  CopyTypeOK' /\ RegistryStep
  BY DEF vars, historyVars, CopyTypeOK, RegistryStep

LEMMA InitTypes == Init => CopyTypeOK
<1> SUFFICES ASSUME Init PROVE CopyTypeOK
  OBVIOUS
<1>1. pg \in Connections(MaxRows)
  BY MaxRowsAssumption DEF Init, Fresh, Connections, Endings
<1>2. QED BY <1>1 DEF Init, CopyTypeOK, Exceptions

LEMMA CopyTypesAlways == Spec => []CopyTypeOK
<1>1. CopyTypeOK /\ [Next]_vars => CopyTypeOK'
  BY NextKeepsTypes, StutterKeepsTypes
<1>2. QED BY <1>1, InitTypes, PTL DEF Spec

-----------------------------------------------------------------------------
\* Whatever a reader, a writer or a statement meets, throwing or not, all it
\* does to the objects and the pointers between them is what Registry allows.
THEOREM BulkTransferImplementsRegistry == Spec => RegistrySafeSpec
<1>1. Init => RegistryInit
  BY DEF Init
<1>2. CopyTypeOK /\ [Next]_vars => [RegistryNext]_registryVars
  BY NextKeepsTypes, StutterKeepsTypes DEF RegistryStep
<1>3. QED BY <1>1, <1>2, CopyTypesAlways, PTL DEF Spec, RegistrySafeSpec

\* The state of the methods, the connection and the objects has its type.
THEOREM BulkTransferTypeCorrect ==
  ASSUME ~OutOfOrder
  PROVE  Spec => []TypeOK
<1>1. RegistryTypeOK /\ CopyTypeOK => TypeOK
  BY DEF TypeOK
<1>2. QED
  BY <1>1, BulkTransferImplementsRegistry, RegistryTypeCorrect, CopyTypesAlways, PTL

\* Readers and writers, also the ones whose constructor throws, keep the
\* documented order of the transactions.
THEOREM BulkTransferKeepsOrder ==
  ASSUME ~OutOfOrder
  PROVE  Spec => ImplementsTransactionOrder
  BY BulkTransferImplementsRegistry, RegistryImplementsOrder, PTL

-----------------------------------------------------------------------------
(* The COPY.  A COPY FROM is all or nothing.  The server's answer to the   *)
(* end of the COPY comes before commit() looks at it, so the invariant has *)
(* to follow commit() from one call to the next: until it is stored, the   *)
(* error is either the next result or has made commit() throw.             *)
(*                                                                         *)
(* Every method goes on as its conversation with libpq has gone so far:    *)
(* what is left for it to call is tied to what libpq is in the middle of.  *)
(* From that follows how methods end.  That a reader or writer keeps the   *)
(* COPY it has begun also needs the order of the transactions: all others  *)
(* that talk to libpq do so as the current transaction.                    *)

\* PQputCopyEnd() without a message is called by commit() only, and first.
EndsAreAsked ==
  \A i \in 1 .. Len(call.todo) :
    call.todo[i] = "put_end" => i = 1 /\ call.op = "commit" /\ asked

\* What is left of commit()
CommitGoesOn ==
  call.op = "commit" =>
    \/ call.todo = << "put_end", "tx_result" >>
    \/ stored
    \/ call.todo = << "tx_result" >> /\ pg.async = "busy" /\ pg.replies = << "fatal_error" >>
    \/ call.todo # <<>> /\ call.todo[Len(call.todo)] = "throw"

AllOrNothing ==
  /\ EndsAreAsked
  /\ CommitGoesOn
  /\ WriterIsAllOrNothing

WInv == CopyTypeOK /\ AllOrNothing

-----------------------------------------------------------------------------
LEMMA RestFacts ==
  ASSUME CopyTypeOK, NEW c, Calling(c)
  PROVE  /\ call.todo \in Seq(Calls) /\ call.todo # <<>> /\ call.todo[1] = c
         /\ Rest \in Seq(Calls) /\ Len(Rest) = Len(call.todo) - 1
         /\ \A i \in 1 .. Len(Rest) : i + 1 \in 1 .. Len(call.todo) /\ Rest[i] = call.todo[i + 1]
<1>1. call.todo \in Seq(Calls) /\ call.todo # <<>>
  BY CallingInCall DEF InCall
<1>2. QED BY <1>1 DEF Calling, Rest

\* A method ends; only a commit() that has stored the rows returns.
LEMMA EndIsAllOrNothing ==
  ASSUME WInv, InCall, NEW thrown, End(thrown),
         UNCHANGED << asked, stored >>,
         call.op = "commit" /\ thrown = "none" => stored
  PROVE  AllOrNothing'
<1>1. call'.todo = <<>> /\ call'.op = "none"
  BY DEF End, NoCall
<1>2. EndsAreAsked' /\ CommitGoesOn'
  BY <1>1 DEF EndsAreAsked, CommitGoesOn
<1>3. last' = [op |-> call.op, thrown |-> thrown]
  BY DEF End, Finished
<1>4. WriterIsAllOrNothing'
  BY <1>3 DEF WInv, AllOrNothing, WriterIsAllOrNothing, Last
<1>5. QED BY <1>2, <1>4 DEF AllOrNothing

\* A method goes on; what is left of it is harmless.
LEMMA ProceedIsAllOrNothing ==
  ASSUME WInv, InCall, NEW todo \in Seq(Calls), Proceed(todo),
         UNCHANGED asked,
         stored' => asked',
         \A i \in 1 .. Len(todo) : todo[i] # "put_end",
         call.op = "commit" =>
           \/ stored'
           \/ todo = << "tx_result" >> /\ pg'.async = "busy" /\ pg'.replies = << "fatal_error" >>
           \/ todo # <<>> /\ todo[Len(todo)] = "throw"
  PROVE  AllOrNothing'
<1>1. CASE todo = <<>>
  <2>1. End("none")
    BY <1>1 DEF Proceed
  <2>2. call'.todo = <<>> /\ call'.op = "none"
    BY <2>1 DEF End, NoCall
  <2>3. EndsAreAsked' /\ CommitGoesOn'
    BY <2>2 DEF EndsAreAsked, CommitGoesOn
  <2>4. last' = [op |-> call.op, thrown |-> "none"]
    BY <2>1 DEF End, Finished
  <2>5. WriterIsAllOrNothing'
    BY <1>1, <2>4 DEF WriterIsAllOrNothing, Last
  <2>6. QED BY <2>3, <2>5 DEF AllOrNothing
<1>2. CASE todo # <<>>
  <2>1. call' = [call EXCEPT !.todo = todo]
    BY <1>2 DEF Proceed
  <2>2. call'.todo = todo /\ call'.op = call.op
    BY <2>1 DEF InCall
  <2>3. EndsAreAsked' /\ CommitGoesOn'
    BY <2>2 DEF EndsAreAsked, CommitGoesOn
  <2>4. call' # NoCall
    BY <1>2, <2>2 DEF NoCall
  <2>5. WriterIsAllOrNothing'
    BY <2>4 DEF WriterIsAllOrNothing, Last
  <2>6. QED BY <2>3, <2>5 DEF AllOrNothing
<1>3. QED BY <1>1, <1>2

\* connection::get_result(): if it is the first one after commit() has ended
\* the COPY, the switch of transaction_base::get_result() throws on an error.
LEMMA ReceiveIsAllOrNothing ==
  ASSUME WInv, NEW c, NEW todo \in Seq(Calls), Receive(c, todo),
         c \notin {"put_end", "throw"},
         \A i \in 1 .. Len(todo) : todo[i] # "put_end",
         c = "tx_result" /\ pg.async = "busy" /\ pg.replies = << "fatal_error" >>
           => todo # <<>> /\ todo[Len(todo)] = "throw"
  PROVE  AllOrNothing'
<1>1. CopyTypeOK /\ Calling(c) /\ InCall /\ UNCHANGED asked
  BY CallingInCall DEF Receive, WInv
<1>2. CASE /\ pg' \in Parsed(AfterResult(pg))
           /\ Proceed(todo \o Rest)
           /\ UNCHANGED stored
  <2> DEFINE left == todo \o Rest
  <2>1. /\ Rest \in Seq(Calls) /\ left \in Seq(Calls)
        /\ Len(left) = Len(todo) + Len(Rest)
        /\ \A i \in 1 .. Len(todo) : left[i] = todo[i]
        /\ \A i \in 1 .. Len(Rest) : left[Len(todo) + i] = Rest[i]
    BY <1>1, RestFacts
  <2>2. \A i \in 1 .. Len(left) :
          i \in 1 .. Len(todo) \/ \E j \in 1 .. Len(Rest) : i = Len(todo) + j
    <3>1. ASSUME NEW i \in 1 .. Len(left), i > Len(todo)
          PROVE  i - Len(todo) \in 1 .. Len(Rest) /\ i = Len(todo) + (i - Len(todo))
      BY <2>1, <3>1
    <3>2. QED BY <2>1, <3>1
  <2>3. call.op = "commit" =>
           \/ stored
           \/ left # <<>> /\ left[Len(left)] = "throw"
    <3>1. SUFFICES ASSUME call.op = "commit", ~stored
                   PROVE  left # <<>> /\ left[Len(left)] = "throw"
      OBVIOUS
    <3>2. CASE call.todo = << "put_end", "tx_result" >>
      BY <1>1, <3>2, RestFacts
    <3>3. CASE call.todo = << "tx_result" >> /\ pg.async = "busy" /\ pg.replies = << "fatal_error" >>
      <4>1. c = "tx_result" /\ Len(Rest) = 0
        BY <1>1, <3>3, RestFacts
      <4>2. todo # <<>> /\ todo[Len(todo)] = "throw"
        BY <3>3, <4>1
      <4>3. Len(left) = Len(todo) /\ Len(todo) \in 1 .. Len(todo)
        BY <2>1, <4>1, <4>2
      <4>4. QED BY <2>1, <4>2, <4>3
    <3>4. CASE call.todo # <<>> /\ call.todo[Len(call.todo)] = "throw"
      <4>1. Len(call.todo) # 0 /\ Len(call.todo) # 1
        BY <1>1, <3>4, RestFacts
      <4>2. Len(Rest) \in Nat /\ Len(call.todo) \in Nat /\ Len(Rest) = Len(call.todo) - 1
        BY <1>1, RestFacts
      <4>3. Len(Rest) \in 1 .. Len(Rest) /\ Len(Rest) + 1 = Len(call.todo)
        <5>1. \A m, n \in Nat : m # 0 /\ m # 1 /\ n = m - 1 => n \in 1 .. n /\ n + 1 = m
          OBVIOUS
        <5>2. QED BY <4>1, <4>2, <5>1
      <4>4. Rest[Len(Rest)] = "throw"
        BY <1>1, <3>4, <4>3, RestFacts
      <4>5. QED BY <2>1, <4>3, <4>4
    <3>5. QED BY <3>1, <3>2, <3>3, <3>4 DEF WInv, AllOrNothing, CommitGoesOn
  <2>4. \A i \in 1 .. Len(Rest) : Rest[i] # "put_end"
    BY <1>1, RestFacts DEF WInv, AllOrNothing, EndsAreAsked
  <2>5. \A i \in 1 .. Len(left) : left[i] # "put_end"
    BY <2>1, <2>2, <2>4
  <2>6. stored' => asked'
    BY <1>1, <1>2 DEF WInv, AllOrNothing, WriterIsAllOrNothing
  <2>7. QED BY <1>1, <1>2, <2>1, <2>3, <2>5, <2>6, ProceedIsAllOrNothing
<1>3. CASE TimesOut
  BY <1>1, <1>3, EndIsAllOrNothing DEF TimesOut
<1>4. CASE End("callback") /\ UNCHANGED stored
  BY <1>1, <1>4, EndIsAllOrNothing
<1>5. QED BY <1>2, <1>3, <1>4 DEF Receive

\* The switches on a result never end a COPY FROM themselves.
LEMMA SwitchesDoNotEnd ==
  ASSUME NEW r \in Results \cup {"null"}
  PROVE  \A todo \in { AfterTxResult(r), AfterReaderResult(r), AfterWriterResult(r),
                       AfterReadResult(r), AfterFatal(r), AfterNull(r) } :
           \A i \in 1 .. Len(todo) : todo[i] # "put_end"
<1> DEFINE Harmless(todo) == \A i \in 1 .. Len(todo) : todo[i] # "put_end"
<1>1. /\ Harmless(<<>>)
      /\ Harmless(<< "null" >>)
      /\ Harmless(<< "throw" >>)
      /\ Harmless(<< "null", "throw" >>)
      /\ Harmless(<< "tx_result", "unreachable" >>)
      /\ Harmless(<< "put_error", "fatal", "null", "throw" >>)
      /\ Harmless(<< "cancel", "clear", "fatal", "null", "throw" >>)
  OBVIOUS
<1>2. Harmless(AfterTxResult(r))
  BY <1>1 DEF AfterTxResult, Refuse
<1>3. Harmless(AfterReaderResult(r))
  BY <1>1 DEF AfterReaderResult
<1>4. Harmless(AfterWriterResult(r))
  BY <1>1 DEF AfterWriterResult, Refuse
<1>5. Harmless(AfterReadResult(r)) /\ Harmless(AfterFatal(r)) /\ Harmless(AfterNull(r))
  BY <1>1 DEF AfterReadResult, AfterFatal, AfterNull
<1>6. QED BY <1>2, <1>3, <1>4, <1>5

LEMMA GetResultIsAllOrNothing ==
  ASSUME WInv, GetResult
  PROVE  AllOrNothing'
<1>1. Result(pg) \in Results \cup {"null"}
  BY LibpqKeepsTypes DEF WInv, CopyTypeOK
<1>2. CASE TxResult
  <2>1. CASE Receive("tx_result", AfterTxResult(Result(pg)))
    <3>1. pg.async = "busy" /\ pg.replies = << "fatal_error" >>
            => AfterTxResult(Result(pg)) = << "null", "throw" >>
      BY DEF Result, AfterTxResult
    <3>2. << "null", "throw" >> # <<>> /\ << "null", "throw" >>[Len(<< "null", "throw" >>)] = "throw"
      OBVIOUS
    <3>3. pg.async = "busy" /\ pg.replies = << "fatal_error" >>
            => /\ AfterTxResult(Result(pg)) # <<>>
               /\ AfterTxResult(Result(pg))[Len(AfterTxResult(Result(pg)))] = "throw"
      BY <3>1, <3>2
    <3>4. QED BY <1>1, <2>1, <3>3, SwitchesAreCalls, SwitchesDoNotEnd, ReceiveIsAllOrNothing
  <2>2. CASE /\ Calling("tx_result")
             /\ End("order") /\ UNCHANGED << pg, copier, stored, asked >>
    BY <2>2, CallingInCall, EndIsAllOrNothing DEF WInv
  <2>3. QED BY <1>2, <2>1, <2>2 DEF TxResult
<1>3. CASE Receive("reader_result", AfterReaderResult(Result(pg)))
  BY <1>1, <1>3, SwitchesAreCalls, SwitchesDoNotEnd, ReceiveIsAllOrNothing
<1>4. CASE Receive("writer_result", AfterWriterResult(Result(pg)))
  BY <1>1, <1>4, SwitchesAreCalls, SwitchesDoNotEnd, ReceiveIsAllOrNothing
<1>5. CASE Receive("read_result", AfterReadResult(Result(pg)))
  BY <1>1, <1>5, SwitchesAreCalls, SwitchesDoNotEnd, ReceiveIsAllOrNothing
<1>6. CASE Receive("fatal", AfterFatal(Result(pg)))
  BY <1>1, <1>6, SwitchesAreCalls, SwitchesDoNotEnd, ReceiveIsAllOrNothing
<1>7. CASE Receive("null", AfterNull(Result(pg)))
  BY <1>1, <1>7, SwitchesAreCalls, SwitchesDoNotEnd, ReceiveIsAllOrNothing
<1>8. QED BY <1>2, <1>3, <1>4, <1>5, <1>6, <1>7 DEF GetResult

-----------------------------------------------------------------------------
\* What follows any other call is the rest of the method.
LEMMA RestIsAllOrNothing ==
  ASSUME WInv, NEW c, Calling(c), c \notin {"tx_result", "throw", "put_end"},
         Proceed(Rest), UNCHANGED << asked, stored >>
  PROVE  AllOrNothing'
<1>1. CopyTypeOK /\ InCall
  BY CallingInCall DEF WInv
<1>2. /\ Rest \in Seq(Calls)
      /\ \A i \in 1 .. Len(Rest) : Rest[i] # "put_end"
  BY <1>1, RestFacts DEF WInv, AllOrNothing, EndsAreAsked
<1>3. call.op = "commit" => stored \/ (Rest # <<>> /\ Rest[Len(Rest)] = "throw")
  <2>1. SUFFICES ASSUME call.op = "commit", ~stored
                 PROVE  Rest # <<>> /\ Rest[Len(Rest)] = "throw"
    OBVIOUS
  <2>2. call.todo[1] \notin {"put_end", "tx_result", "throw"}
    BY <1>1, RestFacts
  <2>3. call.todo # <<>> /\ call.todo[Len(call.todo)] = "throw"
    BY <2>1, <2>2 DEF WInv, AllOrNothing, CommitGoesOn
  <2>4. Len(Rest) \in Nat /\ Len(call.todo) \in Nat /\ Len(Rest) = Len(call.todo) - 1
    BY <1>1, RestFacts
  <2>5. Len(Rest) \in 1 .. Len(Rest) /\ Len(Rest) + 1 = Len(call.todo)
    BY <2>2, <2>3, <2>4
  <2>6. QED BY <1>1, <2>3, <2>5, RestFacts
<1>4. stored' => asked'
  BY DEF WInv, AllOrNothing, WriterIsAllOrNothing
<1>5. QED BY <1>1, <1>2, <1>3, <1>4, ProceedIsAllOrNothing

\* The end of a COPY: without a message commit() has asked for it, and an error
\* is the next result; with one nothing is stored.
LEMMA PutCopyEndIsAllOrNothing ==
  ASSUME WInv, NEW c \in {"put_end", "put_error"}, PutCopyEnd(c)
  PROVE  AllOrNothing'
<1>1. CopyTypeOK /\ InCall /\ Calling(c) /\ UNCHANGED asked
  BY CallingInCall DEF PutCopyEnd, WInv
<1>2. ASSUME NEW reply \in CopyInReplies(c),
             pg' = CopyEnds(pg, reply),
             stored' = (stored \/ reply = "command_ok"),
             Proceed(Rest)
      PROVE  AllOrNothing'
  <2>1. CASE c = "put_error"
    <3>1. UNCHANGED stored
      BY <1>2, <2>1 DEF CopyInReplies, WInv, CopyTypeOK
    <3>2. QED BY <1>1, <1>2, <2>1, <3>1, RestIsAllOrNothing
  <2>2. CASE c = "put_end"
    <3>1. 1 \in 1 .. Len(call.todo) /\ call.todo[1] = "put_end"
      BY <1>1, <2>2, RestFacts
    <3>2. call.op = "commit" /\ asked
      BY <3>1 DEF WInv, AllOrNothing, EndsAreAsked
    <3>3. \A i \in 1 .. Len(Rest) : Rest[i] # "put_end"
      BY <1>1, RestFacts DEF WInv, AllOrNothing, EndsAreAsked
    <3>4. \/ stored'
          \/ Rest = << "tx_result" >> /\ pg'.async = "busy" /\ pg'.replies = << "fatal_error" >>
          \/ Rest # <<>> /\ Rest[Len(Rest)] = "throw"
      <4>1. SUFFICES ASSUME ~stored'
                     PROVE  \/ Rest = << "tx_result" >> /\ pg'.async = "busy" /\ pg'.replies = << "fatal_error" >>
                            \/ Rest # <<>> /\ Rest[Len(Rest)] = "throw"
        OBVIOUS
      <4>2. reply = "fatal_error" /\ ~stored
        BY <1>2, <2>2, <4>1 DEF CopyInReplies
      <4>3. pg'.async = "busy" /\ pg'.replies = << "fatal_error" >>
        BY <1>1, <1>2, <4>2 DEF CopyEnds, CopyTypeOK, Connections
      <4>4. CASE call.todo = << "put_end", "tx_result" >>
        BY <4>3, <4>4 DEF Rest
      <4>5. CASE call.todo # <<>> /\ call.todo[Len(call.todo)] = "throw"
        <5>1. Len(Rest) \in Nat /\ Len(call.todo) \in Nat /\ Len(Rest) = Len(call.todo) - 1
          BY <1>1, RestFacts
        <5>2. Len(Rest) \in 1 .. Len(Rest) /\ Len(Rest) + 1 = Len(call.todo)
          BY <3>1, <4>5, <5>1
        <5>3. QED BY <1>1, <4>5, <5>2, RestFacts
      <4>6. call.todo # << "tx_result" >>
        BY <3>1
      <4>7. QED BY <3>2, <4>2, <4>4, <4>5, <4>6 DEF WInv, AllOrNothing, CommitGoesOn
    <3>5. QED BY <1>1, <1>2, <3>2, <3>3, <3>4, RestFacts, ProceedIsAllOrNothing
  <2>3. QED BY <2>1, <2>2
<1>3. CASE TimesOut
  BY <1>1, <1>3, EndIsAllOrNothing DEF TimesOut
<1>4. ASSUME NEW thrown \in {"callback", "other"}, End(thrown), UNCHANGED stored
      PROVE  AllOrNothing'
  BY <1>1, <1>4, EndIsAllOrNothing
<1>5. QED BY <1>2, <1>3, <1>4 DEF PutCopyEnd

LEMMA StepIsAllOrNothing ==
  ASSUME WInv, Step
  PROVE  AllOrNothing'
<1>1. ASSUME NEW c, Calling(c), c \in {"send", "cancel", "clear", "throw"},
             NEW thrown, thrown # "none", End(thrown), UNCHANGED << asked, stored >>
      PROVE  AllOrNothing'
  BY <1>1, CallingInCall, EndIsAllOrNothing DEF WInv
<1>2. CASE SendParams
  <2>1. Calling("send") /\ UNCHANGED << asked, stored >>
    BY <1>2 DEF SendParams
  <2>2. \/ Proceed(Rest)
        \/ \E thrown \in {"other", "order"} : End(thrown)
    BY <1>2 DEF SendParams
  <2>3. QED BY <1>1, <2>1, <2>2, RestIsAllOrNothing
<1>3. CASE Cancel
  <2>1. Calling("cancel") /\ UNCHANGED << asked, stored >>
    BY <1>3 DEF Cancel
  <2>2. Proceed(Rest) \/ End("cancel")
    BY <1>3 DEF Cancel
  <2>3. QED BY <1>1, <2>1, <2>2, RestIsAllOrNothing
<1>4. CASE ClearCopyData
  <2>1. Calling("clear") /\ UNCHANGED << asked, stored >>
    BY <1>4 DEF ClearCopyData, TimesOut
  <2>2. Proceed(Rest) \/ \E thrown \in {"other", "callback"} : End(thrown)
    BY <1>4 DEF ClearCopyData, TimesOut
  <2>3. QED BY <1>1, <2>1, <2>2, RestIsAllOrNothing
<1>5. CASE Throw
  BY <1>1, <1>5 DEF Throw
<1>6. QED
  BY <1>2, <1>3, <1>4, <1>5, GetResultIsAllOrNothing, PutCopyEndIsAllOrNothing DEF Step

-----------------------------------------------------------------------------
\* The program calls a method: only that of a writer begins with the end of a
\* COPY, and only its constructor forgets that one was stored.
LEMMA StartIsAllOrNothing ==
  ASSUME WInv, NEW op, NEW obj, NEW todo \in Seq(Calls) \ {<<>>}, Start(op, obj, todo),
         op # "commit", stored' => asked',
         \A i \in 1 .. Len(todo) : todo[i] # "put_end"
  PROVE  AllOrNothing'
<1>1. call'.todo = todo /\ call'.op = op
  BY DEF Start
<1>2. call' # NoCall
  BY <1>1 DEF NoCall
<1>3. QED
  BY <1>1, <1>2 DEF AllOrNothing, EndsAreAsked, CommitGoesOn, WriterIsAllOrNothing, Last

\* A step between the methods, or one that is a method by itself
LEMMA IdleIsAllOrNothing ==
  ASSUME WInv, UNCHANGED << call, asked, stored >>, call = NoCall,
         last'.op # "commit" \/ UNCHANGED last
  PROVE  AllOrNothing'
<1>1. call'.op = "none" /\ call'.todo = <<>>
  BY DEF NoCall
<1>2. EndsAreAsked' /\ CommitGoesOn'
  BY <1>1 DEF EndsAreAsked, CommitGoesOn
<1>3. WriterIsAllOrNothing'
  BY DEF WInv, AllOrNothing, WriterIsAllOrNothing, Last
<1>4. QED BY <1>2, <1>3 DEF AllOrNothing

LEMMA CommitIsAllOrNothing ==
  ASSUME WInv, NEW g \in Tx, CommitWriter(g)
  PROVE  AllOrNothing'
<1>1. /\ call' = [op |-> "commit", obj |-> g, todo |-> << "put_end", "tx_result" >>]
      /\ asked'
  BY DEF CommitWriter, Start
<1>2. EndsAreAsked'
  <2>1. \A i \in 1 .. Len(<< "put_end", "tx_result" >>) :
          << "put_end", "tx_result" >>[i] = "put_end" => i = 1
    OBVIOUS
  <2>2. QED BY <1>1, <2>1 DEF EndsAreAsked
<1>3. CommitGoesOn'
  BY <1>1 DEF CommitGoesOn
<1>4. WriterIsAllOrNothing'
  BY <1>1 DEF WriterIsAllOrNothing, Last, NoCall
<1>5. QED BY <1>2, <1>3, <1>4 DEF AllOrNothing

LEMMA MethodsAreAllOrNothing ==
  ASSUME WInv
  PROVE  /\ \A t \in Tx : Requests(t) => AllOrNothing'
         /\ \A p, g \in Tx : NewReader(p, g) => AllOrNothing'
         /\ \A p, g \in Tx : NewWriter(p, g) => AllOrNothing'
         /\ \A g \in Tx : Read(g) => AllOrNothing'
         /\ \A g \in Tx : Insert(g) => AllOrNothing'
         /\ \A t \in Tx : Release(t) => AllOrNothing'
<1>1. stored => asked
  BY DEF WInv, AllOrNothing, WriterIsAllOrNothing
<1> DEFINE Harmless(todo) ==
      todo \in Seq(Calls) \ {<<>>} /\ \A i \in 1 .. Len(todo) : todo[i] # "put_end"
<1>2. /\ Harmless(<< "send" >>)
      /\ Harmless(<< "send", "tx_result" >>)
      /\ Harmless(<< "tx_result" >>)
      /\ Harmless(<< "read_result" >>)
      /\ Harmless(<< "send", "reader_result" >>)
      /\ Harmless(<< "send", "writer_result" >>)
  BY StartsAreCalls
<1>3. ASSUME NEW op, NEW obj, NEW todo, Harmless(todo), Start(op, obj, todo),
             op # "commit", stored' => asked'
      PROVE  AllOrNothing'
  BY <1>3, StartIsAllOrNothing
<1> HIDE DEF Harmless
<1>4. ASSUME NEW t \in Tx, Requests(t) PROVE AllOrNothing'
  <2>1. UNCHANGED << asked, stored >>
    BY <1>4 DEF Requests, Request, historyVars
  <2>2. PICK op \in {"send", "execute", "get_result"},
             todo \in { << "send" >>, << "send", "tx_result" >>, << "tx_result" >> } :
          Start(op, t, todo)
    BY <1>4 DEF Requests, Request
  <2>3. QED BY <1>1, <1>2, <1>3, <2>1, <2>2
<1>5. ASSUME NEW p \in Tx, NEW g \in Tx, NewReader(p, g) PROVE AllOrNothing'
  <2>1. Start("reader", g, << "send", "reader_result" >>) /\ UNCHANGED << asked, stored >>
    BY <1>5 DEF NewReader
  <2>2. QED BY <1>1, <1>2, <1>3, <2>1
<1>6. ASSUME NEW p \in Tx, NEW g \in Tx, NewWriter(p, g) PROVE AllOrNothing'
  <2>1. Start("writer", g, << "send", "writer_result" >>) /\ ~stored'
    BY <1>6 DEF NewWriter
  <2>2. QED BY <1>2, <1>3, <2>1
<1>7. ASSUME NEW g \in Tx, Read(g) PROVE AllOrNothing'
  <2>1. UNCHANGED << asked, stored >> /\ call = NoCall
    BY <1>7 DEF Read, Usable, Ready
  <2>2. CASE Start("read", g, << "read_result" >>)
    BY <1>1, <1>2, <1>3, <2>1, <2>2
  <2>3. CASE UNCHANGED call /\ \E thrown \in Exceptions : Finished("row", g, thrown)
    <3>1. last'.op = "row"
      BY <2>3 DEF Finished
    <3>2. QED BY <2>1, <2>3, <3>1, IdleIsAllOrNothing
  <2>4. QED BY <1>7, <2>2, <2>3 DEF Read, Exceptions
<1>8. ASSUME NEW g \in Tx, Insert(g) PROVE AllOrNothing'
  <2>1. UNCHANGED << call, asked, stored >> /\ call = NoCall
    BY <1>8 DEF Insert, Usable, Ready
  <2>2. \E thrown \in Exceptions : Finished("insert", g, thrown)
    BY <1>8 DEF Insert, Exceptions
  <2>3. last'.op = "insert"
    BY <2>2 DEF Finished
  <2>4. QED BY <2>1, <2>3, IdleIsAllOrNothing
<1>9. ASSUME NEW t \in Tx, Release(t) PROVE AllOrNothing'
  <2>1. UNCHANGED << last, asked, stored >> /\ call = NoCall
    BY <1>9 DEF Release, Ready, historyVars
  <2>2. Start("unwind", t, << "tx_result" >>) \/ UNCHANGED call
    BY <1>9 DEF Release
  <2>3. QED BY <1>1, <1>2, <1>3, <2>1, <2>2, IdleIsAllOrNothing
<1>10. QED BY <1>4, <1>5, <1>6, <1>7, <1>8, <1>9

LEMMA NextIsAllOrNothing ==
  ASSUME WInv, Next
  PROVE  WInv'
<1>1. CopyTypeOK'
  BY NextKeepsTypes DEF WInv
<1>2. ASSUME NEW t \in Tx, BeginDirect(t) \/ FinishDirect(t) PROVE AllOrNothing'
  <2>1. UNCHANGED << call, last, asked, stored >> /\ call = NoCall
    BY <1>2 DEF BeginDirect, FinishDirect, Ready, historyVars
  <2>2. QED BY <2>1, IdleIsAllOrNothing
<1>3. ASSUME CancelNow \/ GetNotifications PROVE AllOrNothing'
  <2>1. UNCHANGED << call, last, asked, stored >> /\ call = NoCall
    BY <1>3 DEF CancelNow, GetNotifications, Ready, historyVars
  <2>2. QED BY <2>1, IdleIsAllOrNothing
<1>4. ASSUME NEW t \in Tx, Destruct(t) PROVE AllOrNothing'
  <2>1. UNCHANGED << call, last, asked, stored >>
    BY <1>4 DEF Destruct, historyVars
  <2>2. UNCHANGED pg
    BY <1>4 DEF Destruct
  <2>3. QED
    BY <2>1, <2>2 DEF WInv, AllOrNothing, EndsAreAsked, CommitGoesOn, WriterIsAllOrNothing, Last
<1>5. AllOrNothing'
  BY <1>2, <1>3, <1>4, StepIsAllOrNothing, CommitIsAllOrNothing, MethodsAreAllOrNothing DEF Next
<1>6. QED BY <1>1, <1>5 DEF WInv

\* A COPY FROM is completed only when commit() was called, and commit() returns
\* only when it is completed: for any number of objects, whatever they throw,
\* and also when the program does not keep the order.
THEOREM WriterIsAlwaysAllOrNothing == Spec => []WriterIsAllOrNothing
<1>1. Init => WInv
  <2> SUFFICES ASSUME Init PROVE WInv
    OBVIOUS
  <2>1. call.op = "none" /\ call.todo = <<>>
    BY DEF Init, NoCall
  <2>2. EndsAreAsked /\ CommitGoesOn
    BY <2>1 DEF EndsAreAsked, CommitGoesOn
  <2>3. WriterIsAllOrNothing
    BY DEF Init, WriterIsAllOrNothing, Last
  <2>4. QED BY <2>2, <2>3, InitTypes DEF WInv, AllOrNothing
<1>2. WInv /\ [Next]_vars => WInv'
  <2>1. ASSUME WInv, UNCHANGED vars PROVE WInv'
    <3>1. CopyTypeOK'
      BY <2>1, StutterKeepsTypes DEF WInv
    <3>2. UNCHANGED << pg, call, last, asked, stored >>
      BY <2>1 DEF vars, historyVars
    <3>3. AllOrNothing'
      BY <2>1, <3>2 DEF WInv, AllOrNothing, EndsAreAsked, CommitGoesOn, WriterIsAllOrNothing, Last
    <3>4. QED BY <3>1, <3>3 DEF WInv
  <2>2. QED BY <2>1, NextIsAllOrNothing
<1>3. WInv => WriterIsAllOrNothing
  BY DEF WInv, AllOrNothing
<1>4. QED BY <1>1, <1>2, <1>3, PTL DEF Spec


-----------------------------------------------------------------------------
(* The conversation.                                                       *)

\* Results are outstanding only while libpq is busy, and one at a time.
InTurn(p) ==
  p.replies = <<>> \/ (p.async = "busy" /\ \E r \in Results : p.replies = << r >>)

Replied(p) == p.async = "busy" /\ p.replies # <<>>
Drained(p) == p.async \in {"busy", "idle"} /\ p.replies = <<>>
Copying(p) == p.async \in {"copy_in", "copy_out"}

\* What is left of a method that will throw
Nulls(todo) == Len(todo) >= 2 /\ todo[1] = "null" /\ todo[2] = "throw"
Fatals(todo) ==
  Len(todo) >= 3 /\ todo[1] = "fatal" /\ todo[2] = "null" /\ todo[3] = "throw"
Then(c, todo) ==
  Len(todo) >= 4 /\ todo[1] = c /\ todo[2] = "fatal" /\ todo[3] = "null" /\ todo[4] = "throw"
Cancels(todo) ==
  /\ Len(todo) >= 5 /\ todo[1] = "cancel" /\ todo[2] = "clear"
  /\ todo[3] = "fatal" /\ todo[4] = "null" /\ todo[5] = "throw"

WindsUp(p, todo) ==
  \/ Cancels(todo) /\ p.async = "copy_out"
  \/ Then("clear", todo) /\ p.async = "copy_out"
  \/ Then("put_error", todo) /\ p.async = "copy_in"
  \/ Fatals(todo) /\ Replied(p) /\ p.replies[1] \in Endings
  \/ Nulls(todo) /\ Drained(p)
  \/ Len(todo) >= 1 /\ todo[1] = "throw" /\ ~Copying(p)

\* The methods that ask for a result of the transaction
Asking == {"execute", "get_result", "unwind", "commit"}

\* What is left of one that may return, or does not know yet
GoesOn(p, op, todo) ==
  \/ op = "send" /\ todo = << "send" >>
  \/ op = "execute" /\ todo = << "send", "tx_result" >>
  \/ op = "reader" /\ todo = << "send", "reader_result" >>
  \/ op = "writer" /\ todo = << "send", "writer_result" >>
  \/ op = "commit" /\ todo = << "put_end", "tx_result" >>
  \/ op \in Asking /\ todo = << "tx_result" >>
  \/ op \in Asking /\ todo = << "null" >> /\ Drained(p)
  \/ op = "reader" /\ todo = << "reader_result" >> /\ Replied(p)
  \/ op = "reader" /\ todo = << "tx_result", "unreachable" >> /\ p.async = "copy_in"
  \/ op = "writer" /\ todo = << "writer_result" >> /\ Replied(p)
  \/ op = "read" /\ todo = << "read_result" >> /\ Replied(p)
       /\ p.replies = << p.ending >> /\ p.rows = 0

Conversation == call = NoCall \/ WindsUp(pg, call.todo) \/ GoesOn(pg, call.op, call.todo)

\* How methods end
Outcome ==
  /\ GetResultEndsCopy /\ ReturnLeavesReady /\ ReaderIsComplete
  /\ Last("read", "none") => Drained(pg)
  /\ Last("reader", "none") => pg.async = "copy_out"
  /\ Last("writer", "none") => pg.async = "copy_in"

CInv == CopyTypeOK /\ InTurn(pg) /\ Conversation /\ Outcome

-----------------------------------------------------------------------------
(* What each call does to the conversation.                                *)

LEMMA ClosedFacts ==
  /\ InTurn(Closed) /\ ~Copying(Closed) /\ ~Drained(Closed)
  BY DEF InTurn, Copying, Drained, Closed, Fresh

\* A new statement, and the end of a COPY, have one result to come.
LEMMA OutstandingFacts ==
  ASSUME NEW p \in Connections(MaxRows), NEW reply \in Results,
         NEW rows \in 0 .. MaxRows, NEW ending \in Endings
  PROVE  /\ InTurn(Sent(p, reply, rows, ending)) /\ Replied(Sent(p, reply, rows, ending))
         /\ InTurn(CopyEnds(p, reply)) /\ Replied(CopyEnds(p, reply))
         /\ CopyEnds(p, reply).replies = << reply >>
         /\ CopyEnds(p, reply).rows = p.rows /\ CopyEnds(p, reply).ending = p.ending
<1>1. Sent(p, reply, rows, ending).async = "busy" /\ Sent(p, reply, rows, ending).replies = << reply >>
  BY DEF Sent
<1>2. /\ CopyEnds(p, reply).async = "busy" /\ CopyEnds(p, reply).replies = << reply >>
      /\ CopyEnds(p, reply).rows = p.rows /\ CopyEnds(p, reply).ending = p.ending
  BY DEF CopyEnds, Connections
<1>3. << reply >> # <<>>
  OBVIOUS
<1>4. QED BY <1>1, <1>2, <1>3 DEF InTurn, Replied

LEMMA ParsedFacts ==
  ASSUME NEW p \in Connections(MaxRows), InTurn(p), NEW q \in Parsed(p)
  PROVE  /\ InTurn(q)
         /\ q.replies = p.replies /\ q.rows = p.rows /\ q.ending = p.ending
         /\ \/ q.async = p.async
            \/ p.async = "busy" /\ p.replies = <<>> /\ q.async = "idle"
<1>1. CASE q = p
  BY <1>1
<1>2. CASE q # p
  <2>1. p.async = "busy" /\ p.replies = <<>> /\ q = [p EXCEPT !.async = "idle"]
    BY <1>2 DEF Parsed
  <2>2. q.replies = p.replies /\ q.rows = p.rows /\ q.ending = p.ending /\ q.async = "idle"
    BY <2>1 DEF Connections
  <2>3. QED BY <2>1, <2>2 DEF InTurn
<1>3. QED BY <1>1, <1>2

\* The result of connection::get_result(): the only one there is, the COPY that
\* libpq is in, or null.
LEMMA ResultFacts ==
  ASSUME NEW p \in Connections(MaxRows), InTurn(p), NEW q \in Parsed(AfterResult(p))
  PROVE  /\ InTurn(q) /\ q.replies = <<>> /\ q.rows = p.rows /\ q.ending = p.ending
         /\ Replied(p) =>
              /\ Result(p) = p.replies[1] /\ Result(p) \in Results
              /\ IF Result(p) \in {"copy_in", "copy_out"} THEN q.async = Result(p) ELSE Drained(q)
         /\ Drained(p) => Result(p) = "null" /\ q.async = "idle"
         /\ Copying(p) => Result(p) = p.async /\ q.async = p.async
         /\ Result(p) = "null" => ~Copying(q)
<1> DEFINE a == AfterResult(p)
<1>1. CASE Replied(p)
  <2>1. PICK r \in Results : p.replies = << r >>
    BY <1>1 DEF InTurn, Replied
  <2>2. p.async = "busy" /\ p.replies # <<>>
    BY <1>1 DEF Replied
  <2>3. Result(p) = r /\ p.replies[1] = r /\ Tail(p.replies) = <<>>
    BY <2>1, <2>2 DEF Result
  <2>4. a = [p EXCEPT !.replies = Tail(@),
                      !.async = IF Result(p) \in {"copy_in", "copy_out"} THEN Result(p) ELSE "busy"]
    BY <2>2 DEF AfterResult
  <2>5. /\ a.replies = <<>> /\ a.rows = p.rows /\ a.ending = p.ending
        /\ a.async = IF r \in {"copy_in", "copy_out"} THEN r ELSE "busy"
    BY <2>3, <2>4 DEF Connections
  <2>6. InTurn(a) /\ a \in Connections(MaxRows)
    <3>1. a \in Connections(MaxRows)
      <4>1. <<>> \in Seq(Results) /\ a.async \in {"idle", "busy", "copy_in", "copy_out", "closed"}
        BY <2>5
      <4>2. a = [p EXCEPT !.replies = <<>>, !.async = a.async]
        BY <2>3, <2>4, <2>5
      <4>3. QED BY <4>1, <4>2 DEF Connections
    <3>2. QED BY <2>5, <3>1 DEF InTurn
  <2>7. /\ InTurn(q) /\ q.replies = <<>> /\ q.rows = p.rows /\ q.ending = p.ending
        /\ q.async = a.async \/ (a.async = "busy" /\ q.async = "idle")
    BY <2>5, <2>6, ParsedFacts
  <2>8. IF r \in {"copy_in", "copy_out"} THEN q.async = r ELSE Drained(q)
    BY <2>5, <2>7 DEF Drained
  <2>9. r # "null" /\ ~Drained(p) /\ ~Copying(p)
    BY <2>2 DEF Results, Drained, Copying
  <2>10. QED BY <2>1, <2>3, <2>7, <2>8, <2>9
<1>2. CASE ~Replied(p)
  <2>1. p.replies = <<>>
    BY <1>2 DEF InTurn, Replied
  <2>2. p.async \in {"idle", "busy", "copy_in", "copy_out", "closed"}
    BY DEF Connections
  <2>3. CASE p.async = "busy"
    <3>1. a = [p EXCEPT !.async = "idle"] /\ Result(p) = "null"
      BY <2>1, <2>3 DEF AfterResult, Result
    <3>2. a.async = "idle" /\ a.replies = <<>> /\ a.rows = p.rows /\ a.ending = p.ending
      BY <2>1, <3>1 DEF Connections
    <3>3. Parsed(a) = {a}
      BY <3>2 DEF Parsed
    <3>4. q = a
      BY <3>3
    <3>5. QED BY <1>2, <2>3, <3>1, <3>2, <3>4 DEF InTurn, Drained, Copying
  <2>4. CASE p.async # "busy"
    <3>1. a = p /\ Parsed(a) = {p}
      BY <2>4 DEF AfterResult, Parsed
    <3>2. q = p
      BY <3>1
    <3>3. Result(p) = IF p.async \in {"copy_in", "copy_out"} THEN p.async ELSE "null"
      BY <2>4 DEF Result
    <3>4. QED BY <1>2, <2>1, <2>2, <2>4, <3>2, <3>3 DEF Drained, Copying
  <2>5. QED BY <2>3, <2>4
<1>3. QED BY <1>1, <1>2

LEMMA CancelledFacts ==
  ASSUME NEW p \in Connections(MaxRows), InTurn(p), NEW q \in Cancelled(p)
  PROVE  /\ InTurn(q) /\ q.async = p.async /\ q.replies = p.replies
         /\ Drained(p) => q = p
         /\ q.ending = p.ending \/ q.ending = "fatal_error"
<1>1. CASE q = p
  BY <1>1
<1>2. CASE q # p
  <2>1. /\ p.async = "copy_out" \/ p.replies = << "copy_out" >>
        /\ \E n \in 0 .. p.rows : q = [p EXCEPT !.rows = n, !.ending = "fatal_error"]
    BY <1>2 DEF Cancelled
  <2>2. q.async = p.async /\ q.replies = p.replies /\ q.ending = "fatal_error"
    BY <2>1 DEF Connections
  <2>3. << "copy_out" >> # <<>>
    OBVIOUS
  <2>4. ~Drained(p)
    BY <2>1, <2>3 DEF Drained
  <2>5. QED BY <2>2, <2>4 DEF InTurn
<1>3. QED BY <1>1, <1>2

-----------------------------------------------------------------------------
\* A method has ended: what the caller may rely on.
EndsWell(p, op, thrown) ==
  /\ op \in {"execute", "commit"} /\ thrown = "none" => p.async = "idle"
  /\ op = "read" /\ thrown = "none" => Drained(p) /\ p.rows = 0 /\ p.ending = "command_ok"
  /\ op = "reader" /\ thrown = "none" => p.async = "copy_out"
  /\ op = "writer" /\ thrown = "none" => p.async = "copy_in"
  /\ op \in {"get_result", "unwind"} /\ thrown \in {"none", "other"} => ~Copying(p)

LEMMA EndKeepsConversation ==
  ASSUME InCall, NEW thrown, End(thrown), EndsWell(pg', call.op, thrown)
  PROVE  Conversation' /\ Outcome'
<1>1. call' = NoCall /\ last' = [op |-> call.op, thrown |-> thrown]
  BY DEF End, Finished
<1>2. last'.op = call.op /\ last'.thrown = thrown
  BY <1>1
<1>3. Conversation'
  BY <1>1 DEF Conversation
<1>4. \A op, t : Last(op, t)' => op = call.op /\ t = thrown
  BY <1>2 DEF Last
<1>5. GetResultEndsCopy' /\ ReturnLeavesReady' /\ ReaderIsComplete' /\ (Last("read", "none") => Drained(pg))'
  BY <1>4 DEF EndsWell, GetResultEndsCopy, ReturnLeavesReady, ReaderIsComplete, Copying
<1>6. (Last("reader", "none") => pg.async = "copy_out")' /\ (Last("writer", "none") => pg.async = "copy_in")'
  BY <1>4 DEF EndsWell
<1>7. QED BY <1>3, <1>5, <1>6 DEF Outcome

\* A method goes on, or returns.
LEMMA ProceedKeepsConversation ==
  ASSUME InCall, NEW todo \in Seq(Calls), Proceed(todo),
         IF todo = <<>> THEN EndsWell(pg', call.op, "none")
         ELSE WindsUp(pg', todo) \/ GoesOn(pg', call.op, todo)
  PROVE  Conversation' /\ Outcome'
<1>1. CASE todo = <<>>
  BY <1>1, EndKeepsConversation DEF Proceed
<1>2. CASE todo # <<>>
  <2>1. call' = [call EXCEPT !.todo = todo]
    BY <1>2 DEF Proceed
  <2>2. call'.todo = todo /\ call'.op = call.op /\ call' # NoCall
    BY <1>2, <2>1 DEF InCall, NoCall
  <2>3. Conversation'
    BY <1>2, <2>2 DEF Conversation
  <2>4. Outcome'
    BY <2>2 DEF Outcome, GetResultEndsCopy, ReturnLeavesReady, ReaderIsComplete, Last
  <2>5. QED BY <2>3, <2>4
<1>3. QED BY <1>1, <1>2

\* A switch decides how a method goes on, whatever was left before.
LEMMA AndSoOn ==
  ASSUME NEW p, NEW todo \in Seq(Calls), NEW rest \in Seq(Calls), WindsUp(p, todo)
  PROVE  WindsUp(p, todo \o rest)
<1>1. /\ Len(todo) \in Nat /\ Len(rest) \in Nat
      /\ Len(todo \o rest) = Len(todo) + Len(rest)
      /\ \A i \in 1 .. Len(todo) : (todo \o rest)[i] = todo[i]
  OBVIOUS
<1> DEFINE left == todo \o rest
<1> HIDE DEF left
<1>2. /\ Cancels(todo) => Cancels(left)
      /\ Fatals(todo) => Fatals(left)
      /\ Nulls(todo) => Nulls(left)
      /\ \A c : Then(c, todo) => Then(c, left)
      /\ Len(todo) >= 1 /\ todo[1] = "throw" => Len(left) >= 1 /\ left[1] = "throw"
  BY <1>1 DEF left, Cancels, Fatals, Nulls, Then
<1>3. WindsUp(p, left)
  BY <1>2 DEF WindsUp
<1>4. QED BY <1>3 DEF left

LEMMA NothingMore == \A todo \in Seq(Calls) : todo \o <<>> = todo /\ <<>> \o todo = todo
  OBVIOUS

\* The ways in which methods go on after a result
LEMMA WaysToWindUp ==
  ASSUME NEW p
  PROVE  /\ p.async = "copy_out" => WindsUp(p, Refuse)
         /\ p.async = "copy_in" => WindsUp(p, << "put_error", "fatal", "null", "throw" >>)
         /\ Drained(p) => WindsUp(p, << "null", "throw" >>)
         /\ ~Copying(p) => WindsUp(p, << "throw" >>)
<1>1. Cancels(Refuse)
  BY DEF Cancels, Refuse
<1>2. Then("put_error", << "put_error", "fatal", "null", "throw" >>)
  BY DEF Then
<1>3. Nulls(<< "null", "throw" >>)
  BY DEF Nulls
<1>4. Len(<< "throw" >>) >= 1 /\ << "throw" >>[1] = "throw"
  OBVIOUS
<1>5. QED BY <1>1, <1>2, <1>3, <1>4 DEF WindsUp

\* The part of connection::get_result() that all callers share: a timeout ends
\* the connection, a handler that throws ends the method in any state.
LEMMA ReceiveKeepsConversation ==
  ASSUME CInv, NEW c, NEW todo \in Seq(Calls), Receive(c, todo),
         c \notin {"put_end", "throw"},
         \A q \in Parsed(AfterResult(pg)) :
           IF todo \o Rest = <<>> THEN EndsWell(q, call.op, "none")
           ELSE WindsUp(q, todo \o Rest) \/ GoesOn(q, call.op, todo \o Rest)
  PROVE  InTurn(pg') /\ Conversation' /\ Outcome'
<1>1. CopyTypeOK /\ Calling(c) /\ InCall /\ Rest \in Seq(Calls) /\ pg \in Connections(MaxRows) /\ InTurn(pg)
  BY CallingInCall DEF Receive, CInv, CopyTypeOK
<1>2. CASE pg' \in Parsed(AfterResult(pg)) /\ Proceed(todo \o Rest)
  <2>1. todo \o Rest \in Seq(Calls)
    BY <1>1
  <2>2. PICK left \in Seq(Calls) : left = todo \o Rest
    BY <2>1
  <2>3. IF left = <<>> THEN EndsWell(pg', call.op, "none")
        ELSE WindsUp(pg', left) \/ GoesOn(pg', call.op, left)
    BY <1>2, <2>2
  <2>4. InTurn(pg')
    BY <1>1, <1>2, ResultFacts
  <2>5. QED BY <1>1, <1>2, <2>2, <2>3, <2>4, ProceedKeepsConversation
<1>3. CASE pg.async = "busy" /\ TimesOut
  <2>1. pg' = Closed /\ End("other")
    BY <1>3 DEF TimesOut
  <2>2. InTurn(pg') /\ EndsWell(pg', call.op, "other")
    BY <2>1, ClosedFacts DEF EndsWell
  <2>3. QED BY <1>1, <2>1, <2>2, EndKeepsConversation
<1>4. CASE pg' \in Parsed(pg) \cup Parsed(AfterResult(pg)) /\ End("callback")
  <2>1. InTurn(pg')
    BY <1>1, <1>4, ResultFacts, ParsedFacts
  <2>2. EndsWell(pg', call.op, "callback")
    BY DEF EndsWell
  <2>3. QED BY <1>1, <1>4, <2>1, <2>2, EndKeepsConversation
<1>5. QED BY <1>2, <1>3, <1>4 DEF Receive

-----------------------------------------------------------------------------
\* What is left of a running method, before each of its calls
LEMMA Now ==
  ASSUME CInv, NEW c, Calling(c)
  PROVE  /\ InCall /\ Rest \in Seq(Calls) /\ pg \in Connections(MaxRows) /\ InTurn(pg)
         /\ call.todo[1] = c
         /\ WindsUp(pg, call.todo) \/ GoesOn(pg, call.op, call.todo)
<1>1. InCall /\ Rest \in Seq(Calls) /\ call.todo[1] = c
  BY CallingInCall, RestFacts DEF CInv
<1>2. call # NoCall
  BY DEF Calling, NoCall
<1>3. QED BY <1>1, <1>2 DEF CInv, CopyTypeOK, Conversation

\* Only a reader on a COPY FROM has something left to call after it has asked
\* for the result of the transaction.
LEMMA TxResultKeepsConversation ==
  ASSUME CInv, TxResult
  PROVE  InTurn(pg') /\ Conversation' /\ Outcome'
<1>1. /\ Calling("tx_result") /\ InCall /\ Rest \in Seq(Calls)
      /\ pg \in Connections(MaxRows) /\ InTurn(pg)
  BY Now DEF TxResult
<1>2. CASE Receive("tx_result", AfterTxResult(Result(pg)))
  <2> DEFINE todo == AfterTxResult(Result(pg))
  <2>1. todo \in Seq(Calls)
    BY <1>1, LibpqKeepsTypes, SwitchesAreCalls DEF CInv, CopyTypeOK
  <2>2. \/ call.op \in Asking /\ call.todo = << "tx_result" >>
        \/ call.op = "reader" /\ call.todo = << "tx_result", "unreachable" >> /\ pg.async = "copy_in"
    BY <1>1, Now DEF WindsUp, GoesOn, Cancels, Then, Fatals, Nulls
  <2>3. ASSUME NEW q \in Parsed(AfterResult(pg))
        PROVE  IF todo \o Rest = <<>> THEN EndsWell(q, call.op, "none")
               ELSE WindsUp(q, todo \o Rest) \/ GoesOn(q, call.op, todo \o Rest)
    <3>1. /\ InTurn(q) /\ q.replies = <<>>
          /\ Replied(pg) =>
              /\ Result(pg) = pg.replies[1] /\ Result(pg) \in Results
              /\ IF Result(pg) \in {"copy_in", "copy_out"} THEN q.async = Result(pg) ELSE Drained(q)
          /\ Drained(pg) => Result(pg) = "null" /\ q.async = "idle"
          /\ Copying(pg) => Result(pg) = pg.async /\ q.async = pg.async
          /\ Result(pg) = "null" => ~Copying(q)
      BY <1>1, ResultFacts
    <3>2. Replied(pg) \/ Drained(pg) \/ Copying(pg) \/ Result(pg) = "null"
      BY <1>1 DEF Replied, Drained, Copying, Result, InTurn, Connections
    <3>3. CASE Result(pg) = "command_ok"
      <4>1. Drained(q) /\ todo = << "null" >>
        BY <3>1, <3>2, <3>3 DEF AfterTxResult, Copying
      <4>2. call.op \in Asking /\ call.todo = << "tx_result" >>
        BY <2>2, <3>1, <3>3 DEF Copying
      <4>3. Rest = <<>>
        BY <4>2 DEF Rest
      <4>4. todo \o Rest = << "null" >>
        BY <2>1, <4>1, <4>3, NothingMore
      <4>5. GoesOn(q, call.op, << "null" >>)
        BY <4>1, <4>2 DEF GoesOn
      <4>6. << "null" >> # <<>>
        OBVIOUS
      <4>7. QED BY <4>4, <4>5, <4>6
    <3>4. CASE Result(pg) # "command_ok"
      <4>1. WindsUp(q, todo)
        <5>1. CASE Result(pg) = "copy_in"
          BY <3>1, <3>2, <5>1, WaysToWindUp DEF AfterTxResult, Copying
        <5>2. CASE Result(pg) = "copy_out"
          BY <3>1, <3>2, <5>2, WaysToWindUp DEF AfterTxResult, Copying
        <5>3. CASE Result(pg) = "null"
          BY <3>1, <5>3, WaysToWindUp DEF AfterTxResult
        <5>4. CASE Result(pg) \notin {"command_ok", "copy_in", "copy_out", "null"}
          BY <3>1, <3>2, <5>4, WaysToWindUp DEF AfterTxResult, Copying
        <5>5. QED BY <3>4, <5>1, <5>2, <5>3, <5>4
      <4>2. WindsUp(q, todo \o Rest)
        BY <1>1, <2>1, <4>1, AndSoOn
      <4>3. todo \o Rest # <<>>
        <5>1. todo # <<>>
          BY <3>4 DEF AfterTxResult, Refuse
        <5>2. QED BY <1>1, <2>1, <5>1
      <4>4. QED BY <4>2, <4>3
    <3>5. QED BY <3>3, <3>4
  <2>4. QED BY <1>2, <2>1, <2>3, ReceiveKeepsConversation
<1>3. CASE End("order") /\ UNCHANGED pg
  <2>1. EndsWell(pg', call.op, "order")
    BY DEF EndsWell
  <2>2. QED BY <1>1, <1>3, <2>1, EndKeepsConversation
<1>4. QED BY <1>2, <1>3 DEF TxResult

\* A switch that ends what a method goes on with, when libpq has replied and
\* nothing else is left for it to call
LEMMA SwitchKeepsConversation ==
  ASSUME CInv, NEW c, NEW todo \in Seq(Calls), Receive(c, todo),
         c \notin {"put_end", "throw"}, Rest = <<>>,
         \A q \in Parsed(AfterResult(pg)) :
           IF todo = <<>> THEN EndsWell(q, call.op, "none")
           ELSE WindsUp(q, todo) \/ GoesOn(q, call.op, todo)
  PROVE  InTurn(pg') /\ Conversation' /\ Outcome'
<1>1. todo \o Rest = todo
  BY NothingMore
<1>2. QED BY <1>1, ReceiveKeepsConversation

LEMMA ReaderResultKeepsConversation ==
  ASSUME CInv, Receive("reader_result", AfterReaderResult(Result(pg)))
  PROVE  InTurn(pg') /\ Conversation' /\ Outcome'
<1> DEFINE todo == AfterReaderResult(Result(pg))
<1>1. /\ Calling("reader_result") /\ pg \in Connections(MaxRows) /\ InTurn(pg)
      /\ todo \in Seq(Calls)
  BY Now, LibpqKeepsTypes, SwitchesAreCalls DEF Receive
<1>2. call.op = "reader" /\ call.todo = << "reader_result" >> /\ Replied(pg)
  BY <1>1, Now DEF WindsUp, GoesOn, Cancels, Then, Fatals, Nulls
<1>3. Rest = <<>>
  BY <1>2 DEF Rest
<1>4. ASSUME NEW q \in Parsed(AfterResult(pg))
      PROVE  IF todo = <<>> THEN EndsWell(q, call.op, "none")
             ELSE WindsUp(q, todo) \/ GoesOn(q, call.op, todo)
  <2>1. /\ Result(pg) \in Results
        /\ IF Result(pg) \in {"copy_in", "copy_out"} THEN q.async = Result(pg) ELSE Drained(q)
    BY <1>1, <1>2, ResultFacts
  <2>2. CASE Result(pg) = "copy_out"
    BY <1>2, <2>1, <2>2 DEF AfterReaderResult, EndsWell
  <2>3. CASE Result(pg) = "copy_in"
    <3>1. todo = << "tx_result", "unreachable" >> /\ todo # <<>> /\ q.async = "copy_in"
      BY <2>1, <2>3 DEF AfterReaderResult
    <3>2. GoesOn(q, call.op, todo)
      BY <1>2, <3>1 DEF GoesOn
    <3>3. QED BY <3>1, <3>2
  <2>4. CASE Result(pg) \notin {"copy_in", "copy_out"}
    <3>1. todo = << "null", "throw" >> /\ todo # <<>> /\ Drained(q)
      BY <2>1, <2>4 DEF AfterReaderResult
    <3>2. QED BY <3>1, WaysToWindUp
  <2>5. QED BY <2>2, <2>3, <2>4
<1>5. QED BY <1>1, <1>3, <1>4, SwitchKeepsConversation

LEMMA WriterResultKeepsConversation ==
  ASSUME CInv, Receive("writer_result", AfterWriterResult(Result(pg)))
  PROVE  InTurn(pg') /\ Conversation' /\ Outcome'
<1> DEFINE todo == AfterWriterResult(Result(pg))
<1>1. /\ Calling("writer_result") /\ pg \in Connections(MaxRows) /\ InTurn(pg)
      /\ todo \in Seq(Calls)
  BY Now, LibpqKeepsTypes, SwitchesAreCalls DEF Receive
<1>2. call.op = "writer" /\ call.todo = << "writer_result" >> /\ Replied(pg)
  BY <1>1, Now DEF WindsUp, GoesOn, Cancels, Then, Fatals, Nulls
<1>3. Rest = <<>>
  BY <1>2 DEF Rest
<1>4. ASSUME NEW q \in Parsed(AfterResult(pg))
      PROVE  IF todo = <<>> THEN EndsWell(q, call.op, "none")
             ELSE WindsUp(q, todo) \/ GoesOn(q, call.op, todo)
  <2>1. /\ Result(pg) \in Results
        /\ IF Result(pg) \in {"copy_in", "copy_out"} THEN q.async = Result(pg) ELSE Drained(q)
    BY <1>1, <1>2, ResultFacts
  <2>2. CASE Result(pg) = "copy_in"
    BY <1>2, <2>1, <2>2 DEF AfterWriterResult, EndsWell
  <2>3. CASE Result(pg) = "copy_out"
    <3>1. todo = Refuse /\ Refuse # <<>> /\ q.async = "copy_out"
      BY <2>1, <2>3 DEF AfterWriterResult, Refuse
    <3>2. QED BY <3>1, WaysToWindUp
  <2>4. CASE Result(pg) \notin {"copy_in", "copy_out"}
    <3>1. todo = << "null", "throw" >> /\ todo # <<>> /\ Drained(q)
      BY <2>1, <2>4 DEF AfterWriterResult
    <3>2. QED BY <3>1, WaysToWindUp
  <2>5. QED BY <2>2, <2>3, <2>4
<1>5. QED BY <1>1, <1>3, <1>4, SwitchKeepsConversation

\* A reader at the end of its rows: what the server ended the COPY with
LEMMA ReadResultKeepsConversation ==
  ASSUME CInv, Receive("read_result", AfterReadResult(Result(pg)))
  PROVE  InTurn(pg') /\ Conversation' /\ Outcome'
<1> DEFINE todo == AfterReadResult(Result(pg))
<1>1. /\ Calling("read_result") /\ pg \in Connections(MaxRows) /\ InTurn(pg)
      /\ todo \in Seq(Calls)
  BY Now, LibpqKeepsTypes, SwitchesAreCalls DEF Receive
<1>2. /\ call.op = "read" /\ call.todo = << "read_result" >> /\ Replied(pg)
      /\ pg.replies = << pg.ending >> /\ pg.rows = 0
  BY <1>1, Now DEF WindsUp, GoesOn, Cancels, Then, Fatals, Nulls
<1>3. Rest = <<>>
  BY <1>2 DEF Rest
<1>4. ASSUME NEW q \in Parsed(AfterResult(pg))
      PROVE  IF todo = <<>> THEN EndsWell(q, call.op, "none")
             ELSE WindsUp(q, todo) \/ GoesOn(q, call.op, todo)
  <2>1. /\ Result(pg) = pg.ending /\ pg.ending \in Endings
        /\ q.rows = 0 /\ q.ending = pg.ending
        /\ IF Result(pg) \in {"copy_in", "copy_out"} THEN q.async = Result(pg) ELSE Drained(q)
    BY <1>1, <1>2, ResultFacts DEF Connections
  <2>2. Drained(q) /\ ~Copying(q)
    BY <2>1 DEF Endings, Drained, Copying
  <2>3. CASE pg.ending = "command_ok"
    BY <1>2, <2>1, <2>2, <2>3 DEF AfterReadResult, EndsWell
  <2>4. CASE pg.ending # "command_ok"
    <3>1. todo = << "throw" >> /\ todo # <<>>
      BY <2>1, <2>4 DEF AfterReadResult
    <3>2. QED BY <2>2, <3>1, WaysToWindUp
  <2>5. QED BY <2>3, <2>4
<1>5. QED BY <1>1, <1>3, <1>4, SwitchKeepsConversation

\* get_fatal_error() on the result of a COPY that was ended
LEMMA FatalKeepsConversation ==
  ASSUME CInv, Receive("fatal", AfterFatal(Result(pg)))
  PROVE  InTurn(pg') /\ Conversation' /\ Outcome'
<1> DEFINE todo == AfterFatal(Result(pg))
<1>1. /\ Calling("fatal") /\ pg \in Connections(MaxRows) /\ InTurn(pg)
      /\ todo \in Seq(Calls) /\ CopyTypeOK
  BY Now, LibpqKeepsTypes, SwitchesAreCalls DEF Receive, CInv
<1>2. Fatals(call.todo) /\ Replied(pg) /\ pg.replies[1] \in Endings
  BY <1>1, Now DEF WindsUp, GoesOn, Cancels, Then, Fatals, Nulls
<1>3. Rest \in Seq(Calls) /\ Nulls(Rest) /\ Rest # <<>>
  <2>1. /\ Len(call.todo) >= 3 /\ Len(call.todo) \in Nat
        /\ Rest \in Seq(Calls) /\ Len(Rest) = Len(call.todo) - 1
        /\ \A i \in 1 .. Len(Rest) : Rest[i] = call.todo[i + 1]
    BY <1>1, <1>2, RestFacts DEF Fatals
  <2>2. 1 \in 1 .. Len(Rest) /\ 2 \in 1 .. Len(Rest) /\ Len(Rest) >= 2
    BY <2>1
  <2>3. Rest[1] = call.todo[2] /\ Rest[2] = call.todo[3]
    BY <2>1, <2>2
  <2>4. QED BY <1>2, <2>1, <2>2, <2>3 DEF Fatals, Nulls
<1>4. ASSUME NEW q \in Parsed(AfterResult(pg))
      PROVE  IF todo \o Rest = <<>> THEN EndsWell(q, call.op, "none")
             ELSE WindsUp(q, todo \o Rest) \/ GoesOn(q, call.op, todo \o Rest)
  <2>1. Drained(q) /\ ~Copying(q)
    <3>1. Result(pg) \in Endings /\ IF Result(pg) \in {"copy_in", "copy_out"} THEN q.async = Result(pg) ELSE Drained(q)
      BY <1>1, <1>2, ResultFacts
    <3>2. QED BY <3>1 DEF Endings, Drained, Copying
  <2>2. CASE todo = <<>>
    <3>1. todo \o Rest = Rest
      BY <1>3, <2>2, NothingMore
    <3>2. WindsUp(q, Rest)
      BY <1>3, <2>1 DEF WindsUp
    <3>3. QED BY <1>3, <3>1, <3>2
  <2>3. CASE todo = << "throw" >>
    <3>1. WindsUp(q, todo \o Rest)
      BY <1>1, <1>3, <2>1, <2>3, WaysToWindUp, AndSoOn
    <3>2. todo \o Rest # <<>>
      BY <1>1, <1>3, <2>3
    <3>3. QED BY <3>1, <3>2
  <2>4. QED BY <2>2, <2>3 DEF AfterFatal
<1>5. QED BY <1>1, <1>4, ReceiveKeepsConversation

\* consume_empty_result(): the connection is idle, and what is left throws, or
\* nothing is left.
LEMMA NullKeepsConversation ==
  ASSUME CInv, Receive("null", AfterNull(Result(pg)))
  PROVE  InTurn(pg') /\ Conversation' /\ Outcome'
<1> DEFINE todo == AfterNull(Result(pg))
<1>1. /\ Calling("null") /\ pg \in Connections(MaxRows) /\ InTurn(pg) /\ CopyTypeOK
      /\ Rest \in Seq(Calls)
  BY Now DEF Receive, CInv
<1>2. \/ Nulls(call.todo) /\ Drained(pg)
      \/ call.op \in Asking /\ call.todo = << "null" >> /\ Drained(pg)
  BY <1>1, Now DEF WindsUp, GoesOn, Cancels, Then, Fatals, Nulls
<1>3. todo = <<>> /\ todo \o Rest = Rest /\ <<>> \in Seq(Calls)
  <2>1. Result(pg) = "null"
    BY <1>1, <1>2 DEF Result, Drained
  <2>2. todo = <<>>
    BY <2>1 DEF AfterNull
  <2>3. QED BY <1>1, <2>2, NothingMore
<1>4. ASSUME NEW q \in Parsed(AfterResult(pg))
      PROVE  IF Rest = <<>> THEN EndsWell(q, call.op, "none")
             ELSE WindsUp(q, Rest) \/ GoesOn(q, call.op, Rest)
  <2>1. q.async = "idle" /\ ~Copying(q)
    BY <1>1, <1>2, ResultFacts DEF Copying
  <2>2. CASE Nulls(call.todo)
    <3>1. /\ Len(call.todo) >= 2 /\ Len(call.todo) \in Nat
          /\ Len(Rest) = Len(call.todo) - 1
          /\ \A i \in 1 .. Len(Rest) : Rest[i] = call.todo[i + 1]
      BY <1>1, <2>2, RestFacts DEF Nulls
    <3>2. 1 \in 1 .. Len(Rest) /\ Len(Rest) >= 1
      BY <3>1
    <3>3. Rest[1] = "throw" /\ Rest # <<>>
      BY <2>2, <3>1, <3>2 DEF Nulls
    <3>4. QED BY <2>1, <3>2, <3>3 DEF WindsUp
  <2>3. CASE call.op \in Asking /\ call.todo = << "null" >>
    <3>1. Rest = <<>>
      BY <2>3 DEF Rest
    <3>2. EndsWell(q, call.op, "none")
      BY <2>1, <2>3 DEF EndsWell, Asking
    <3>3. QED BY <3>1, <3>2
  <2>4. QED BY <1>2, <2>2, <2>3
<1>5. QED BY <1>1, <1>3, <1>4, ReceiveKeepsConversation

LEMMA GetResultKeepsConversation ==
  ASSUME CInv, GetResult
  PROVE  InTurn(pg') /\ Conversation' /\ Outcome'
BY TxResultKeepsConversation, ReaderResultKeepsConversation, WriterResultKeepsConversation,
   ReadResultKeepsConversation, FatalKeepsConversation, NullKeepsConversation DEF GetResult

-----------------------------------------------------------------------------
LEMMA SendKeepsConversation ==
  ASSUME CInv, SendParams
  PROVE  InTurn(pg') /\ Conversation' /\ Outcome'
<1>1. /\ Calling("send") /\ InCall /\ Rest \in Seq(Calls)
      /\ pg \in Connections(MaxRows) /\ InTurn(pg)
  BY Now DEF SendParams
<1>2. \/ call.op = "send" /\ call.todo = << "send" >>
      \/ call.op = "execute" /\ call.todo = << "send", "tx_result" >>
      \/ call.op = "reader" /\ call.todo = << "send", "reader_result" >>
      \/ call.op = "writer" /\ call.todo = << "send", "writer_result" >>
  BY <1>1, Now DEF WindsUp, GoesOn, Cancels, Then, Fatals, Nulls
<1>3. CASE IsCurrent(call.obj) /\ pg.async = "idle"
  <2>1. PICK reply \in Results, rows \in 0 .. MaxRows, ending \in Endings :
          pg' = Sent(pg, reply, rows, ending)
    BY <1>3 DEF SendParams
  <2>2. InTurn(pg') /\ Replied(pg')
    BY <1>1, <2>1, OutstandingFacts
  <2>3. PICK left \in Seq(Calls) : left = Rest
    BY <1>1
  <2>4. \/ call.op = "send" /\ left = <<>>
        \/ call.op = "execute" /\ left = << "tx_result" >>
        \/ call.op = "reader" /\ left = << "reader_result" >>
        \/ call.op = "writer" /\ left = << "writer_result" >>
    <3>1. /\ Tail(<< "send" >>) = <<>>
          /\ Tail(<< "send", "tx_result" >>) = << "tx_result" >>
          /\ Tail(<< "send", "reader_result" >>) = << "reader_result" >>
          /\ Tail(<< "send", "writer_result" >>) = << "writer_result" >>
      OBVIOUS
    <3>2. left = Tail(call.todo)
      BY <2>3 DEF Rest
    <3>3. QED BY <1>2, <3>1, <3>2, Zenon
  <2>5. IF left = <<>> THEN EndsWell(pg', call.op, "none")
        ELSE WindsUp(pg', left) \/ GoesOn(pg', call.op, left)
    <3>1. call.op = "send" => EndsWell(pg', call.op, "none")
      BY DEF EndsWell
    <3>2. call.op # "send" => left # <<>> /\ GoesOn(pg', call.op, left)
      BY <2>2, <2>4 DEF GoesOn, Asking
    <3>3. QED BY <2>4, <3>1, <3>2
  <2>6. Proceed(left)
    BY <1>3, <2>3 DEF SendParams
  <2>7. QED BY <1>1, <2>2, <2>5, <2>6, ProceedKeepsConversation
<1>4. CASE ~(IsCurrent(call.obj) /\ pg.async = "idle")
  <2>1. PICK thrown \in {"other", "order"} : End(thrown)
    BY <1>4 DEF SendParams
  <2>2. UNCHANGED pg
    BY <1>4 DEF SendParams
  <2>3. EndsWell(pg', call.op, thrown)
    BY <1>2 DEF EndsWell
  <2>4. QED BY <1>1, <2>1, <2>2, <2>3, EndKeepsConversation
<1>5. QED BY <1>3, <1>4

\* PQputCopyEnd() in a COPY FROM: with a message, an error is on its way.
LEMMA PutCopyEndKeepsConversation ==
  ASSUME CInv, NEW c \in {"put_end", "put_error"}, PutCopyEnd(c)
  PROVE  InTurn(pg') /\ Conversation' /\ Outcome'
<1>1. /\ Calling(c) /\ InCall /\ Rest \in Seq(Calls) /\ CopyTypeOK
      /\ pg \in Connections(MaxRows) /\ InTurn(pg)
  BY Now DEF PutCopyEnd, CInv
<1>2. \/ call.op = "commit" /\ call.todo = << "put_end", "tx_result" >> /\ c = "put_end"
      \/ Then("put_error", call.todo) /\ pg.async = "copy_in" /\ c = "put_error"
  BY <1>1, Now DEF WindsUp, GoesOn, Cancels, Then, Fatals, Nulls
<1>3. ASSUME NEW reply \in CopyInReplies(c), pg' = CopyEnds(pg, reply), Proceed(Rest)
      PROVE  InTurn(pg') /\ Conversation' /\ Outcome'
  <2>1. reply \in Results /\ reply \in Endings
    BY DEF CopyInReplies, Results, Endings
  <2>2. /\ InTurn(pg') /\ Replied(pg') /\ pg'.replies = << reply >>
    <3>1. 0 \in 0 .. MaxRows /\ "command_ok" \in Endings
      BY MaxRowsAssumption DEF Endings
    <3>2. QED BY <1>1, <1>3, <2>1, <3>1, OutstandingFacts
  <2>3. pg'.replies[1] \in Endings
    BY <2>1, <2>2
  <2>4. PICK left \in Seq(Calls) : left = Rest
    BY <1>1
  <2>5. left # <<>> /\ (WindsUp(pg', left) \/ GoesOn(pg', call.op, left))
    <3>1. CASE call.op = "commit" /\ call.todo = << "put_end", "tx_result" >>
      <4>1. left = << "tx_result" >> /\ left # <<>>
        BY <2>4, <3>1 DEF Rest
      <4>2. QED BY <3>1, <4>1 DEF GoesOn, Asking
    <3>2. CASE Then("put_error", call.todo)
      <4>1. /\ Len(call.todo) >= 4 /\ Len(call.todo) \in Nat
            /\ Len(left) = Len(call.todo) - 1
            /\ \A i \in 1 .. Len(left) : left[i] = call.todo[i + 1]
        BY <1>1, <2>4, <3>2, RestFacts DEF Then
      <4>2. 1 \in 1 .. Len(left) /\ 2 \in 1 .. Len(left) /\ 3 \in 1 .. Len(left) /\ Len(left) >= 3
        BY <4>1
      <4>3. left[1] = call.todo[2] /\ left[2] = call.todo[3] /\ left[3] = call.todo[4] /\ left # <<>>
        BY <4>1, <4>2
      <4>4. Fatals(left)
        BY <3>2, <4>2, <4>3 DEF Then, Fatals
      <4>5. QED BY <2>2, <2>3, <4>3, <4>4 DEF WindsUp
    <3>3. QED BY <1>2, <3>1, <3>2
  <2>6. Proceed(left)
    BY <1>3, <2>4
  <2>7. QED BY <1>1, <2>2, <2>5, <2>6, ProceedKeepsConversation
<1>4. CASE TimesOut
  <2>1. pg' = Closed /\ End("other")
    BY <1>4 DEF TimesOut
  <2>2. InTurn(pg') /\ EndsWell(pg', call.op, "other")
    BY <2>1, ClosedFacts DEF EndsWell
  <2>3. QED BY <1>1, <2>1, <2>2, EndKeepsConversation
<1>5. CASE End("callback") /\ UNCHANGED pg
  <2>1. EndsWell(pg', call.op, "callback")
    BY DEF EndsWell
  <2>2. QED BY <1>1, <1>5, <2>1, EndKeepsConversation
<1>6. CASE pg.async # "copy_in" /\ End("other") /\ UNCHANGED pg
  <2>1. EndsWell(pg', call.op, "other")
    BY <1>2, <1>6 DEF EndsWell
  <2>2. QED BY <1>1, <1>6, <2>1, EndKeepsConversation
<1>7. QED BY <1>3, <1>4, <1>5, <1>6 DEF PutCopyEnd

LEMMA CancelKeepsConversation ==
  ASSUME CInv, Cancel
  PROVE  InTurn(pg') /\ Conversation' /\ Outcome'
<1>1. /\ Calling("cancel") /\ InCall /\ Rest \in Seq(Calls) /\ CopyTypeOK
      /\ pg \in Connections(MaxRows) /\ InTurn(pg)
  BY Now DEF Cancel, CInv
<1>2. Cancels(call.todo) /\ pg.async = "copy_out"
  BY <1>1, Now DEF WindsUp, GoesOn, Cancels, Then, Fatals, Nulls
<1>3. CASE pg' \in Cancelled(pg) /\ Proceed(Rest)
  <2>1. InTurn(pg') /\ pg'.async = "copy_out"
    BY <1>1, <1>2, <1>3, CancelledFacts
  <2>2. PICK left \in Seq(Calls) : left = Rest
    BY <1>1
  <2>3. /\ Len(call.todo) >= 5 /\ Len(call.todo) \in Nat
        /\ Len(left) = Len(call.todo) - 1
        /\ \A i \in 1 .. Len(left) : left[i] = call.todo[i + 1]
    BY <1>1, <1>2, <2>2, RestFacts DEF Cancels
  <2>4. /\ 1 \in 1 .. Len(left) /\ 2 \in 1 .. Len(left) /\ 3 \in 1 .. Len(left) /\ 4 \in 1 .. Len(left)
        /\ Len(left) >= 4
    BY <2>3
  <2>5. /\ left[1] = call.todo[2] /\ left[2] = call.todo[3]
        /\ left[3] = call.todo[4] /\ left[4] = call.todo[5] /\ left # <<>>
    BY <2>3, <2>4
  <2>6. Then("clear", left)
    BY <1>2, <2>4, <2>5 DEF Cancels, Then
  <2>7. WindsUp(pg', left)
    BY <2>1, <2>6 DEF WindsUp
  <2>8. Proceed(left)
    BY <1>3, <2>2
  <2>9. QED BY <1>1, <2>1, <2>5, <2>7, <2>8, ProceedKeepsConversation
<1>4. CASE End("cancel") /\ UNCHANGED pg
  <2>1. EndsWell(pg', call.op, "cancel")
    BY DEF EndsWell
  <2>2. QED BY <1>1, <1>4, <2>1, EndKeepsConversation
<1>5. QED BY <1>3, <1>4 DEF Cancel

LEMMA ClearKeepsConversation ==
  ASSUME CInv, ClearCopyData
  PROVE  InTurn(pg') /\ Conversation' /\ Outcome'
<1>1. /\ Calling("clear") /\ InCall /\ Rest \in Seq(Calls) /\ CopyTypeOK
      /\ pg \in Connections(MaxRows) /\ InTurn(pg)
  BY Now DEF ClearCopyData, CInv
<1>2. Then("clear", call.todo) /\ pg.async = "copy_out"
  BY <1>1, Now DEF WindsUp, GoesOn, Cancels, Then, Fatals, Nulls
<1>3. CASE pg' = CopyEnds(pg, pg.ending) /\ Proceed(Rest)
  <2>1. pg.ending \in Results /\ pg.ending \in Endings
    BY <1>1 DEF Connections, Results, Endings
  <2>2. /\ InTurn(pg') /\ Replied(pg') /\ pg'.replies = << pg.ending >>
    <3>1. 0 \in 0 .. MaxRows
      BY MaxRowsAssumption
    <3>2. QED BY <1>1, <1>3, <2>1, <3>1, OutstandingFacts
  <2>3. pg'.replies[1] \in Endings
    BY <2>1, <2>2
  <2>4. PICK left \in Seq(Calls) : left = Rest
    BY <1>1
  <2>5. /\ Len(call.todo) >= 4 /\ Len(call.todo) \in Nat
        /\ Len(left) = Len(call.todo) - 1
        /\ \A i \in 1 .. Len(left) : left[i] = call.todo[i + 1]
    BY <1>1, <1>2, <2>4, RestFacts DEF Then
  <2>6. 1 \in 1 .. Len(left) /\ 2 \in 1 .. Len(left) /\ 3 \in 1 .. Len(left) /\ Len(left) >= 3
    BY <2>5
  <2>7. left[1] = call.todo[2] /\ left[2] = call.todo[3] /\ left[3] = call.todo[4] /\ left # <<>>
    BY <2>5, <2>6
  <2>8. Fatals(left)
    BY <1>2, <2>6, <2>7 DEF Then, Fatals
  <2>9. WindsUp(pg', left)
    BY <2>2, <2>3, <2>8 DEF WindsUp
  <2>10. Proceed(left)
    BY <1>3, <2>4
  <2>11. QED BY <1>1, <2>2, <2>7, <2>9, <2>10, ProceedKeepsConversation
<1>4. CASE TimesOut
  <2>1. pg' = Closed /\ End("other")
    BY <1>4 DEF TimesOut
  <2>2. InTurn(pg') /\ EndsWell(pg', call.op, "other")
    BY <2>1, ClosedFacts DEF EndsWell
  <2>3. QED BY <1>1, <2>1, <2>2, EndKeepsConversation
<1>5. CASE (\E n \in 0 .. pg.rows : pg' = [pg EXCEPT !.rows = n]) /\ End("callback")
  <2>1. pg'.async = pg.async /\ pg'.replies = pg.replies
    BY <1>1, <1>5 DEF Connections
  <2>2. InTurn(pg')
    BY <1>1, <2>1 DEF InTurn
  <2>3. EndsWell(pg', call.op, "callback")
    BY DEF EndsWell
  <2>4. QED BY <1>1, <1>5, <2>2, <2>3, EndKeepsConversation
<1>6. pg.async = "copy_out"
  BY <1>2
<1>7. QED BY <1>3, <1>4, <1>5, <1>6 DEF ClearCopyData

LEMMA ThrowKeepsConversation ==
  ASSUME CInv, Throw
  PROVE  InTurn(pg') /\ Conversation' /\ Outcome'
<1>1. Calling("throw") /\ InCall /\ InTurn(pg) /\ End("other") /\ UNCHANGED pg
  BY Now DEF Throw
<1>2. ~Copying(pg)
  BY <1>1, Now DEF WindsUp, GoesOn, Cancels, Then, Fatals, Nulls
<1>3. EndsWell(pg', call.op, "other")
  BY <1>1, <1>2 DEF EndsWell
<1>4. QED BY <1>1, <1>3, EndKeepsConversation

LEMMA StepKeepsConversation ==
  ASSUME CInv, Step
  PROVE  InTurn(pg') /\ Conversation' /\ Outcome'
BY SendKeepsConversation, GetResultKeepsConversation, CancelKeepsConversation,
   ClearKeepsConversation, ThrowKeepsConversation, PutCopyEndKeepsConversation DEF Step

-----------------------------------------------------------------------------
\* The program calls a method.
LEMMA StartKeepsConversation ==
  ASSUME CInv, NEW op, NEW obj, NEW todo, Start(op, obj, todo),
         todo # <<>>, GoesOn(pg', op, todo), InTurn(pg')
  PROVE  InTurn(pg') /\ Conversation' /\ Outcome'
<1>1. call'.op = op /\ call'.todo = todo /\ call' # NoCall
  BY DEF Start, NoCall
<1>2. Conversation'
  BY <1>1 DEF Conversation
<1>3. Outcome'
  BY <1>1 DEF Outcome, GetResultEndsCopy, ReturnLeavesReady, ReaderIsComplete, Last
<1>4. QED BY <1>2, <1>3

\* A method that is one step
LEMMA AtOnceKeepsConversation ==
  ASSUME CInv, call = NoCall, UNCHANGED call, InTurn(pg'),
         last'.op \in {"row", "insert"}
  PROVE  InTurn(pg') /\ Conversation' /\ Outcome'
<1>1. Conversation'
  BY DEF Conversation
<1>2. Outcome'
  BY DEF Outcome, GetResultEndsCopy, ReturnLeavesReady, ReaderIsComplete, Last
<1>3. QED BY <1>1, <1>2

\* Between the methods
LEMMA BetweenKeepsConversation ==
  ASSUME CInv, UNCHANGED << call, last >>, InTurn(pg'),
         pg' # pg => call = NoCall,
         Copying(pg') => Copying(pg),
         Copying(pg) => pg'.async = pg.async,
         pg.async = "idle" => pg'.async = "idle",
         Drained(pg) => Drained(pg') /\ pg'.rows = pg.rows /\ pg'.ending = pg.ending
  PROVE  InTurn(pg') /\ Conversation' /\ Outcome'
<1>1. Conversation'
  BY DEF CInv, Conversation
<1>2. \A op, thrown : Last(op, thrown)' => Last(op, thrown)
  BY DEF Last
<1>3. GetResultEndsCopy'
  BY <1>2 DEF CInv, Outcome, GetResultEndsCopy, Copying
<1>4. ReturnLeavesReady'
  BY <1>2 DEF CInv, Outcome, ReturnLeavesReady
<1>5. ReaderIsComplete' /\ (Last("read", "none") => Drained(pg))'
  BY <1>2 DEF CInv, Outcome, ReaderIsComplete
<1>6. (Last("reader", "none") => pg.async = "copy_out")' /\ (Last("writer", "none") => pg.async = "copy_in")'
  BY <1>2 DEF CInv, Outcome, Copying
<1>7. QED BY <1>1, <1>3, <1>4, <1>5, <1>6 DEF Outcome

LEMMA RequestsKeepConversation ==
  ASSUME CInv, NEW t \in Tx, Requests(t)
  PROVE  InTurn(pg') /\ Conversation' /\ Outcome'
<1>1. InTurn(pg')
  BY DEF Requests, Request, CInv
<1>2. CASE Request(t, "send", << "send" >>)
  BY <1>1, <1>2, StartKeepsConversation, StartsAreCalls DEF Request, GoesOn
<1>3. CASE Request(t, "execute", << "send", "tx_result" >>)
  BY <1>1, <1>3, StartKeepsConversation, StartsAreCalls DEF Request, GoesOn
<1>4. CASE Request(t, "get_result", << "tx_result" >>)
  BY <1>1, <1>4, StartKeepsConversation, StartsAreCalls DEF Request, GoesOn, Asking
<1>5. QED BY <1>2, <1>3, <1>4 DEF Requests

LEMMA NewKeepsConversation ==
  ASSUME CInv, NEW p \in Tx, NEW g \in Tx, NewReader(p, g) \/ NewWriter(p, g)
  PROVE  InTurn(pg') /\ Conversation' /\ Outcome'
<1>1. InTurn(pg')
  BY DEF NewReader, NewWriter, CInv
<1>2. CASE Start("reader", g, << "send", "reader_result" >>)
  BY <1>1, <1>2, StartKeepsConversation, StartsAreCalls DEF GoesOn
<1>3. CASE Start("writer", g, << "send", "writer_result" >>)
  BY <1>1, <1>3, StartKeepsConversation, StartsAreCalls DEF GoesOn
<1>4. QED BY <1>2, <1>3 DEF NewReader, NewWriter

\* At the end of the rows libpq has one result left: what the COPY ended with.
LEMMA ReadKeepsConversation ==
  ASSUME CInv, NEW g \in Tx, Read(g)
  PROVE  InTurn(pg') /\ Conversation' /\ Outcome'
<1>1. call = NoCall /\ pg \in Connections(MaxRows) /\ InTurn(pg)
  BY DEF Read, Usable, Ready, CInv, CopyTypeOK
<1>2. CASE pg' = CopyEnds(pg, pg.ending) /\ ~HasRow /\ pg.async = "copy_out" /\ Start("read", g, << "read_result" >>)
  <2>1. pg.ending \in Results /\ pg.ending \in Endings /\ 0 \in 0 .. MaxRows
    BY <1>1, MaxRowsAssumption DEF Connections, Results, Endings
  <2>2. /\ InTurn(pg') /\ Replied(pg') /\ pg'.replies = << pg.ending >>
        /\ pg'.rows = pg.rows /\ pg'.ending = pg.ending
    BY <1>1, <1>2, <2>1, OutstandingFacts
  <2>3. pg.rows = 0
    BY <1>1, <1>2 DEF HasRow, Connections
  <2>4. GoesOn(pg', "read", << "read_result" >>)
    BY <2>2, <2>3 DEF GoesOn
  <2>5. QED BY <1>2, <2>2, <2>4, StartKeepsConversation, StartsAreCalls
<1>3. CASE UNCHANGED call /\ (\E thrown \in Exceptions : Finished("row", g, thrown))
           /\ (pg' = pg \/ pg' = Closed \/ pg' = [pg EXCEPT !.rows = @ - 1])
  <2>1. last'.op = "row"
    BY <1>3 DEF Finished
  <2>2. InTurn(pg')
    <3>1. CASE pg' = [pg EXCEPT !.rows = @ - 1]
      <4>1. pg'.async = pg.async /\ pg'.replies = pg.replies
        BY <1>1, <3>1 DEF Connections
      <4>2. QED BY <1>1, <4>1 DEF InTurn
    <3>2. QED BY <1>1, <1>3, <3>1, ClosedFacts
  <2>3. QED BY <1>1, <1>3, <2>1, <2>2, AtOnceKeepsConversation
<1>4. QED BY <1>2, <1>3 DEF Read, Exceptions

LEMMA InsertKeepsConversation ==
  ASSUME CInv, NEW g \in Tx, Insert(g)
  PROVE  InTurn(pg') /\ Conversation' /\ Outcome'
<1>1. call = NoCall /\ UNCHANGED call /\ InTurn(pg)
  BY DEF Insert, Usable, Ready, CInv
<1>2. last'.op = "insert"
  BY DEF Insert, Finished
<1>3. pg' = pg \/ pg' = Closed
  BY DEF Insert
<1>4. InTurn(pg')
  BY <1>1, <1>3, ClosedFacts
<1>5. QED BY <1>1, <1>2, <1>4, AtOnceKeepsConversation

\* Objects come and go, commit() and a writer's destructor begin.
LEMMA LifetimesKeepConversation ==
  ASSUME CInv, NEW t \in Tx,
         BeginDirect(t) \/ FinishDirect(t) \/ CommitWriter(t) \/ Release(t) \/ Destruct(t)
  PROVE  InTurn(pg') /\ Conversation' /\ Outcome'
<1>1. UNCHANGED pg /\ InTurn(pg') /\ InTurn(pg)
  BY DEF BeginDirect, FinishDirect, CommitWriter, Release, Destruct, CInv
<1>2. CASE UNCHANGED << call, last >>
  <2>1. pg' = pg
    BY <1>1
  <2>2. QED BY <1>1, <1>2, <2>1, BetweenKeepsConversation
<1>3. CASE Start("commit", t, << "put_end", "tx_result" >>)
  BY <1>1, <1>3, StartKeepsConversation, StartsAreCalls DEF GoesOn
<1>4. CASE Start("unwind", t, << "tx_result" >>)
  BY <1>1, <1>4, StartKeepsConversation, StartsAreCalls DEF GoesOn, Asking
<1>5. QED
  BY <1>2, <1>3, <1>4
  DEF BeginDirect, FinishDirect, CommitWriter, Release, Destruct, historyVars

\* Cancelling or parsing leaves a COPY as open, and a ready connection as ready.
LEMMA ConnectionKeepsConversation ==
  ASSUME CInv, CancelNow \/ GetNotifications
  PROVE  InTurn(pg') /\ Conversation' /\ Outcome'
<1>1. /\ call = NoCall /\ UNCHANGED << call, last >>
      /\ pg \in Connections(MaxRows) /\ InTurn(pg)
  BY DEF CancelNow, GetNotifications, Ready, historyVars, CInv, CopyTypeOK
<1>2. CASE pg' \in Cancelled(pg)
  <2>1. /\ InTurn(pg') /\ pg'.async = pg.async
        /\ Drained(pg) => pg' = pg
    BY <1>1, <1>2, CancelledFacts
  <2>2. QED BY <1>1, <2>1, BetweenKeepsConversation DEF Copying
<1>3. CASE pg' \in Parsed(pg)
  <2>1. /\ InTurn(pg')
        /\ pg'.replies = pg.replies /\ pg'.rows = pg.rows /\ pg'.ending = pg.ending
        /\ \/ pg'.async = pg.async
           \/ pg.async = "busy" /\ pg.replies = <<>> /\ pg'.async = "idle"
    BY <1>1, <1>3, ParsedFacts
  <2>2. /\ Copying(pg') => Copying(pg)
        /\ Copying(pg) => pg'.async = pg.async
        /\ pg.async = "idle" => pg'.async = "idle"
        /\ Drained(pg) => Drained(pg') /\ pg'.rows = pg.rows /\ pg'.ending = pg.ending
    BY <2>1 DEF Copying, Drained
  <2>3. QED BY <1>1, <2>1, <2>2, BetweenKeepsConversation
<1>4. QED BY <1>2, <1>3 DEF CancelNow, GetNotifications

LEMMA NextKeepsConversation ==
  ASSUME CInv, Next
  PROVE  CInv'
<1>1. CopyTypeOK'
  BY NextKeepsTypes DEF CInv
<1>2. InTurn(pg') /\ Conversation' /\ Outcome'
  BY StepKeepsConversation, RequestsKeepConversation, NewKeepsConversation,
     ReadKeepsConversation, InsertKeepsConversation, LifetimesKeepConversation,
     ConnectionKeepsConversation DEF Next
<1>3. QED BY <1>1, <1>2 DEF CInv

LEMMA ConversationAlways == Spec => []CInv
<1>1. Init => CInv
  <2> SUFFICES ASSUME Init PROVE CInv
    OBVIOUS
  <2>1. CopyTypeOK
    BY InitTypes
  <2>2. call = NoCall /\ pg.replies = <<>> /\ last.op = "none"
    BY DEF Init, Fresh
  <2>3. InTurn(pg) /\ Conversation
    BY <2>2 DEF InTurn, Conversation
  <2>4. Outcome
    BY <2>2 DEF Outcome, GetResultEndsCopy, ReturnLeavesReady, ReaderIsComplete, Last
  <2>5. QED BY <2>1, <2>3, <2>4 DEF CInv
<1>2. CInv /\ [Next]_vars => CInv'
  <2>1. ASSUME CInv, UNCHANGED vars PROVE CInv'
    <3>1. CopyTypeOK'
      BY <2>1, StutterKeepsTypes DEF CInv
    <3>2. UNCHANGED << pg, call, last >>
      BY <2>1 DEF vars, historyVars
    <3>3. InTurn(pg') /\ Conversation' /\ Outcome'
      BY <2>1, <3>2 DEF CInv, Conversation, Outcome, GetResultEndsCopy, ReturnLeavesReady,
        ReaderIsComplete, Last
    <3>4. QED BY <3>1, <3>3 DEF CInv
  <2>2. QED BY <2>1, NextKeepsConversation
<1>3. QED BY <1>1, <1>2, PTL DEF Spec

\* A reader reports the end of its rows only when it has them all and the
\* server has completed the COPY, whatever was cancelled meanwhile.
THEOREM ReaderIsAlwaysComplete == Spec => []ReaderIsComplete
<1>1. CInv => ReaderIsComplete
  BY DEF CInv, Outcome
<1>2. QED BY <1>1, ConversationAlways, PTL

\* Asking for a result ends any COPY that is open, of whomever: unless a
\* callback stopped it, or the COPY could not be cancelled, none is left.
THEOREM GetResultAlwaysEndsCopy == Spec => []GetResultEndsCopy
<1>1. CInv => GetResultEndsCopy
  BY DEF CInv, Outcome
<1>2. QED BY <1>1, ConversationAlways, PTL

\* execute() and a writer's commit() that return leave nothing for the next
\* statement to stumble on.
THEOREM ReturnAlwaysLeavesReady == Spec => []ReturnLeavesReady
<1>1. CInv => ReturnLeavesReady
  BY DEF CInv, Outcome
<1>2. QED BY <1>1, ConversationAlways, PTL

\* TAO_PQ_INTERNAL_UNREACHABLE in the constructor of a reader is not reached:
\* in a COPY FROM, transaction_base::get_result() does not return.
THEOREM UnreachableIsNever == Spec => []UnreachableIsNot
<1>1. CInv => UnreachableIsNot
  <2>1. ASSUME CInv, Calling("unreachable") PROVE FALSE
    <3>1. /\ call.todo[1] = "unreachable"
          /\ WindsUp(pg, call.todo) \/ GoesOn(pg, call.op, call.todo)
      BY <2>1, Now
    <3>2. QED BY <3>1 DEF WindsUp, GoesOn, Cancels, Then, Fatals, Nulls
  <2>2. QED BY <2>1 DEF UnreachableIsNot
<1>2. QED BY <1>1, ConversationAlways, PTL

-----------------------------------------------------------------------------
(* Whose COPY it is.                                                       *)

\* The direct transaction is at the bottom of the stack, guards are above it;
\* an object that is out of the stack remembers none below it, and is no guard.
CopyShape ==
  /\ \A j \in 1 .. Len(active) : kind[active[j]] = IF j = 1 THEN "direct" ELSE "guard"
  /\ \A t \in Tx : ~reg[t] => prev[t] = NoTx /\ kind[t] # "guard"

\* A reader or writer holds its guard.
Guarded == \A g \in Tx : role[g] # "none" => held[g] /\ kind[g] = "guard"

\* A method talks to libpq as the current transaction, or first finds out
\* whether it is that.
Talking ==
  call # NoCall =>
    /\ dying = NoTx /\ call.op \notin {"row", "insert"}
    /\ call.todo[1] \in {"send", "tx_result"} \/ current = call.obj
    /\ call.op \in {"reader", "writer"} =>
         /\ role[call.obj] = call.op /\ current = call.obj
         /\ call.todo[1] # "send" => copier = call.obj
    /\ call.op \in {"send", "execute", "get_result"} =>
         role[call.obj] = "none" /\ kind[call.obj] # "guard"

\* In the middle of a COPY, and none of its methods is running
Good(g) == role[g] # "none" /\ g \notin failed /\ (call = NoCall \/ call.obj # g)

GoodIsOwn ==
  \A g \in Tx : Good(g) =>
    copier = g /\ pg.async = IF role[g] = "reader" THEN "copy_out" ELSE "copy_in"

\* Nothing is on top of it, except for one whose constructor is going to fail,
\* or has failed.
GoodIsTop ==
  \A g \in Tx : Good(g) =>
    \/ current = g
    \/ /\ current # NoTx /\ prev[current] = g
       /\ \/ current = dying
          \/ call # NoCall /\ call.obj = current /\ call.todo[1] = "send"

Ownership == Guarded /\ Talking /\ GoodIsOwn /\ GoodIsTop

OInv == CInv /\ IInv /\ CopyShape /\ Ownership

-----------------------------------------------------------------------------
(* The stack of the objects.                                               *)

LEMMA TopIsUnreferenced ==
  ASSUME IInv, CopyShape, current # NoTx
  PROVE  \A u \in Tx : prev[u] # current
<1>1. SUFFICES ASSUME NEW u \in Tx, prev[u] = current
               PROVE  FALSE
  OBVIOUS
<1>2. reg[u]
  BY <1>1 DEF CopyShape
<1>3. PICK j \in 1 .. Len(active) : active[j] = u
  BY <1>2 DEF IInv, CurrentIsTop
<1>4. Len(active) \in Nat \ {0} /\ current = active[Len(active)]
  BY TopFacts
<1>5. prev[u] = IF j = 1 THEN NoTx ELSE active[j - 1]
  BY <1>3 DEF IInv, CurrentIsTop
<1>6. j # 1 /\ active[j - 1] = active[Len(active)]
  BY <1>1, <1>4, <1>5
<1>7. j - 1 \in 1 .. Len(active) /\ Len(active) \in 1 .. Len(active)
  BY <1>4, <1>6
<1>8. j - 1 = Len(active)
  BY <1>6, <1>7 DEF IInv, Distinct
<1>9. QED BY <1>4, <1>8

\* A direct transaction is below all others; if it is current it is alone.
LEMMA BottomIsDirect ==
  ASSUME IInv, CopyShape, NEW t \in Tx, reg[t], kind[t] # "guard"
  PROVE  /\ prev[t] = NoTx
         /\ current = t => Len(active) = 1 /\ \A u \in Tx : reg[u] => u = t
<1>1. PICK j \in 1 .. Len(active) : active[j] = t
  BY DEF IInv, CurrentIsTop
<1>2. j = 1
  BY <1>1 DEF CopyShape
<1>3. prev[t] = NoTx
  BY <1>1, <1>2 DEF IInv, CurrentIsTop
<1>4. ASSUME current = t PROVE Len(active) = 1 /\ \A u \in Tx : reg[u] => u = t
  <2>1. Len(active) \in Nat \ {0} /\ current = active[Len(active)]
    BY <1>4, TopFacts, NoTxAssumption
  <2>2. Len(active) \in 1 .. Len(active) /\ active[Len(active)] = active[j]
    BY <1>1, <1>4, <2>1
  <2>3. Len(active) = 1
    BY <1>2, <2>2 DEF IInv, Distinct
  <2>4. ASSUME NEW u \in Tx, reg[u] PROVE u = t
    <3>1. PICK i \in 1 .. Len(active) : active[i] = u
      BY <2>4 DEF IInv, CurrentIsTop
    <3>2. i = 1
      BY <2>3, <3>1
    <3>3. QED BY <1>1, <1>2, <3>1, <3>2
  <2>5. QED BY <2>3, <2>4
<1>5. QED BY <1>3, <1>4

LEMMA ConstructShape ==
  ASSUME IInv, CopyShape, NEW t \in Tx, NEW k \in {"direct", "guard"}, Construct(t, k),
         k = "direct" <=> current = NoTx
  PROVE  CopyShape'
<1>1. active \in Seq(Tx) /\ Len(active) \in Nat /\ t \notin alive
  BY DEF IInv, RegistryTypeOK, Construct
<1>2. /\ active' = Append(active, t)
      /\ Len(active') = Len(active) + 1 /\ active'[Len(active) + 1] = t
      /\ \A i \in 1 .. Len(active) : active'[i] = active[i]
  BY <1>1 DEF Construct
<1>3. /\ kind'[t] = k /\ \A u \in Tx : u # t => kind'[u] = kind[u]
      /\ reg'[t] /\ \A u \in Tx : u # t => reg'[u] = reg[u] /\ prev'[u] = prev[u]
  BY DEF Construct, IInv, RegistryTypeOK
<1>4. k = "direct" <=> Len(active) = 0
  BY <1>1, TopFacts, EmptySeq
<1>5. ASSUME NEW j \in 1 .. Len(active')
      PROVE  kind'[active'[j]] = IF j = 1 THEN "direct" ELSE "guard"
  <2>1. CASE j \in 1 .. Len(active)
    <3>1. active'[j] = active[j] /\ active[j] \in Tx /\ reg[active[j]]
      BY <1>1, <1>2, <2>1 DEF IInv, CurrentIsTop
    <3>2. active[j] # t
      BY <1>1, <3>1 DEF IInv, Owned
    <3>3. QED BY <1>3, <2>1, <3>1, <3>2 DEF CopyShape
  <2>2. CASE j = Len(active) + 1
    <3>1. active'[j] = t
      BY <1>2, <2>2
    <3>2. j = 1 <=> k = "direct"
      BY <1>1, <1>4, <2>2
    <3>3. QED BY <1>3, <3>1, <3>2
  <2>3. QED BY <1>1, <1>2, <2>1, <2>2
<1>6. \A u \in Tx : ~reg'[u] => prev'[u] = NoTx /\ kind'[u] # "guard"
  BY <1>3 DEF CopyShape
<1>7. QED BY <1>5, <1>6 DEF CopyShape

\* The current object leaves the stack.
LEMMA ResetShape ==
  ASSUME IInv, CopyShape, NEW t \in Tx, reg[t], current = t,
         active' = Ended(t), reg' = [reg EXCEPT ![t] = FALSE],
         \A u \in Tx : u # t => kind'[u] = kind[u] /\ prev'[u] = prev[u],
         prev'[t] = NoTx, kind'[t] # "guard"
  PROVE  CopyShape'
<1>1. active \in Seq(Tx) /\ active # <<>> /\ Len(active) \in Nat \ {0} /\ active[Len(active)] = t
  BY TopFacts, NoTxAssumption DEF IInv, RegistryTypeOK
<1>2. /\ Len(active') = Len(active) - 1
      /\ \A i \in 1 .. (Len(active) - 1) : active'[i] = active[i]
  <2>1. active' = SubSeq(active, 1, Len(active) - 1)
    BY EndedIsFront
  <2>2. /\ Len(SubSeq(active, 1, Len(active) - 1)) = Len(active) - 1
        /\ \A i \in 1 .. (Len(active) - 1) : SubSeq(active, 1, Len(active) - 1)[i] = active[i]
    BY <1>1, FrontFacts
  <2>3. QED BY <2>1, <2>2
<1>3. ASSUME NEW j \in 1 .. Len(active')
      PROVE  kind'[active'[j]] = IF j = 1 THEN "direct" ELSE "guard"
  <2>1. j \in 1 .. Len(active) /\ Len(active) \in 1 .. Len(active) /\ j # Len(active) /\ active'[j] = active[j]
    BY <1>1, <1>2
  <2>2. active[j] # t /\ active[j] \in Tx
    BY <1>1, <2>1 DEF IInv, Distinct
  <2>3. QED BY <2>1, <2>2 DEF CopyShape
<1>4. ASSUME NEW u \in Tx, ~reg'[u] PROVE prev'[u] = NoTx /\ kind'[u] # "guard"
  BY <1>4 DEF CopyShape, IInv, RegistryTypeOK
<1>5. QED BY <1>3, <1>4 DEF CopyShape

LEMMA FinishShape ==
  ASSUME IInv, CopyShape, ~OutOfOrder, NEW t \in Tx, Finish(t), NeverCrashes'
  PROVE  CopyShape' /\ \A u \in Tx : reg[u] => u = t
<1>1. reg[t] /\ current = t /\ kind[t] # "guard" /\ Reset(t) /\ UNCHANGED << kind, prev >>
  BY DEF Finish, Crash, NeverCrashes, TransactionKinds
<1>2. prev[t] = NoTx /\ \A u \in Tx : reg[u] => u = t
  BY <1>1, BottomIsDirect
<1>3. CopyShape'
  BY <1>1, <1>2, ResetShape DEF Reset
<1>4. QED BY <1>2, <1>3

LEMMA DestroyShape ==
  ASSUME IInv, CopyShape, NEW t \in Tx, Destroy(t)
  PROVE  CopyShape'
<1>1. /\ kind' = [kind EXCEPT ![t] = "none"] /\ prev' = [prev EXCEPT ![t] = NoTx]
      /\ dying = t
  BY DEF Destroy
<1>2. /\ kind'[t] = "none" /\ prev'[t] = NoTx
      /\ \A u \in Tx : u # t => kind'[u] = kind[u] /\ prev'[u] = prev[u]
  BY <1>1 DEF IInv, RegistryTypeOK
<1>3. CASE reg[t]
  <2>1. \A u \in Tx : prev[u] # t
    BY <1>1, NoTxAssumption DEF IInv, Owned
  <2>2. current = t
    BY <1>3, <2>1, UnreferencedIsTop
  <2>3. QED BY <1>2, <1>3, <2>2, ResetShape DEF Destroy, Reset
<1>4. CASE ~reg[t]
  <2>1. UNCHANGED << reg, active >>
    BY <1>4 DEF Destroy
  <2>2. \A j \in 1 .. Len(active) : active[j] \in Tx /\ active[j] # t
    BY <1>4 DEF IInv, RegistryTypeOK, CurrentIsTop
  <2>3. \A j \in 1 .. Len(active') : kind'[active'[j]] = IF j = 1 THEN "direct" ELSE "guard"
    BY <1>2, <2>1, <2>2 DEF CopyShape
  <2>4. QED BY <1>2, <2>1, <2>3 DEF CopyShape
<1>5. QED BY <1>3, <1>4

\* A guard goes on top of whichever object is current.
LEMMA GuardConstructs ==
  ASSUME ~OutOfOrder, NEW p \in Tx, NEW t \in Tx, Guard(p, t), NeverCrashes', IInv
  PROVE  Construct(t, "guard") /\ Running /\ current # NoTx
<1>1. reg[p]
  BY DEF Guard
<1>2. Construct(t, "guard") /\ Running
  BY DEF Guard, Crash, NeverCrashes
<1>3. current # NoTx
  <2>1. PICK i \in 1 .. Len(active) : active[i] = p
    BY <1>1 DEF IInv, CurrentIsTop
  <2>2. active # <<>>
    BY <2>1
  <2>3. QED BY <2>2, TopFacts
<1>4. QED BY <1>2, <1>3

-----------------------------------------------------------------------------
(* Who is in the middle of a COPY.                                         *)

LEMMA GoodFacts ==
  ASSUME OInv, NEW h \in Tx, Good(h)
  PROVE  /\ copier = h /\ Copying(pg) /\ kind[h] = "guard" /\ reg[h] /\ held[h]
         /\ current # NoTx /\ reg[current]
         /\ current = h \/ prev[current] = h
         /\ dying = NoTx =>
              \/ current = h
              \/ call # NoCall /\ call.obj = current /\ call.todo[1] = "send"
<1>1. copier = h /\ Copying(pg)
  BY DEF OInv, Ownership, GoodIsOwn, Copying
<1>2. kind[h] = "guard" /\ held[h]
  BY DEF OInv, Ownership, Guarded, Good
<1>3. reg[h]
  BY <1>2 DEF OInv, CopyShape
<1>4. PICK i \in 1 .. Len(active) : active[i] = h
  BY <1>3 DEF OInv, IInv, CurrentIsTop
<1>5. active # <<>>
  BY <1>4
<1>6. current # NoTx /\ reg[current]
  BY <1>5, TopFacts DEF OInv
<1>7. \/ current = h
      \/ /\ prev[current] = h
         /\ \/ current = dying
            \/ call # NoCall /\ call.obj = current /\ call.todo[1] = "send"
  BY DEF OInv, Ownership, GoodIsTop
<1>8. QED BY <1>1, <1>2, <1>3, <1>6, <1>7

\* While the current object talks to libpq beyond the first send(), and when
\* that is accepted, nobody is in the middle of a COPY.
LEMMA TalkersAreAlone ==
  ASSUME OInv, InCall, NEW c, Calling(c), current = call.obj,
         c # "send" \/ pg.async = "idle"
  PROVE  \A h \in Tx : ~Good(h)
<1>1. SUFFICES ASSUME NEW h \in Tx, Good(h)
               PROVE  FALSE
  OBVIOUS
<1>2. call # NoCall /\ call.todo[1] = c
  BY Now DEF OInv, Calling, NoCall
<1>3. dying = NoTx
  BY <1>2 DEF OInv, Ownership, Talking
<1>4. h # call.obj
  BY <1>1, <1>2 DEF Good
<1>5. c = "send" /\ Copying(pg)
  BY <1>1, <1>2, <1>3, <1>4, GoodFacts
<1>6. QED BY <1>5 DEF Copying

\* Of the objects nothing changes but that some may no longer be in a COPY.
LEMMA FewerAreGood ==
  ASSUME OInv, \A h \in Tx : Good(h)' => Good(h) /\ role'[h] = role[h],
         copier' = copier, pg'.async = pg.async,
         \A h \in Tx : Good(h)' =>
           \/ current' = h
           \/ /\ current' # NoTx /\ prev'[current'] = h
              /\ \/ current' = dying'
                 \/ call' # NoCall /\ call'.obj = current' /\ call'.todo[1] = "send"
  PROVE  GoodIsOwn' /\ GoodIsTop'
<1>1. GoodIsTop'
  BY DEF GoodIsTop
<1>2. GoodIsOwn'
  BY DEF GoodIsOwn, OInv, Ownership
<1>3. QED BY <1>1, <1>2

LEMMA NobodyIsGood ==
  ASSUME \A h \in Tx : ~Good(h)'
  PROVE  GoodIsOwn' /\ GoodIsTop'
BY DEF GoodIsOwn, GoodIsTop

\* The end of a method: it leaves the objects alone or gives up one guard.
LEMMA EndFacts ==
  ASSUME OInv, InCall, NEW thrown, End(thrown)
  PROVE  /\ call' = NoCall /\ UNCHANGED << kind, reg, prev, current, active >>
         /\ failed' = IF thrown = "none" THEN failed ELSE failed \cup {call.obj}
         /\ \A h \in Tx : h # call.obj => role'[h] = role[h] /\ held'[h] = held[h]
         /\ IF GivesUpGuard(thrown)
              THEN /\ role'[call.obj] = "none"
                   /\ dying' = IF \E u \in Tx : prev[u] = call.obj THEN NoTx ELSE call.obj
              ELSE role' = role /\ held' = held /\ dying' = dying
<1>1. call.obj \in Tx /\ call' = NoCall
  BY DEF InCall, End
<1>2. failed' = IF thrown = "none" THEN failed ELSE failed \cup {call.obj}
  BY DEF End, Finished
<1>3. CASE GivesUpGuard(thrown)
  <2>1. Drop(call.obj) /\ role' = [role EXCEPT ![call.obj] = "none"]
    BY <1>3 DEF End
  <2>2. QED
    BY <1>1, <1>2, <1>3, <2>1 DEF Drop, OInv, CInv, CopyTypeOK, IInv, RegistryTypeOK
<1>4. CASE ~GivesUpGuard(thrown)
  BY <1>1, <1>2, <1>4 DEF End, registryVars
<1>5. QED BY <1>3, <1>4

LEMMA EndShape ==
  ASSUME OInv, InCall, NEW thrown, End(thrown)
  PROVE  CopyShape' /\ Guarded' /\ Talking'
<1>1. CopyShape'
  BY EndFacts DEF OInv, CopyShape
<1>2. Guarded'
  <2>1. ASSUME NEW h \in Tx, role'[h] # "none" PROVE held'[h] /\ kind'[h] = "guard"
    <3>1. role'[h] = role[h] /\ held'[h] = held[h] /\ kind'[h] = kind[h]
      BY <2>1, EndFacts
    <3>2. QED BY <2>1, <3>1 DEF OInv, Ownership, Guarded
  <2>2. QED BY <2>1 DEF Guarded
<1>3. Talking'
  BY EndFacts DEF Talking
<1>4. QED BY <1>1, <1>2, <1>3

\* A method throws: its object is not in a COPY any more; a constructor that
\* libpq has refused takes its guard away again.
LEMMA ThrownIsOwn ==
  ASSUME OInv, InCall, NEW c, Calling(c), NEW thrown, End(thrown), thrown # "none",
         \/ current = call.obj /\ c # "send"
         \/ pg' = pg /\ copier' = copier
  PROVE  GoodIsOwn' /\ GoodIsTop'
<1>1. /\ call # NoCall /\ call.todo[1] = c /\ call.obj \in Tx
  BY Now DEF OInv, Calling, NoCall, InCall
<1>2. dying = NoTx
  BY <1>1 DEF OInv, Ownership, Talking
<1>3. \A h \in Tx : Good(h)' => Good(h) /\ role'[h] = role[h] /\ h # call.obj
  BY EndFacts DEF Good
<1>4. CASE current = call.obj /\ c # "send"
  BY <1>3, <1>4, TalkersAreAlone, NobodyIsGood
<1>5. CASE pg' = pg /\ copier' = copier
  <2>1. ASSUME NEW h \in Tx, Good(h)'
        PROVE  \/ current' = h
               \/ current' # NoTx /\ prev'[current'] = h /\ current' = dying'
    <3>1. Good(h) /\ h # call.obj /\ UNCHANGED << prev, current >>
      BY <1>3, <2>1, EndFacts
    <3>2. CASE current = h
      BY <3>1, <3>2
    <3>3. CASE current # h
      <4>1. current # NoTx /\ prev[current] = h /\ reg[current] /\ call.obj = current /\ c = "send"
        BY <1>1, <1>2, <3>1, <3>3, GoodFacts
      <4>2. kind[current] = "guard"
        <5>1. prev[current] # NoTx
          BY <4>1, NoTxAssumption
        <5>2. QED BY <1>1, <4>1, <5>1, BottomIsDirect DEF OInv
      <4>3. call.op \in {"reader", "writer"}
        <5>1. WindsUp(pg, call.todo) \/ GoesOn(pg, call.op, call.todo)
          BY <1>1 DEF OInv, CInv, Conversation
        <5>2. call.op \in {"send", "execute", "reader", "writer"}
          BY <1>1, <4>1, <5>1 DEF WindsUp, GoesOn, Cancels, Then, Fatals, Nulls
        <5>3. call.op \notin {"send", "execute"}
          BY <1>1, <4>1, <4>2 DEF OInv, Ownership, Talking
        <5>4. QED BY <5>2, <5>3
      <4>4. \A u \in Tx : prev[u] # call.obj
        BY <4>1, TopIsUnreferenced DEF OInv
      <4>5. dying' = call.obj
        BY <4>3, <4>4, EndFacts DEF GivesUpGuard
      <4>6. QED BY <3>1, <4>1, <4>5
    <3>4. QED BY <3>2, <3>3
  <2>2. QED BY <1>3, <1>5, <2>1, FewerAreGood
<1>6. QED BY <1>4, <1>5

LEMMA SameObjects ==
  ASSUME OInv, UNCHANGED << registryVars, role >>
  PROVE  CopyShape' /\ Guarded'
BY DEF OInv, Ownership, CopyShape, Guarded, registryVars

\* A call has returned.  The constructor of a reader or writer that returns has
\* found the COPY that its own statement has begun.
LEMMA ProceedIsOwn ==
  ASSUME OInv, InCall, NEW c, Calling(c), NEW todo \in Seq(Calls), Proceed(todo),
         current = call.obj,
         c # "send" \/ pg.async = "idle",
         copier' = IF c = "send" THEN call.obj ELSE copier,
         Outcome'
  PROVE  CopyShape' /\ Ownership'
<1>1. /\ call # NoCall /\ call.todo[1] = c /\ call.obj \in Tx
  BY Now DEF OInv, Calling, NoCall, InCall
<1>2. \A h \in Tx : ~Good(h)
  BY TalkersAreAlone
<1>3. call.op \in {"reader", "writer"} =>
        role[call.obj] = call.op /\ copier' = call.obj
  BY <1>1 DEF OInv, Ownership, Talking
<1>4. CASE todo # <<>>
  <2>1. call' = [call EXCEPT !.todo = todo] /\ UNCHANGED << registryVars, role, failed >>
    BY <1>4 DEF Proceed
  <2>2. call'.op = call.op /\ call'.obj = call.obj /\ call' # NoCall
    BY <1>4, <2>1 DEF InCall, NoCall
  <2>3. \A h \in Tx : ~Good(h)'
    BY <1>1, <1>2, <2>1, <2>2 DEF Good
  <2>4. Talking'
    <3>1. /\ dying' = dying /\ current' = current /\ role' = role /\ kind' = kind
      BY <2>1 DEF registryVars
    <3>2. QED BY <1>1, <1>3, <2>2, <3>1 DEF OInv, Ownership, Talking
  <2>5. QED BY <2>1, <2>3, <2>4, SameObjects, NobodyIsGood DEF Ownership
<1>5. CASE todo = <<>>
  <2>1. End("none")
    BY <1>5 DEF Proceed
  <2>2. /\ call' = NoCall /\ current' = current /\ failed' = failed
        /\ last'.op = call.op /\ last'.thrown = "none" /\ last' = [op |-> call.op, thrown |-> "none"]
    BY <2>1, EndFacts DEF End, Finished
  <2>3. ASSUME NEW h \in Tx, Good(h)'
        PROVE  /\ current' = h /\ copier' = h
               /\ pg'.async = IF role'[h] = "reader" THEN "copy_out" ELSE "copy_in"
    <3>1. h = call.obj
      <4>1. h # call.obj => role'[h] = role[h]
        BY <2>1, EndFacts
      <4>2. QED BY <1>2, <2>2, <2>3, <4>1 DEF Good
    <3>2. ~GivesUpGuard("none") /\ role' = role
      BY <2>1, <2>3, <3>1, EndFacts DEF Good
    <3>3. call.op \in {"reader", "writer"}
      <4>1. call.op \in Methods
        BY DEF InCall
      <4>2. call.op \notin {"read", "commit", "unwind"}
        BY <3>2 DEF GivesUpGuard
      <4>3. call.op \notin {"send", "execute", "get_result", "row", "insert"}
        BY <1>1, <2>3, <3>1, <3>2 DEF Good, OInv, Ownership, Talking
      <4>4. QED BY <4>1, <4>2, <4>3 DEF Methods
    <3>4. /\ call.op = "reader" => Last("reader", "none")'
          /\ call.op = "writer" => Last("writer", "none")'
      BY <2>2 DEF Last
    <3>5. pg'.async = IF call.op = "reader" THEN "copy_out" ELSE "copy_in"
      BY <3>3, <3>4 DEF Outcome
    <3>6. QED BY <1>3, <2>2, <3>1, <3>2, <3>3, <3>5
  <2>4. GoodIsOwn' /\ GoodIsTop'
    BY <2>3 DEF GoodIsOwn, GoodIsTop
  <2>5. QED BY <2>1, <2>4, EndShape DEF Ownership
<1>6. QED BY <1>4, <1>5

LEMMA ThrownKeepsOwnership ==
  ASSUME OInv, InCall, NEW c, Calling(c), NEW thrown, End(thrown), thrown # "none",
         \/ current = call.obj /\ c # "send"
         \/ pg' = pg /\ copier' = copier
  PROVE  CopyShape' /\ Ownership'
BY EndShape, ThrownIsOwn DEF Ownership

LEMMA ReceiveIsOwn ==
  ASSUME OInv, NEW c, NEW todo \in Seq(Calls), Receive(c, todo), Outcome',
         c # "send", current = call.obj
  PROVE  CopyShape' /\ Ownership'
<1>1. Calling(c) /\ InCall /\ todo \o Rest \in Seq(Calls) /\ copier' = copier
  BY Now DEF Receive, OInv
<1>2. CASE Proceed(todo \o Rest)
  <2>1. PICK left \in Seq(Calls) : left = todo \o Rest
    BY <1>1
  <2>2. Proceed(left)
    BY <1>2, <2>1
  <2>3. QED BY <1>1, <2>2, ProceedIsOwn
<1>3. CASE \E thrown \in {"other", "callback"} : End(thrown)
  BY <1>1, <1>3, ThrownKeepsOwnership
<1>4. QED BY <1>2, <1>3 DEF Receive, TimesOut

\* The calls that do not look whether their object is current
LEMMA OthersAreCurrent ==
  ASSUME OInv, NEW c, Calling(c), c \notin {"send", "tx_result"}
  PROVE  InCall /\ Rest \in Seq(Calls) /\ current = call.obj
<1>1. call # NoCall /\ call.todo[1] = c /\ InCall /\ Rest \in Seq(Calls)
  BY Now DEF OInv, Calling, NoCall
<1>2. QED BY <1>1 DEF OInv, Ownership, Talking

LEMMA GetResultIsOwn ==
  ASSUME OInv, GetResult, Outcome'
  PROVE  CopyShape' /\ Ownership'
<1>1. Result(pg) \in Results \cup {"null"}
  BY LibpqKeepsTypes DEF OInv, CInv, CopyTypeOK
<1>2. CASE TxResult
  <2>1. CASE IsCurrent(call.obj) /\ Receive("tx_result", AfterTxResult(Result(pg)))
    BY <1>1, <2>1, SwitchesAreCalls, ReceiveIsOwn DEF IsCurrent
  <2>2. CASE Calling("tx_result") /\ End("order") /\ UNCHANGED << pg, copier >>
    BY <2>2, Now, ThrownKeepsOwnership DEF OInv
  <2>3. QED BY <1>2, <2>1, <2>2 DEF TxResult
<1>3. ASSUME NEW c \in {"reader_result", "writer_result", "read_result", "fatal", "null"},
             NEW todo \in Seq(Calls), Receive(c, todo)
      PROVE  CopyShape' /\ Ownership'
  <2>1. current = call.obj
    BY <1>3, OthersAreCurrent DEF Receive
  <2>2. QED BY <1>3, <2>1, ReceiveIsOwn
<1>4. CASE Receive("reader_result", AfterReaderResult(Result(pg)))
  BY <1>1, <1>3, <1>4, SwitchesAreCalls
<1>5. CASE Receive("writer_result", AfterWriterResult(Result(pg)))
  BY <1>1, <1>3, <1>5, SwitchesAreCalls
<1>6. CASE Receive("read_result", AfterReadResult(Result(pg)))
  BY <1>1, <1>3, <1>6, SwitchesAreCalls
<1>7. CASE Receive("fatal", AfterFatal(Result(pg)))
  BY <1>1, <1>3, <1>7, SwitchesAreCalls
<1>8. CASE Receive("null", AfterNull(Result(pg)))
  BY <1>1, <1>3, <1>8, SwitchesAreCalls
<1>9. QED BY <1>2, <1>4, <1>5, <1>6, <1>7, <1>8 DEF GetResult

\* Everything else that a running method does
LEMMA StepIsOwn ==
  ASSUME OInv, Step, Outcome'
  PROVE  CopyShape' /\ Ownership'
<1>1. ASSUME NEW c \in {"cancel", "clear", "throw", "put_end", "put_error"}, Calling(c),
             copier' = copier,
             Proceed(Rest) \/ \E thrown \in {"other", "callback", "cancel"} : End(thrown)
      PROVE  CopyShape' /\ Ownership'
  <2>1. InCall /\ Rest \in Seq(Calls) /\ current = call.obj
    BY <1>1, OthersAreCurrent
  <2>2. CASE Proceed(Rest)
    <3>1. PICK left \in Seq(Calls) : left = Rest
      BY <2>1
    <3>2. Proceed(left)
      BY <2>2, <3>1
    <3>3. QED BY <1>1, <2>1, <3>2, ProceedIsOwn
  <2>3. CASE \E thrown \in {"other", "callback", "cancel"} : End(thrown)
    BY <1>1, <2>1, <2>3, ThrownKeepsOwnership
  <2>4. QED BY <1>1, <2>2, <2>3
<1>2. CASE SendParams
  <2>1. Calling("send") /\ InCall /\ Rest \in Seq(Calls)
    BY <1>2, Now DEF SendParams, OInv
  <2>2. CASE IsCurrent(call.obj) /\ pg.async = "idle"
    <3>1. Proceed(Rest) /\ copier' = call.obj /\ current = call.obj
      BY <1>2, <2>2 DEF SendParams, IsCurrent
    <3>2. PICK left \in Seq(Calls) : left = Rest
      BY <2>1
    <3>3. Proceed(left)
      BY <3>1, <3>2
    <3>4. QED BY <2>1, <2>2, <3>1, <3>3, ProceedIsOwn
  <2>3. CASE ~(IsCurrent(call.obj) /\ pg.async = "idle")
    <3>1. UNCHANGED << pg, copier >> /\ \E thrown \in {"other", "order"} : End(thrown)
      BY <1>2, <2>3 DEF SendParams
    <3>2. QED BY <2>1, <3>1, ThrownKeepsOwnership
  <2>4. QED BY <2>2, <2>3
<1>3. CASE Cancel
  BY <1>1, <1>3 DEF Cancel
<1>4. CASE ClearCopyData
  BY <1>1, <1>4 DEF ClearCopyData, TimesOut
<1>5. CASE Throw
  BY <1>1, <1>5 DEF Throw
<1>6. ASSUME NEW c \in {"put_end", "put_error"}, PutCopyEnd(c) PROVE CopyShape' /\ Ownership'
  BY <1>1, <1>6 DEF PutCopyEnd, TimesOut
<1>7. QED BY <1>2, <1>3, <1>4, <1>5, <1>6, GetResultIsOwn DEF Step

-----------------------------------------------------------------------------
(* The program calls a method, or lets go of an object.                    *)

\* While no method runs and no destructor, the one in a COPY is current.
LEMMA IdleFacts ==
  ASSUME OInv, Ready
  PROVE  /\ call = NoCall /\ dying = NoTx
         /\ \A h \in Tx : Good(h) => current = h
BY GoodFacts DEF Ready, Running

LEMMA LifetimesAreOwn ==
  ASSUME OInv, ~OutOfOrder, IInv', NEW t \in Tx, BeginDirect(t) \/ FinishDirect(t)
  PROVE  CopyShape' /\ Ownership'
<1>1. /\ Ready /\ UNCHANGED << pg, role, call, copier, failed >>
      /\ Begin(t, "direct") \/ Finish(t)
  BY DEF BeginDirect, FinishDirect, historyVars
<1>2. call = NoCall /\ dying = NoTx
  BY <1>1, IdleFacts
<1>3. Talking'
  BY <1>1, <1>2 DEF Talking
<1>4. CASE Begin(t, "direct")
  <2>1. Construct(t, "direct") /\ current = NoTx
    BY <1>4 DEF Begin
  <2>2. CopyShape'
    BY <2>1, ConstructShape DEF OInv
  <2>3. Guarded'
    <3>1. ~held[t]
      BY <2>1 DEF Construct, OInv, IInv, Owned
    <3>2. \A u \in Tx : u # t => kind'[u] = kind[u] /\ held'[u] = held[u]
      BY <2>1 DEF Construct, OInv, IInv, RegistryTypeOK
    <3>3. QED BY <1>1, <3>1, <3>2 DEF OInv, Ownership, Guarded
  <2>4. \A h \in Tx : ~Good(h)'
    <3>1. \A h \in Tx : ~Good(h)
      BY <2>1, GoodFacts
    <3>2. QED BY <1>1, <3>1 DEF Good
  <2>5. QED BY <1>3, <2>2, <2>3, <2>4, NobodyIsGood DEF Ownership
<1>5. CASE Finish(t)
  <2>1. CopyShape' /\ \A u \in Tx : reg[u] => u = t
    BY <1>5, FinishShape DEF OInv, IInv
  <2>2. kind[t] # "guard" /\ UNCHANGED << kind, held >>
    BY <1>5 DEF Finish, Crash, TransactionKinds
  <2>3. Guarded'
    BY <1>1, <2>2 DEF OInv, Ownership, Guarded
  <2>4. \A h \in Tx : ~Good(h)'
    <3>1. \A h \in Tx : ~Good(h)
      BY <2>1, <2>2, GoodFacts
    <3>2. QED BY <1>1, <3>1 DEF Good
  <2>5. QED BY <1>3, <2>1, <2>3, <2>4, NobodyIsGood DEF Ownership
<1>6. QED BY <1>1, <1>4, <1>5

\* Statements are sent by direct transactions: not by the one in a COPY.
LEMMA RequestsAreOwn ==
  ASSUME OInv, NEW t \in Tx, Requests(t)
  PROVE  CopyShape' /\ Ownership'
<1>1. PICK op \in {"send", "execute", "get_result"},
           todo \in { << "send" >>, << "send", "tx_result" >>, << "tx_result" >> } :
        Request(t, op, todo)
  BY DEF Requests
<1>2. /\ Ready /\ kind[t] = "direct" /\ UNCHANGED << registryVars, pg, role, copier, failed >>
      /\ call' = [op |-> op, obj |-> t, todo |-> todo]
  BY <1>1 DEF Request, Start, historyVars
<1>3. call'.op = op /\ call'.obj = t /\ call'.todo = todo /\ call' # NoCall
  BY <1>2 DEF NoCall
<1>4. call = NoCall /\ dying = NoTx /\ \A h \in Tx : Good(h) => current = h
  BY <1>2, IdleFacts
<1>5. todo[1] \in {"send", "tx_result"}
  OBVIOUS
<1>6. role[t] = "none"
  BY <1>2 DEF OInv, Ownership, Guarded
<1>7. Talking'
  BY <1>2, <1>3, <1>4, <1>5, <1>6 DEF Talking, registryVars
<1>8. \A h \in Tx : Good(h)' => Good(h)
  BY <1>2, <1>4 DEF Good
<1>9. GoodIsOwn' /\ GoodIsTop'
  BY <1>2, <1>4, <1>8, FewerAreGood DEF registryVars
<1>10. QED BY <1>2, <1>7, <1>9, SameObjects DEF Ownership

\* Below a new reader or writer may be one in a COPY, in which libpq will refuse
\* the statement.
LEMMA NewIsOwn ==
  ASSUME OInv, ~OutOfOrder, IInv', NEW p \in Tx, NEW g \in Tx,
         NewReader(p, g) \/ NewWriter(p, g)
  PROVE  CopyShape' /\ Ownership'
<1>1. PICK r \in {"reader", "writer"}, todo \in { << "send", "reader_result" >>, << "send", "writer_result" >> } :
        /\ role' = [role EXCEPT ![g] = r]
        /\ Start(r, g, todo)
  BY DEF NewReader, NewWriter
<1>2. Ready /\ Guard(p, g) /\ failed' = failed \ {g} /\ UNCHANGED << pg, copier >>
  BY DEF NewReader, NewWriter
<1>3. Construct(g, "guard") /\ current # NoTx
  BY <1>2, GuardConstructs DEF OInv, IInv
<1>4. call = NoCall /\ dying = NoTx /\ \A h \in Tx : Good(h) => current = h
  BY <1>2, IdleFacts
<1>5. call'.op = r /\ call'.obj = g /\ call'.todo[1] = "send" /\ call' # NoCall
  BY <1>1 DEF Start, NoCall
<1>6. /\ role'[g] = r /\ \A u \in Tx : u # g => role'[u] = role[u]
      /\ held'[g] /\ \A u \in Tx : u # g => held'[u] = held[u]
      /\ kind'[g] = "guard" /\ \A u \in Tx : u # g => kind'[u] = kind[u]
      /\ current' = g /\ prev'[g] = current /\ dying' = NoTx
  BY <1>1, <1>3, <1>4 DEF Construct, OInv, CInv, CopyTypeOK, IInv, RegistryTypeOK
<1>7. CopyShape'
  BY <1>3, ConstructShape DEF OInv
<1>8. Guarded'
  BY <1>6 DEF OInv, Ownership, Guarded
<1>9. Talking'
  BY <1>5, <1>6 DEF Talking
<1>10. \A h \in Tx : Good(h)' => Good(h) /\ role'[h] = role[h]
  BY <1>2, <1>4, <1>5, <1>6 DEF Good
<1>11. GoodIsOwn' /\ GoodIsTop'
  <2>1. current' # NoTx
    BY <1>6, NoTxAssumption
  <2>2. QED BY <1>2, <1>4, <1>5, <1>6, <1>10, <2>1, FewerAreGood
<1>12. QED BY <1>7, <1>8, <1>9, <1>11 DEF Ownership

\* The methods of a reader or writer: it is the current object, so no other one
\* is in a COPY.
LEMMA ReadIsOwn ==
  ASSUME OInv, ~OutOfOrder, NEW g \in Tx, Read(g)
  PROVE  CopyShape' /\ Ownership'
<1>1. Ready /\ current = g /\ role[g] = "reader" /\ UNCHANGED << registryVars, role, copier >>
  BY DEF Read, Usable
<1>2. call = NoCall /\ dying = NoTx /\ \A h \in Tx : Good(h) => h = g
  BY <1>1, IdleFacts
<1>3. CASE Start("read", g, << "read_result" >>) /\ failed' = failed
  <2>1. call'.op = "read" /\ call'.obj = g /\ call'.todo[1] = "read_result" /\ call' # NoCall
    BY <1>3 DEF Start, NoCall
  <2>2. \A h \in Tx : ~Good(h)'
    BY <1>1, <1>2, <1>3, <2>1 DEF Good
  <2>3. Talking'
    BY <1>1, <1>2, <2>1 DEF Talking, registryVars
  <2>4. QED BY <1>1, <2>2, <2>3, SameObjects, NobodyIsGood DEF Ownership
<1>4. ASSUME NEW thrown, thrown # "none", Finished("row", g, thrown), UNCHANGED call
      PROVE  CopyShape' /\ Ownership'
  <2>1. failed' = failed \cup {g}
    BY <1>4 DEF Finished
  <2>2. \A h \in Tx : ~Good(h)'
    BY <1>1, <1>2, <1>4, <2>1 DEF Good
  <2>3. Talking'
    BY <1>2, <1>4 DEF Talking
  <2>4. QED BY <1>1, <2>2, <2>3, SameObjects, NobodyIsGood DEF Ownership
<1>5. CASE pg' = [pg EXCEPT !.rows = @ - 1] /\ Finished("row", g, "none") /\ UNCHANGED call
  <2>1. failed' = failed /\ pg'.async = pg.async
    BY <1>5 DEF Finished, OInv, CInv, CopyTypeOK, Connections
  <2>2. \A h \in Tx : Good(h)' => Good(h)
    BY <1>1, <1>5, <2>1 DEF Good
  <2>3. Talking'
    BY <1>2, <1>5 DEF Talking
  <2>4. GoodIsOwn' /\ GoodIsTop'
    BY <1>1, <1>2, <2>1, <2>2, FewerAreGood DEF registryVars
  <2>5. QED BY <1>1, <2>3, <2>4, SameObjects DEF Ownership
<1>6. QED BY <1>3, <1>4, <1>5 DEF Read

LEMMA InsertIsOwn ==
  ASSUME OInv, ~OutOfOrder, NEW g \in Tx, Insert(g)
  PROVE  CopyShape' /\ Ownership'
<1>1. /\ Ready /\ current = g /\ role[g] = "writer"
      /\ UNCHANGED << registryVars, role, call, copier >>
  BY DEF Insert, Usable
<1>2. call = NoCall /\ dying = NoTx /\ \A h \in Tx : Good(h) => h = g
  BY <1>1, IdleFacts
<1>3. Talking'
  BY <1>1, <1>2 DEF Talking
<1>4. ASSUME NEW thrown, thrown # "none", Finished("insert", g, thrown)
      PROVE  CopyShape' /\ Ownership'
  <2>1. failed' = failed \cup {g}
    BY <1>4 DEF Finished
  <2>2. \A h \in Tx : ~Good(h)'
    BY <1>1, <1>2, <2>1 DEF Good
  <2>3. QED BY <1>1, <1>3, <2>2, SameObjects, NobodyIsGood DEF Ownership
<1>5. CASE UNCHANGED pg /\ Finished("insert", g, "none")
  <2>1. failed' = failed
    BY <1>5 DEF Finished
  <2>2. \A h \in Tx : Good(h)' => Good(h)
    BY <1>1, <2>1 DEF Good
  <2>3. GoodIsOwn' /\ GoodIsTop'
    BY <1>1, <1>2, <1>5, <2>2, FewerAreGood DEF registryVars
  <2>4. QED BY <1>1, <1>3, <2>3, SameObjects DEF Ownership
<1>6. QED BY <1>4, <1>5 DEF Insert

LEMMA CommitIsOwn ==
  ASSUME OInv, ~OutOfOrder, NEW g \in Tx, CommitWriter(g)
  PROVE  CopyShape' /\ Ownership'
<1>1. /\ Ready /\ current = g /\ role[g] = "writer"
      /\ Start("commit", g, << "put_end", "tx_result" >>)
      /\ UNCHANGED << registryVars, role, copier, failed >>
  BY DEF CommitWriter, Usable
<1>2. call = NoCall /\ dying = NoTx /\ \A h \in Tx : Good(h) => h = g
  BY <1>1, IdleFacts
<1>3. call'.op = "commit" /\ call'.obj = g /\ call'.todo[1] = "put_end" /\ call' # NoCall
  BY <1>1 DEF Start, NoCall
<1>4. \A h \in Tx : ~Good(h)'
  BY <1>1, <1>2, <1>3 DEF Good
<1>5. Talking'
  BY <1>1, <1>2, <1>3 DEF Talking, registryVars
<1>6. QED BY <1>1, <1>4, <1>5, SameObjects, NobodyIsGood DEF Ownership

\* A reader or writer that is let go of is not in a COPY; it need not be the
\* one that is.
LEMMA ReleaseIsOwn ==
  ASSUME OInv, NEW t \in Tx, Release(t)
  PROVE  CopyShape' /\ Ownership'
<1>1. Ready /\ UNCHANGED << pg, copier, failed >>
  BY DEF Release, historyVars
<1>2. call = NoCall /\ dying = NoTx /\ \A h \in Tx : Good(h) => current = h
  BY <1>1, IdleFacts
<1>3. CASE Start("unwind", t, << "tx_result" >>) /\ UNCHANGED << registryVars, role >>
  <2>1. call'.op = "unwind" /\ call'.obj = t /\ call'.todo[1] = "tx_result" /\ call' # NoCall
    BY <1>3 DEF Start, NoCall
  <2>2. \A h \in Tx : Good(h)' => Good(h)
    BY <1>1, <1>2, <1>3 DEF Good
  <2>3. GoodIsOwn' /\ GoodIsTop'
    BY <1>1, <1>2, <1>3, <2>2, FewerAreGood DEF registryVars
  <2>4. Talking'
    BY <1>2, <1>3, <2>1 DEF Talking, registryVars
  <2>5. QED BY <1>3, <2>3, <2>4, SameObjects DEF Ownership
<1>4. CASE Drop(t) /\ role' = [role EXCEPT ![t] = "none"] /\ UNCHANGED call
  <2>1. /\ UNCHANGED << kind, reg, prev, current, active >>
        /\ role'[t] = "none" /\ \A u \in Tx : u # t => role'[u] = role[u] /\ held'[u] = held[u]
    BY <1>4 DEF Drop, OInv, CInv, CopyTypeOK, IInv, RegistryTypeOK
  <2>2. CopyShape'
    BY <2>1 DEF OInv, CopyShape
  <2>3. Guarded'
    <3>1. ASSUME NEW u \in Tx, role'[u] # "none" PROVE held'[u] /\ kind'[u] = "guard"
      <4>1. u # t /\ role'[u] = role[u] /\ held'[u] = held[u] /\ kind'[u] = kind[u]
        BY <2>1, <3>1
      <4>2. QED BY <3>1, <4>1 DEF OInv, Ownership, Guarded
    <3>2. QED BY <3>1 DEF Guarded
  <2>4. \A h \in Tx : Good(h)' => Good(h) /\ role'[h] = role[h]
    <3>1. ASSUME NEW h \in Tx, Good(h)' PROVE Good(h) /\ role'[h] = role[h]
      <4>1. h # t /\ role'[h] = role[h]
        BY <2>1, <3>1 DEF Good
      <4>2. QED BY <1>1, <1>2, <3>1, <4>1 DEF Good
    <3>2. QED BY <3>1
  <2>5. GoodIsOwn' /\ GoodIsTop'
    BY <1>1, <1>2, <2>1, <2>4, FewerAreGood
  <2>6. Talking'
    BY <1>2, <1>4 DEF Talking
  <2>7. QED BY <2>2, <2>3, <2>5, <2>6 DEF Ownership
<1>5. QED BY <1>3, <1>4 DEF Release

\* A destructor uncovers the one in a COPY, if any.
LEMMA DestructIsOwn ==
  ASSUME OInv, NEW t \in Tx, Destruct(t)
  PROVE  CopyShape' /\ Ownership'
<1>1. /\ Destroy(t) /\ dying = t /\ t # NoTx
      /\ UNCHANGED << pg, role, call, copier, failed, held >>
  BY NoTxAssumption DEF Destruct, Destroy, historyVars
<1>2. call = NoCall
  BY <1>1 DEF OInv, Ownership, Talking
<1>3. CopyShape'
  BY <1>1, DestroyShape DEF OInv
<1>4. ~held[t] /\ \A u \in Tx : prev[u] # t
  BY <1>1 DEF OInv, IInv, Owned
<1>5. kind' = [kind EXCEPT ![t] = "none"]
  BY <1>1 DEF Destroy
<1>6. Guarded'
  <2>1. ASSUME NEW u \in Tx, role'[u] # "none" PROVE held'[u] /\ kind'[u] = "guard"
    <3>1. held[u] /\ kind[u] = "guard"
      BY <1>1, <2>1 DEF OInv, Ownership, Guarded
    <3>2. u # t
      BY <1>4, <3>1
    <3>3. QED BY <1>1, <1>5, <3>1, <3>2 DEF OInv, IInv, RegistryTypeOK
  <2>2. QED BY <2>1 DEF Guarded
<1>7. Talking'
  BY <1>1, <1>2 DEF Talking
<1>8. \A h \in Tx : Good(h)' => Good(h) /\ role'[h] = role[h]
  BY <1>1 DEF Good
<1>9. ASSUME NEW h \in Tx, Good(h) PROVE current' = h
  <2>1. h # t /\ reg[h] /\ reg[current] /\ (current = h \/ prev[current] = h)
    BY <1>4, <1>9, GoodFacts
  <2>2. CASE reg[t]
    <3>1. current = t
      BY <1>4, <2>2, UnreferencedIsTop DEF OInv
    <3>2. current' = prev[t]
      BY <1>1, <2>2 DEF Destroy, Reset
    <3>3. QED BY <2>1, <3>1, <3>2
  <2>3. CASE ~reg[t]
    <3>1. current' = current
      BY <1>1, <2>3 DEF Destroy
    <3>2. current # t
      BY <2>1, <2>3
    <3>3. current = h
      BY <1>1, <1>2, <1>9, <3>2 DEF OInv, Ownership, GoodIsTop
    <3>4. QED BY <3>1, <3>3
  <2>4. QED BY <2>2, <2>3
<1>10. GoodIsOwn' /\ GoodIsTop'
  BY <1>1, <1>8, <1>9, FewerAreGood
<1>11. QED BY <1>3, <1>6, <1>7, <1>10 DEF Ownership

LEMMA ConnectionIsOwn ==
  ASSUME OInv, CancelNow \/ GetNotifications
  PROVE  CopyShape' /\ Ownership'
<1>1. Ready /\ UNCHANGED << registryVars, role, call, copier, failed >>
  BY DEF CancelNow, GetNotifications, historyVars
<1>2. call = NoCall /\ dying = NoTx /\ \A h \in Tx : Good(h) => current = h
  BY <1>1, IdleFacts
<1>3. \A h \in Tx : Good(h)' => Good(h)
  BY <1>1 DEF Good
<1>4. Talking'
  BY <1>1, <1>2 DEF Talking
<1>5. CASE \A h \in Tx : ~Good(h)
  BY <1>1, <1>3, <1>4, <1>5, SameObjects, NobodyIsGood DEF Ownership
<1>6. CASE \E h \in Tx : Good(h)
  <2>1. Copying(pg) /\ pg \in Connections(MaxRows) /\ InTurn(pg)
    BY <1>6, GoodFacts DEF OInv, CInv, CopyTypeOK
  <2>2. pg'.async = pg.async
    <3>1. CASE pg' \in Cancelled(pg)
      BY <2>1, <3>1, CancelledFacts
    <3>2. CASE pg' \in Parsed(pg)
      BY <2>1, <3>2, ParsedFacts DEF Copying
    <3>3. QED BY <3>1, <3>2 DEF CancelNow, GetNotifications
  <2>3. GoodIsOwn' /\ GoodIsTop'
    BY <1>1, <1>2, <1>3, <2>2, FewerAreGood DEF registryVars
  <2>4. QED BY <1>1, <1>4, <2>3, SameObjects DEF Ownership
<1>7. QED BY <1>5, <1>6

LEMMA NextIsOwn ==
  ASSUME OInv, ~OutOfOrder, Next
  PROVE  OInv'
<1>1. CInv'
  BY NextKeepsConversation DEF OInv
<1>2. IInv'
  <2>1. RegistryStep
    BY NextKeepsTypes DEF OInv, CInv
  <2>2. QED BY <2>1, NextIInv, StutterIInv DEF OInv, RegistryStep
<1>3. Outcome'
  BY <1>1 DEF CInv
<1>4. CopyShape' /\ Ownership'
  BY <1>2, <1>3, StepIsOwn, LifetimesAreOwn, RequestsAreOwn, NewIsOwn, ReadIsOwn, InsertIsOwn,
     CommitIsOwn, ReleaseIsOwn, DestructIsOwn, ConnectionIsOwn DEF Next
<1>5. QED BY <1>1, <1>2, <1>4 DEF OInv

LEMMA OwnershipAlways ==
  ASSUME ~OutOfOrder
  PROVE  Spec => []OInv
<1>1. Init /\ CInv => OInv
  <2> SUFFICES ASSUME Init, CInv PROVE OInv
    OBVIOUS
  <2>1. IInv
    BY InitIInv DEF Init
  <2>2. call = NoCall /\ Len(active) = 0
    BY DEF Init, RegistryInit
  <2>3. CopyShape
    BY <2>2 DEF Init, RegistryInit, CopyShape
  <2>4. Ownership
    BY <2>2 DEF Init, Ownership, Guarded, Talking, GoodIsOwn, GoodIsTop, Good
  <2>5. QED BY <2>1, <2>3, <2>4 DEF OInv
<1>2. OInv /\ CInv' /\ [Next]_vars => OInv'
  <2>1. ASSUME OInv, CInv', UNCHANGED vars PROVE OInv'
    <3>1. UNCHANGED << registryVars, pg, role, call, copier, failed >>
      BY <2>1 DEF vars, historyVars
    <3>2. IInv'
      BY <2>1, <3>1, StutterIInv DEF OInv
    <3>3. CopyShape' /\ Guarded'
      BY <2>1, <3>1, SameObjects
    <3>4. Talking'
      BY <2>1, <3>1 DEF OInv, Ownership, Talking, registryVars
    <3>5. GoodIsOwn' /\ GoodIsTop'
      <4>1. \A h \in Tx : Good(h)' => Good(h)
        BY <3>1 DEF Good
      <4>2. QED BY <2>1, <3>1, <4>1 DEF OInv, Ownership, GoodIsOwn, GoodIsTop, registryVars
    <3>6. QED BY <2>1, <3>2, <3>3, <3>4, <3>5 DEF OInv, Ownership
  <2>2. QED BY <2>1, NextIsOwn
<1>3. QED BY <1>1, <1>2, ConversationAlways, PTL DEF Spec

\* A reader or writer none of whose methods has thrown is in the middle of the
\* COPY that its own statement began, for any number of objects: on top of it
\* another one can be constructed, but libpq refuses its statement, and the
\* transaction below it cannot send one.
THEOREM CopyIsAlwaysOwn ==
  ASSUME ~OutOfOrder
  PROVE  Spec => []CopyIsOwn
<1>1. OInv => CopyIsOwn
  BY DEF OInv, Ownership, GoodIsOwn, Good, CopyIsOwn
<1>2. QED BY <1>1, OwnershipAlways, PTL
=============================================================================
