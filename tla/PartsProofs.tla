---------------------------- MODULE PartsProofs -----------------------------
(***************************************************************************)
(* What holds of the session, of pipeline mode and of the rows of a table  *)
(* for any number of statements, notifications, commands and rows.         *)
(*                                                                         *)
(* The session: handlers nest calls to any depth, so the invariant is      *)
(* about every call of the stack.  At most one of them has a transaction,  *)
(* which is why no other erases what the iterator of deallocate() points   *)
(* to.  A command may be sent from a handler while the call around it has  *)
(* its result but not the null; so what a call goes by is the result it    *)
(* has read, or else the last command, if it is its own.  When that is its *)
(* own answer and no other call is about its name, the name ends up as the *)
(* server has it.                                                          *)
(*                                                                         *)
(* Pipeline mode: the mode has an owner, and the calls implement the queue *)
(* of results (ResultQueue).  The queries that wait are those among the    *)
(* commands in libpq's queue, listed by a recursive function; what it does *)
(* at either end of the queue is proved first.                             *)
(***************************************************************************)
EXTENDS Session, PipelineMode, TableRows, DataProofs, TLAPS

-----------------------------------------------------------------------------
(* The session                                                             *)

Frames ==
  [ op      : Operations,
    name    : Statements \cup {NoName},
    at      : {"sent", "answered", "read"},
    said    : {"nothing", "ok", "error", "unexpected"},
    handler : {"none", "general", "channel"} ]

SessionTyped ==
  /\ calls \in Seq(Frames)
  /\ known \in SUBSET Statements
  /\ prepared \in SUBSET Statements
  /\ doubtful \in SUBSET Statements
  /\ command \in [ok : BOOLEAN, by : Nat]
  /\ unread \in {"result", "null", "nothing"}
  /\ queue \in Seq(Nat) /\ handled \in Seq(Nat) /\ notified \in Nat

Naming == {"prepare", "deallocate"}
Holding == {"execute", "deallocate", "drain"}

\* Only the calls about a statement have a name, and only one call holds a
\* transaction.
CallsOK ==
  \A i \in 1 .. Len(calls) :
    /\ IF calls[i].op \in Naming THEN calls[i].name \in Statements ELSE calls[i].name = NoName
    /\ \A j \in 1 .. Len(calls) : calls[i].op \in Holding /\ calls[j].op \in Holding => i = j

Agrees(n) == n \in known <=> n \in prepared

\* What the i-th call goes by: the result it has read, or the one of the last
\* command if that is its own.
Says(i) ==
  IF calls[i].at # "sent" THEN calls[i].said
  ELSE IF command.by # i THEN "nothing"
  ELSE IF command.ok THEN "ok" ELSE "error"

\* A call about a statement that is not doubtful is the only one about it, and
\* the server has done what it has answered.
CallsPending ==
  \A i \in 1 .. Len(calls) :
    calls[i].op \in Naming /\ calls[i].name \notin doubtful =>
      /\ \A j \in 1 .. Len(calls) : calls[j].name = calls[i].name => j = i
      /\ Says(i) = "ok" => (calls[i].name \in prepared <=> calls[i].op = "prepare")
      /\ Says(i) = "error" => Agrees(calls[i].name)

Named == CallsOK /\ CallsPending /\ NamesAgree /\ IteratorStaysValid

\* The notifications are numbered as they arrive.
Numbered ==
  /\ \A i \in 1 .. Len(handled) : handled[i] = i
  /\ \A i \in 1 .. Len(queue) : queue[i] = Len(handled) + i
  /\ notified = Len(handled) + Len(queue)

SessionInv == SessionTyped /\ Named /\ Numbered

-----------------------------------------------------------------------------
(* The stack of calls.                                                     *)

LEMMA PushFacts ==
  ASSUME SessionTyped, NEW c \in Frames, Push(c)
  PROVE  /\ calls' \in Seq(Frames) /\ Len(calls) \in Nat
         /\ Len(calls') = Len(calls) + 1 /\ calls'[Len(calls) + 1] = c
         /\ \A i \in 1 .. Len(calls) : calls'[i] = calls[i]
BY DEF SessionTyped, Push

LEMMA UpdateFacts ==
  ASSUME SessionTyped, ~Idle, NEW c \in Frames, Update(c)
  PROVE  /\ calls' \in Seq(Frames) /\ Len(calls) \in Nat \ {0}
         /\ Len(calls') = Len(calls) /\ calls'[Len(calls)] = c
         /\ \A i \in 1 .. Len(calls) : i # Len(calls) => calls'[i] = calls[i]
BY DEF SessionTyped, Update, Idle

LEMMA PopFacts ==
  ASSUME SessionTyped, ~Idle, calls' = Front(calls)
  PROVE  /\ calls' \in Seq(Frames) /\ Len(calls) \in Nat \ {0}
         /\ Len(calls') = Len(calls) - 1
         /\ \A i \in 1 .. Len(calls') : calls'[i] = calls[i]
<1>1. calls \in Seq(Frames) /\ Len(calls) \in Nat \ {0}
  BY DEF SessionTyped, Idle
<1> DEFINE k == Len(calls) - 1
<1>2. k \in Nat /\ \A i \in 1 .. k : calls[i] \in Frames
  BY <1>1
<1>3. calls' = SubSeq(calls, 1, k)
  BY DEF Front
<1> HIDE DEF k
<1>4. calls' = [i \in 1 .. k |-> calls[i]]
  BY <1>2, <1>3
<1>5. calls' \in Seq(Frames) /\ Len(calls') = k
  BY <1>2, <1>4
<1>6. QED BY <1>1, <1>2, <1>4, <1>5 DEF k

LEMMA InnermostFacts ==
  ASSUME SessionTyped, ~Idle
  PROVE  /\ Len(calls) \in 1 .. Len(calls) /\ Innermost = calls[Len(calls)]
         /\ Innermost \in Frames
BY DEF SessionTyped, Idle, Innermost, Last

\* The innermost call goes on, and stays about the name it is about: it goes by
\* what it did before, by nothing, or its name is doubtful.
LEMMA UpdateNames ==
  ASSUME SessionInv, ~Idle, NEW c \in Frames, Update(c),
         c.op = Innermost.op, c.name = Innermost.name,
         \/ Says(Len(calls))' = Says(Len(calls))
         \/ Says(Len(calls))' \in {"nothing", "unexpected"}
         \/ c.op \in Naming => c.name \in doubtful',
         doubtful \subseteq doubtful',
         UNCHANGED << known, prepared, command >>
  PROVE  calls' \in Seq(Frames) /\ Named'
<1>1. /\ calls' \in Seq(Frames) /\ Len(calls) \in Nat /\ Len(calls') = Len(calls)
      /\ calls'[Len(calls)] = c
      /\ \A i \in 1 .. Len(calls) : i # Len(calls) => calls'[i] = calls[i]
  BY UpdateFacts DEF SessionInv
<1>2. \A i \in 1 .. Len(calls) : calls'[i].op = calls[i].op /\ calls'[i].name = calls[i].name
  BY <1>1, InnermostFacts DEF SessionInv
<1>3. CallsOK'
  BY <1>1, <1>2 DEF SessionInv, Named, CallsOK
<1>4. CallsPending'
  <2> SUFFICES ASSUME NEW i \in 1 .. Len(calls),
                      calls'[i].op \in Naming, calls'[i].name \notin doubtful'
               PROVE  /\ \A j \in 1 .. Len(calls) : calls'[j].name = calls'[i].name => j = i
                      /\ Says(i)' = "ok" => (calls'[i].name \in prepared' <=> calls'[i].op = "prepare")
                      /\ Says(i)' = "error" => (calls'[i].name \in known' <=> calls'[i].name \in prepared')
    BY <1>1 DEF CallsPending, Agrees
  <2>1. calls[i].op \in Naming /\ calls[i].name \notin doubtful
    BY <1>2
  <2>2. /\ \A j \in 1 .. Len(calls) : calls[j].name = calls[i].name => j = i
        /\ Says(i) = "ok" => (calls[i].name \in prepared <=> calls[i].op = "prepare")
        /\ Says(i) = "error" => Agrees(calls[i].name)
    BY <2>1 DEF SessionInv, Named, CallsPending
  <2>3. Says(i)' = Says(i) \/ Says(i)' \in {"nothing", "unexpected"}
    <3>1. CASE i = Len(calls)
      BY <1>1, <3>1
    <3>2. CASE i # Len(calls)
      BY <1>1, <3>2 DEF Says
    <3>3. QED BY <3>1, <3>2
  <2>4. QED BY <1>2, <2>2, <2>3 DEF Agrees
<1>5. DOMAIN calls = 1 .. Len(calls) /\ DOMAIN calls' = 1 .. Len(calls)
  BY <1>1 DEF SessionInv, SessionTyped
<1>6. NamesAgree'
  BY <1>1, <1>2, <1>5 DEF SessionInv, Named, NamesAgree, InUse
<1>7. IteratorStaysValid'
  BY <1>1, <1>2, <1>5 DEF SessionInv, Named, IteratorStaysValid
<1>8. QED BY <1>1, <1>3, <1>4, <1>6, <1>7 DEF Named

\* A call without a name begins.
LEMMA PushUnnamed ==
  ASSUME SessionInv, NEW c \in Frames, Push(c), c.name = NoName, c.op \notin Naming,
         c.op \in Holding => ~HasTransaction,
         command' = command \/ command'.by = Len(calls) + 1,
         UNCHANGED << known, prepared, doubtful >>
  PROVE  calls' \in Seq(Frames) /\ Named'
<1>1. /\ calls' \in Seq(Frames) /\ Len(calls) \in Nat /\ Len(calls') = Len(calls) + 1
      /\ calls'[Len(calls) + 1] = c
      /\ \A i \in 1 .. Len(calls) : calls'[i] = calls[i]
  BY PushFacts DEF SessionInv
<1>2. DOMAIN calls = 1 .. Len(calls) /\ DOMAIN calls' = 1 .. Len(calls) + 1
  BY <1>1 DEF SessionInv, SessionTyped
<1>3. \A i \in 1 .. Len(calls') : i \in 1 .. Len(calls) \/ i = Len(calls) + 1
  BY <1>1
<1>4. c.op \in Holding => \A i \in 1 .. Len(calls) : calls[i].op \notin Holding
  BY <1>2 DEF HasTransaction, Holding
<1>5. CallsOK'
  BY <1>1, <1>3, <1>4 DEF SessionInv, Named, CallsOK
<1>6. CallsPending'
  <2>1. \A i \in 1 .. Len(calls) : calls[i].op \in Naming => calls[i].name # NoName
    BY NoNameAssumption DEF SessionInv, Named, CallsOK
  <2>2. \A i \in 1 .. Len(calls) : Says(i)' = Says(i) \/ Says(i)' = "nothing"
    BY <1>1 DEF Says
  <2>3. QED BY <1>1, <1>3, <2>1, <2>2 DEF SessionInv, Named, CallsPending, Agrees
<1>7. NamesAgree'
  <2>1. \A n \in Statements : InUse(n) => InUse(n)'
    BY <1>1, <1>2 DEF InUse
  <2>2. QED BY <2>1 DEF SessionInv, Named, NamesAgree
<1>8. IteratorStaysValid'
  BY <1>1, <1>2, <1>3 DEF SessionInv, Named, IteratorStaysValid, Naming
<1>9. QED BY <1>1, <1>5, <1>6, <1>7, <1>8 DEF Named


\* prepare() or deallocate() begins, and the server does what it will answer.
LEMMA PushNamed ==
  ASSUME SessionInv, NEW n \in Statements, NEW ok \in BOOLEAN, NEW op \in Naming,
         NEW c \in Frames, Push(c), c.op = op, c.name = n, c.at = "sent",
         command' = [ok |-> ok, by |-> Len(calls) + 1],
         op = "deallocate" => ~HasTransaction /\ n \in known,
         ~ok => prepared' = prepared,
         ok /\ op = "prepare" => prepared' = prepared \cup {n},
         ok /\ op = "deallocate" => prepared' = prepared \ {n},
         doubtful' = IF InUse(n) THEN doubtful \cup {n} ELSE doubtful,
         UNCHANGED known
  PROVE  calls' \in Seq(Frames) /\ Named'
<1>1. /\ calls' \in Seq(Frames) /\ Len(calls) \in Nat /\ Len(calls') = Len(calls) + 1
      /\ calls'[Len(calls) + 1] = c
      /\ \A i \in 1 .. Len(calls) : calls'[i] = calls[i]
  BY PushFacts DEF SessionInv
<1>2. DOMAIN calls = 1 .. Len(calls) /\ DOMAIN calls' = 1 .. Len(calls) + 1
  BY <1>1 DEF SessionInv, SessionTyped
<1>3. \A i \in 1 .. Len(calls') : i \in 1 .. Len(calls) \/ i = Len(calls) + 1
  BY <1>1
<1>4. \A m \in Statements : m # n => (m \in prepared' <=> m \in prepared)
  BY DEF Naming
<1>5. CallsOK'
  <2>1. op \in Holding => \A i \in 1 .. Len(calls) : calls[i].op \notin Holding
    BY <1>2 DEF HasTransaction, Holding, Naming
  <2>2. QED BY <1>1, <1>3, <2>1 DEF SessionInv, Named, CallsOK
<1>6. CallsPending'
  <2> SUFFICES ASSUME NEW i \in 1 .. Len(calls'),
                      calls'[i].op \in Naming, calls'[i].name \notin doubtful'
               PROVE  /\ \A j \in 1 .. Len(calls') : calls'[j].name = calls'[i].name => j = i
                      /\ Says(i)' = "ok" => (calls'[i].name \in prepared' <=> calls'[i].op = "prepare")
                      /\ Says(i)' = "error" => (calls'[i].name \in known' <=> calls'[i].name \in prepared')
    BY DEF CallsPending, Agrees
  <2>1. CASE i \in 1 .. Len(calls)
    <3>1. /\ calls[i].op \in Naming /\ calls[i].name \notin doubtful
          /\ calls[i].name \in Statements /\ calls[i].name # n
      BY <1>1, <1>2, <2>1 DEF InUse, SessionInv, Named, CallsOK
    <3>2. Says(i)' = Says(i) \/ Says(i)' = "nothing"
      BY <1>1, <2>1 DEF Says
    <3>3. QED BY <1>1, <1>3, <1>4, <2>1, <3>1, <3>2 DEF SessionInv, Named, CallsPending, Agrees
  <2>2. CASE i = Len(calls) + 1
    <3>1. ~InUse(n) /\ n \notin doubtful
      BY <1>1, <2>2
    <3>2. \A j \in 1 .. Len(calls) : calls[j].name # n
      BY <1>2, <3>1 DEF InUse
    <3>3. n \in known <=> n \in prepared
      BY <3>1 DEF SessionInv, Named, NamesAgree
    <3>4. ok => (n \in prepared' <=> op = "prepare")
      BY DEF Naming
    <3>5. Says(i)' = IF ok THEN "ok" ELSE "error"
      BY <1>1, <2>2 DEF Says
    <3>6. QED BY <1>1, <1>3, <2>2, <3>2, <3>3, <3>4, <3>5
  <2>3. QED BY <1>3, <2>1, <2>2
<1>7. NamesAgree'
  <2>1. \A m \in Statements : InUse(m) => InUse(m)'
    BY <1>1, <1>2 DEF InUse
  <2>2. InUse(n)'
    BY <1>1, <1>2 DEF InUse
  <2>3. QED BY <1>4, <2>1, <2>2 DEF SessionInv, Named, NamesAgree
<1>8. IteratorStaysValid'
  BY <1>1, <1>2, <1>3 DEF SessionInv, Named, IteratorStaysValid
<1>9. QED BY <1>1, <1>5, <1>6, <1>7, <1>8 DEF Named

\* A handler throws: the call that it runs in ends there.
LEMMA PopThrown ==
  ASSUME SessionInv, ~Idle, calls' = Front(calls),
         doubtful' = doubtful \cup NameOf(Innermost),
         UNCHANGED << known, prepared, command >>
  PROVE  calls' \in Seq(Frames) /\ Named'
<1>1. /\ calls' \in Seq(Frames) /\ Len(calls) \in Nat \ {0} /\ Len(calls') = Len(calls) - 1
      /\ \A i \in 1 .. Len(calls') : i \in 1 .. Len(calls) /\ calls'[i] = calls[i]
  BY PopFacts DEF SessionInv
<1>2. DOMAIN calls = 1 .. Len(calls) /\ DOMAIN calls' = 1 .. Len(calls')
  BY <1>1 DEF SessionInv, SessionTyped
<1>3. doubtful \subseteq doubtful'
  OBVIOUS
<1>4. CallsOK'
  BY <1>1 DEF SessionInv, Named, CallsOK
<1>5. CallsPending'
  BY <1>1, <1>3 DEF SessionInv, Named, CallsPending, Agrees, Says
<1>6. NamesAgree'
  <2>1. ASSUME NEW n \in Statements, InUse(n) PROVE InUse(n)' \/ n \in doubtful'
    <3>1. PICK i \in 1 .. Len(calls) : calls[i].name = n
      BY <1>2, <2>1 DEF InUse
    <3>2. CASE i = Len(calls)
      <4>1. Innermost = calls[i]
        BY <3>2, InnermostFacts DEF SessionInv
      <4>2. QED BY <3>1, <4>1, NoNameAssumption DEF NameOf
    <3>3. CASE i # Len(calls)
      <4>1. i \in 1 .. Len(calls')
        BY <1>1, <3>3
      <4>2. QED BY <1>1, <1>2, <3>1, <4>1 DEF InUse
    <3>4. QED BY <3>2, <3>3
  <2>2. QED BY <1>3, <2>1 DEF SessionInv, Named, NamesAgree
<1>7. IteratorStaysValid'
  BY <1>1, <1>2 DEF SessionInv, Named, IteratorStaysValid
<1>8. QED BY <1>1, <1>4, <1>5, <1>6, <1>7 DEF Named

\* A call returns: what the server has answered becomes known.
LEMMA PopReturned ==
  ASSUME SessionInv, Return
  PROVE  calls' \in Seq(Frames) /\ known' \in SUBSET Statements /\ Named'
<1> DEFINE k == Len(calls)
<1> DEFINE c == calls[k]
<1>1. /\ ~Idle /\ calls' = Front(calls) /\ UNCHANGED << prepared, command >>
      /\ Innermost.at = "read" /\ doubtful \subseteq doubtful'
  BY DEF Return, Working
<1>2. /\ calls' \in Seq(Frames) /\ k \in Nat \ {0} /\ Len(calls') = k - 1
      /\ \A i \in 1 .. Len(calls') : i \in 1 .. k /\ i # k /\ calls'[i] = calls[i]
  BY <1>1, PopFacts DEF SessionInv
<1>3. DOMAIN calls = 1 .. k /\ DOMAIN calls' = 1 .. Len(calls')
  BY <1>2 DEF SessionInv, SessionTyped
<1>4. k \in 1 .. k /\ Innermost = c /\ c \in Frames
  BY <1>1, InnermostFacts DEF SessionInv
<1>5. /\ c.op = "prepare" /\ c.said = "ok" => known' = known \cup {c.name}
      /\ c.op = "deallocate" /\ c.said = "ok" => known' = known \ {c.name}
      /\ ~(c.op \in Naming /\ c.said = "ok") => known' = known
  BY <1>4 DEF Return, Naming
<1>6. c.op \in {"prepare", "deallocate"} => c.op \in Naming
  BY DEF Naming
<1>7. IF c.op \in Naming THEN c.name \in Statements ELSE c.name = NoName
  BY <1>4 DEF SessionInv, Named, CallsOK
<1> HIDE DEF c
<1>8. \A n \in Statements : n # c.name => (n \in known' <=> n \in known)
  BY <1>5 DEF Naming
<1>9. known' \in SUBSET Statements
  BY <1>5, <1>7 DEF SessionInv, SessionTyped, Naming
<1>10. CallsOK'
  BY <1>2 DEF SessionInv, Named, CallsOK
<1>11. CallsPending'
  <2> SUFFICES ASSUME NEW i \in 1 .. Len(calls'),
                      calls'[i].op \in Naming, calls'[i].name \notin doubtful'
               PROVE  /\ \A j \in 1 .. Len(calls') : calls'[j].name = calls'[i].name => j = i
                      /\ Says(i)' = "ok" => (calls'[i].name \in prepared' <=> calls'[i].op = "prepare")
                      /\ Says(i)' = "error" => (calls'[i].name \in known' <=> calls'[i].name \in prepared')
    BY DEF CallsPending, Agrees
  <2>1. i \in 1 .. k /\ i # k /\ calls'[i] = calls[i] /\ calls[i].name \notin doubtful
    BY <1>1, <1>2
  <2>2. calls[i].name \in Statements
    BY <2>1 DEF SessionInv, Named, CallsOK
  <2>3. /\ \A j \in 1 .. k : calls[j].name = calls[i].name => j = i
        /\ Says(i) = "ok" => (calls[i].name \in prepared <=> calls[i].op = "prepare")
        /\ Says(i) = "error" => (calls[i].name \in known <=> calls[i].name \in prepared)
        /\ Says(i)' = Says(i)
    BY <1>1, <2>1 DEF SessionInv, Named, CallsPending, Agrees, Says
  <2>4. calls[i].name # c.name
    BY <1>4, <2>1, <2>3 DEF c
  <2>5. QED BY <1>1, <1>2, <1>8, <2>1, <2>2, <2>3, <2>4
<1>12. NamesAgree'
  <2> SUFFICES ASSUME NEW n \in Statements, ~InUse(n)', n \notin doubtful'
               PROVE  n \in known' <=> n \in prepared
    BY <1>1 DEF NamesAgree
  <2>1. \A i \in 1 .. Len(calls') : calls[i].name # n
    BY <1>2, <1>3 DEF InUse
  <2>2. CASE n = c.name
    <3>1. c.op \in Naming
      BY <1>7, <2>2, NoNameAssumption
    <3>2. c.said \in {"ok", "error"}
      <4>1. n \in NameOf(Innermost)
        BY <1>4, <2>2, NoNameAssumption DEF NameOf
      <4>2. ~Misled
        BY <4>1 DEF Return
      <4>3. QED BY <1>1, <1>4, <4>2 DEF Misled, Frames
    <3>3. Says(k) = c.said
      BY <1>1, <1>4 DEF Says, c
    <3>4. /\ c.said = "ok" => (n \in prepared <=> c.op = "prepare")
          /\ c.said = "error" => (n \in known <=> n \in prepared)
      BY <1>1, <1>4, <2>2, <3>1, <3>3 DEF SessionInv, Named, CallsPending, Agrees, c
    <3>5. QED BY <1>5, <2>2, <3>1, <3>2, <3>4 DEF Naming
  <2>3. CASE n # c.name
    <3>1. \A i \in 1 .. k : calls[i].name # n
      BY <1>2, <2>1, <2>3 DEF c
    <3>2. ~InUse(n)
      BY <1>3, <3>1 DEF InUse
    <3>3. QED BY <1>1, <1>8, <2>3, <3>2 DEF SessionInv, Named, NamesAgree
  <2>4. QED BY <2>2, <2>3
<1>13. IteratorStaysValid'
  <2> SUFFICES ASSUME NEW i \in 1 .. Len(calls'), calls'[i].op = "deallocate"
               PROVE  calls'[i].name \in known'
    BY <1>3 DEF IteratorStaysValid
  <2>1. i \in 1 .. k /\ i # k /\ calls'[i] = calls[i] /\ calls[i].op = "deallocate"
    BY <1>2
  <2>2. calls[i].name \in known
    BY <1>3, <2>1 DEF SessionInv, Named, IteratorStaysValid
  <2>3. c.op # "deallocate"
    BY <1>4, <2>1 DEF SessionInv, Named, CallsOK, Holding, c
  <2>4. QED BY <1>5, <2>1, <2>2, <2>3 DEF Naming
<1>14. QED BY <1>2, <1>9, <1>10, <1>11, <1>12, <1>13 DEF Named

-----------------------------------------------------------------------------
(* The notifications.                                                      *)

LEMMA ParsedNumbers ==
  ASSUME SessionInv, NEW more \in BOOLEAN, Parsed(more), UNCHANGED handled
  PROVE  queue' \in Seq(Nat) /\ notified' \in Nat /\ Numbered'
<1>1. CASE more
  <2>1. queue' = Append(queue, notified + 1) /\ notified' = notified + 1
    BY <1>1 DEF Parsed
  <2>2. /\ queue \in Seq(Nat) /\ notified \in Nat /\ Len(queue) \in Nat /\ Len(handled) \in Nat
        /\ notified = Len(handled) + Len(queue)
    BY DEF SessionInv, SessionTyped, Numbered
  <2>3. /\ queue' \in Seq(Nat) /\ Len(queue') = Len(queue) + 1
        /\ queue'[Len(queue) + 1] = notified + 1
        /\ \A i \in 1 .. Len(queue) : queue'[i] = queue[i]
    BY <2>1, <2>2
  <2>4. QED BY <2>1, <2>2, <2>3 DEF SessionInv, Numbered
<1>2. CASE ~more
  BY <1>2 DEF Parsed, SessionInv, SessionTyped, Numbered
<1>3. QED BY <1>1, <1>2

LEMMA HandleNumbers ==
  ASSUME SessionInv, Handle
  PROVE  queue' \in Seq(Nat) /\ handled' \in Seq(Nat) /\ Numbered'
<1>1. /\ queue \in Seq(Nat) /\ handled \in Seq(Nat) /\ Len(queue) \in Nat \ {0}
      /\ Len(handled) \in Nat /\ notified = Len(handled) + Len(queue)
  BY DEF SessionInv, SessionTyped, Numbered, Handle
<1>2. queue' = Tail(queue) /\ handled' = Append(handled, Head(queue)) /\ notified' = notified
  BY DEF Handle
<1>3. Head(queue) = Len(handled) + 1 /\ Head(queue) \in Nat
  BY <1>1 DEF SessionInv, Numbered
<1>4. /\ handled' \in Seq(Nat) /\ Len(handled') = Len(handled) + 1
      /\ handled'[Len(handled) + 1] = Len(handled) + 1
      /\ \A i \in 1 .. Len(handled) : handled'[i] = handled[i]
  BY <1>1, <1>2, <1>3
<1>5. /\ queue' \in Seq(Nat) /\ Len(queue') = Len(queue) - 1
      /\ \A i \in 1 .. Len(queue') : queue'[i] = queue[i + 1]
  BY <1>1, <1>2
<1>6. \A i \in 1 .. Len(queue') : queue'[i] = Len(handled') + i
  <2> TAKE i \in 1 .. Len(queue')
  <2>1. i + 1 \in 1 .. Len(queue) /\ i \in Nat
    BY <1>1, <1>5
  <2>2. queue[i + 1] = Len(handled) + (i + 1)
    BY <2>1 DEF SessionInv, Numbered
  <2>3. QED BY <1>1, <1>4, <1>5, <2>1, <2>2
<1>7. QED BY <1>1, <1>2, <1>4, <1>5, <1>6 DEF SessionInv, Numbered


-----------------------------------------------------------------------------
(* The steps of the session.                                               *)

LEMMA SessionInitially ==
  ASSUME SessionInit
  PROVE  SessionInv
<1>1. SessionTyped /\ Numbered
  BY DEF SessionInit, SessionTyped, Numbered
<1>2. calls = << >> /\ known = {} /\ prepared = {}
  BY DEF SessionInit
<1>3. CallsOK /\ CallsPending /\ IteratorStaysValid
  BY <1>2 DEF CallsOK, CallsPending, IteratorStaysValid
<1>4. NamesAgree
  BY <1>2 DEF NamesAgree
<1>5. QED BY <1>1, <1>3, <1>4 DEF SessionInv, Named

\* A new call is a frame of the stack.
LEMMA CallIsFrame ==
  ASSUME NEW op \in Operations, NEW n \in Statements \cup {NoName}
  PROVE  /\ Call(op, n) \in Frames /\ Call(op, n).at = "sent"
         /\ Call(op, n).op = op /\ Call(op, n).name = n
BY DEF Call, Frames

LEMMA PrepareStep ==
  ASSUME SessionInv, NEW n \in Statements, NEW ok \in BOOLEAN, Prepare(n, ok)
  PROVE  SessionInv'
<1> DEFINE c == Call("prepare", n)
<1>1. c \in Frames /\ c.op = "prepare" /\ c.name = n /\ c.at = "sent"
  BY CallIsFrame DEF Operations
<1>2. /\ Push(c) /\ command' = [ok |-> ok, by |-> Len(calls) + 1]
      /\ unread' = "result" /\ UNCHANGED << known, queue, notified, handled >>
  BY DEF Prepare, Send
<1> HIDE DEF c
<1>3. /\ ~ok => prepared' = prepared
      /\ ok => prepared' = prepared \cup {n}
      /\ doubtful' = IF InUse(n) THEN doubtful \cup {n} ELSE doubtful
  BY DEF Prepare
<1>4. calls' \in Seq(Frames) /\ Named'
  BY <1>1, <1>2, <1>3, PushNamed DEF Naming
<1>5. command' \in [ok : BOOLEAN, by : Nat]
  BY <1>2 DEF SessionInv, SessionTyped
<1>6. QED BY <1>2, <1>3, <1>4, <1>5 DEF SessionInv, SessionTyped, Numbered

LEMMA DeallocateStep ==
  ASSUME SessionInv, NEW n \in Statements, NEW ok \in BOOLEAN, Deallocate(n, ok)
  PROVE  SessionInv'
<1> DEFINE c == Call("deallocate", n)
<1>1. c \in Frames /\ c.op = "deallocate" /\ c.name = n /\ c.at = "sent"
  BY CallIsFrame DEF Operations
<1>2. /\ Push(c) /\ command' = [ok |-> ok, by |-> Len(calls) + 1]
      /\ unread' = "result" /\ UNCHANGED << known, queue, notified, handled >>
  BY DEF Deallocate, Send
<1> HIDE DEF c
<1>3. /\ ~ok => prepared' = prepared
      /\ ok => prepared' = prepared \ {n}
      /\ doubtful' = IF InUse(n) THEN doubtful \cup {n} ELSE doubtful
      /\ n \in known /\ ~HasTransaction
  BY DEF Deallocate
<1>4. calls' \in Seq(Frames) /\ Named'
  BY <1>1, <1>2, <1>3, PushNamed DEF Naming
<1>5. command' \in [ok : BOOLEAN, by : Nat]
  BY <1>2 DEF SessionInv, SessionTyped
<1>6. QED BY <1>2, <1>3, <1>4, <1>5 DEF SessionInv, SessionTyped, Numbered

\* The calls that are not about a statement begin.
LEMMA UnnamedStep ==
  ASSUME SessionInv,
         (\E ok \in BOOLEAN : ExecuteStatement(ok)) \/ DrainResult \/ GetNotifications
  PROVE  SessionInv'
<1>1. ASSUME NEW ok \in BOOLEAN, ExecuteStatement(ok) PROVE SessionInv'
  <2> DEFINE c == Call("execute", NoName)
  <2>1. c \in Frames /\ c.op = "execute" /\ c.name = NoName
    BY CallIsFrame DEF Operations
  <2>2. /\ Push(c) /\ ~HasTransaction /\ unread' = "result"
        /\ command' = [ok |-> ok, by |-> Len(calls) + 1]
        /\ UNCHANGED << known, prepared, queue, notified, handled, doubtful >>
    BY <1>1 DEF ExecuteStatement, Send
  <2> HIDE DEF c
  <2>3. calls' \in Seq(Frames) /\ Named'
    BY <2>1, <2>2, PushUnnamed DEF Naming
  <2>4. command' \in [ok : BOOLEAN, by : Nat]
    BY <2>2 DEF SessionInv, SessionTyped
  <2>5. QED BY <2>2, <2>3, <2>4 DEF SessionInv, SessionTyped, Numbered
<1>2. CASE DrainResult
  <2> DEFINE c == Call("drain", NoName)
  <2>1. c \in Frames /\ c.op = "drain" /\ c.name = NoName
    BY CallIsFrame DEF Operations
  <2>2. /\ Push(c) /\ ~HasTransaction
        /\ UNCHANGED << known, prepared, command, unread, queue, notified, handled, doubtful >>
    BY <1>2 DEF DrainResult
  <2> HIDE DEF c
  <2>3. calls' \in Seq(Frames) /\ Named'
    BY <2>1, <2>2, PushUnnamed DEF Naming
  <2>4. QED BY <2>2, <2>3 DEF SessionInv, SessionTyped, Numbered
<1>3. CASE GetNotifications
  <2> DEFINE c == [Call("get_notifications", NoName) EXCEPT !.at = "read"]
  <2>1. c \in Frames /\ c.op = "get_notifications" /\ c.name = NoName
    BY DEF Call, Frames, Operations
  <2>2. /\ Push(c) /\ Parsed(TRUE)
        /\ UNCHANGED << known, prepared, command, unread, handled, doubtful >>
    BY <1>3 DEF GetNotifications
  <2> HIDE DEF c
  <2>3. calls' \in Seq(Frames) /\ Named'
    BY <2>1, <2>2, PushUnnamed DEF Naming, Holding
  <2>4. queue' \in Seq(Nat) /\ notified' \in Nat /\ Numbered'
    BY <2>2, ParsedNumbers
  <2>5. QED BY <2>2, <2>3, <2>4 DEF SessionInv, SessionTyped
<1>4. QED BY <1>1, <1>2, <1>3

\* Nothing happens to the calls.
LEMMA CallsStay ==
  ASSUME SessionInv, UNCHANGED << known, prepared, calls, command, doubtful >>
  PROVE  Named'
BY DEF SessionInv, Named, CallsOK, CallsPending, Says, Agrees, NamesAgree, InUse,
       IteratorStaysValid

\* The innermost call goes on, or its handlers do.
LEMMA InnermostStep ==
  ASSUME SessionInv,
         \/ Arrive \/ ReadyForQuery
         \/ \E more \in BOOLEAN : Answer(more) \/ NoAnswer(more) \/ ReadNull(more)
         \/ Handle \/ HandlerReturns
  PROVE  SessionInv'
<1>1. CASE Arrive
  <2>1. /\ UNCHANGED << known, prepared, calls, command, unread, handled, doubtful >> /\ Parsed(TRUE)
    BY <1>1 DEF Arrive
  <2>2. queue' \in Seq(Nat) /\ notified' \in Nat /\ Numbered'
    BY <2>1, ParsedNumbers
  <2>3. Named'
    BY <2>1, CallsStay
  <2>4. QED BY <2>1, <2>2, <2>3 DEF SessionInv, SessionTyped
<1>2. CASE ReadyForQuery
  <2>1. /\ UNCHANGED << known, prepared, calls, command, queue, notified, handled, doubtful >>
        /\ unread' = "nothing"
    BY <1>2 DEF ReadyForQuery
  <2>2. Named'
    BY <2>1, CallsStay
  <2>3. QED BY <2>1, <2>2 DEF SessionInv, SessionTyped, Numbered
<1>3. ASSUME NEW more \in BOOLEAN, Answer(more) \/ NoAnswer(more) \/ ReadNull(more)
      PROVE  SessionInv'
  <2> DEFINE k == Len(calls)
  <2>1. /\ ~Idle /\ Parsed(more) /\ unread' \in {"null", "nothing"}
        /\ UNCHANGED << known, prepared, command, handled >>
        /\ doubtful \subseteq doubtful'
    BY <1>3 DEF Answer, NoAnswer, ReadNull, Working
  <2>2. Innermost \in Frames /\ Innermost = calls[k] /\ k \in 1 .. k
    BY <2>1, InnermostFacts DEF SessionInv
  <2>3. PICK c \in Frames :
          /\ Update(c) /\ c.op = Innermost.op /\ c.name = Innermost.name
          /\ \/ Answer(more) /\ c.at = "answered"
                 /\ c.said = IF command.ok THEN "ok" ELSE "error"
             \/ NoAnswer(more) /\ c.at # "sent" /\ c.said = "nothing"
             \/ ReadNull(more) /\ Innermost.at # "sent" /\ c.at = "read"
                 /\ c.said \in {Innermost.said, "unexpected"}
    <3>1. CASE Answer(more)
      <4> DEFINE a == [Innermost EXCEPT !.at = "answered", !.said = IF command.ok THEN "ok" ELSE "error"]
      <4>1. Update(a)
        BY <3>1 DEF Answer
      <4>2. a \in Frames /\ a.op = Innermost.op /\ a.name = Innermost.name /\ a.at = "answered"
            /\ a.said = IF command.ok THEN "ok" ELSE "error"
        BY <2>2 DEF Frames
      <4> HIDE DEF a
      <4>3. QED BY <3>1, <4>1, <4>2
    <3>2. CASE NoAnswer(more)
      <4> DEFINE phase == IF Innermost.op = "prepare" THEN "answered" ELSE "read"
      <4> DEFINE a == [Innermost EXCEPT !.at = phase, !.said = "nothing"]
      <4>1. Update(a)
        BY <3>2 DEF NoAnswer
      <4>2. phase \in {"answered", "read"}
        OBVIOUS
      <4> HIDE DEF phase
      <4>3. a \in Frames /\ a.op = Innermost.op /\ a.name = Innermost.name /\ a.at # "sent"
            /\ a.said = "nothing"
        BY <2>2, <4>2 DEF Frames
      <4> HIDE DEF a
      <4>4. QED BY <3>2, <4>1, <4>3
    <3>3. CASE ReadNull(more)
      <4>1. PICK a \in {[Innermost EXCEPT !.at = "read", !.said = "unexpected"],
                        [Innermost EXCEPT !.at = "read"]} : Update(a)
        BY <3>3 DEF ReadNull
      <4>2. a \in Frames /\ a.op = Innermost.op /\ a.name = Innermost.name /\ a.at = "read"
            /\ a.said \in {Innermost.said, "unexpected"}
        BY <2>2, <4>1 DEF Frames
      <4>3. Innermost.at # "sent"
        BY <3>3 DEF ReadNull
      <4>4. QED BY <3>3, <4>1, <4>2, <4>3
    <3>4. QED BY <1>3, <3>1, <3>2, <3>3
  <2>4. calls'[k] = c /\ Len(calls') = k
    BY <2>1, <2>3, UpdateFacts DEF SessionInv
  <2>5. \/ Says(k)' = Says(k)
        \/ Says(k)' \in {"nothing", "unexpected"}
        \/ c.op \in Naming => c.name \in doubtful'
    <3>1. CASE Answer(more) /\ c.at = "answered" /\ c.said = IF command.ok THEN "ok" ELSE "error"
      <4>1. Says(k)' = IF command.ok THEN "ok" ELSE "error"
        BY <2>1, <2>4, <3>1 DEF Says
      <4>2. Innermost.at = "sent" /\ doubtful' = IF command.by = k THEN doubtful ELSE doubtful \cup NameOf(Innermost)
        BY <3>1 DEF Answer
      <4>3. CASE command.by = k
        BY <2>2, <4>1, <4>2, <4>3 DEF Says
      <4>4. CASE command.by # k
        <5>1. c.op \in Naming => c.name # NoName
          BY <2>2, <2>3, NoNameAssumption DEF SessionInv, Named, CallsOK
        <5>2. QED BY <2>3, <4>2, <4>4, <5>1 DEF NameOf
      <4>5. QED BY <4>3, <4>4
    <3>2. CASE c.at # "sent" /\ c.said = "nothing"
      BY <2>4, <3>2 DEF Says
    <3>3. CASE Innermost.at # "sent" /\ c.at = "read" /\ c.said \in {Innermost.said, "unexpected"}
      BY <2>2, <2>4, <3>3 DEF Says
    <3>4. QED BY <2>3, <3>1, <3>2, <3>3
  <2> HIDE DEF k
  <2>6. calls' \in Seq(Frames) /\ Named'
    BY <2>1, <2>3, <2>5, UpdateNames DEF k
  <2>7. queue' \in Seq(Nat) /\ notified' \in Nat /\ Numbered'
    BY <2>1, ParsedNumbers
  <2>8. doubtful' \in SUBSET Statements
    <3>1. NameOf(Innermost) \subseteq Statements
      BY <2>2 DEF NameOf, Frames
    <3>2. QED BY <1>3, <3>1 DEF Answer, NoAnswer, ReadNull, SessionInv, SessionTyped
  <2>9. QED BY <2>1, <2>6, <2>7, <2>8 DEF SessionInv, SessionTyped
<1>4. CASE Handle \/ HandlerReturns
  <2>1. PICK h \in {"none", "general", "channel"} : Update([Innermost EXCEPT !.handler = h])
    BY <1>4 DEF Handle, HandlerReturns
  <2>2. ~Idle /\ UNCHANGED << known, prepared, command, unread, notified, doubtful >>
    BY <1>4 DEF Handle, HandlerReturns, Working
  <2>3. Innermost \in Frames
    BY <2>2, InnermostFacts DEF SessionInv
  <2> DEFINE c == [Innermost EXCEPT !.handler = h]
  <2>4. /\ c \in Frames /\ c.op = Innermost.op /\ c.name = Innermost.name
        /\ c.at = Innermost.at /\ c.said = Innermost.said
    BY <2>3 DEF Frames
  <2>5. Update(c)
    BY <2>1
  <2> HIDE DEF c
  <2>6. calls' \in Seq(Frames) /\ Named'
    <3>1. calls'[Len(calls)] = c /\ Innermost = calls[Len(calls)]
      BY <2>2, <2>4, <2>5, UpdateFacts, InnermostFacts DEF SessionInv
    <3>2. Says(Len(calls))' = Says(Len(calls))
      <4>1. Len(calls') = Len(calls)
        BY <2>2, <2>4, <2>5, UpdateFacts DEF SessionInv
      <4>2. QED BY <2>2, <2>4, <3>1, <4>1 DEF Says
    <3>3. QED BY <2>2, <2>4, <2>5, <3>2, UpdateNames
  <2>7. queue' \in Seq(Nat) /\ handled' \in Seq(Nat) /\ Numbered'
    <3>1. CASE Handle
      BY <3>1, HandleNumbers
    <3>2. CASE HandlerReturns
      BY <3>2 DEF HandlerReturns, SessionInv, SessionTyped, Numbered
    <3>3. QED BY <1>4, <3>1, <3>2
  <2>8. QED BY <2>2, <2>6, <2>7 DEF SessionInv, SessionTyped
<1>5. QED BY <1>1, <1>2, <1>3, <1>4

\* A call ends.
LEMMA PopStep ==
  ASSUME SessionInv, HandlerThrows \/ Return
  PROVE  SessionInv'
<1>1. CASE HandlerThrows
  <2>1. /\ ~Idle /\ calls' = Front(calls)
        /\ doubtful' = doubtful \cup NameOf(Innermost)
        /\ UNCHANGED << known, prepared, command, unread, queue, notified, handled >>
    BY <1>1 DEF HandlerThrows
  <2>2. calls' \in Seq(Frames) /\ Named'
    BY <2>1, PopThrown
  <2>3. Innermost \in Frames
    BY <2>1, InnermostFacts DEF SessionInv
  <2>4. Innermost.name \in Statements \cup {NoName}
    BY <2>3 DEF Frames
  <2>5. doubtful' \in SUBSET Statements
    BY <2>1, <2>4 DEF SessionInv, SessionTyped, NameOf
  <2>6. QED BY <2>1, <2>2, <2>5 DEF SessionInv, SessionTyped, Numbered
<1>2. CASE Return
  <2>1. calls' \in Seq(Frames) /\ known' \in SUBSET Statements /\ Named'
    BY <1>2, PopReturned
  <2>2. UNCHANGED << prepared, command, unread, queue, notified, handled >>
    BY <1>2 DEF Return
  <2>3. Innermost.name \in Statements \cup {NoName}
    BY <1>2, InnermostFacts DEF SessionInv, Return, Working, Frames
  <2>4. doubtful' \in SUBSET Statements
    BY <1>2, <2>3 DEF Return, NameOf, SessionInv, SessionTyped
  <2>5. QED BY <2>1, <2>2, <2>4 DEF SessionInv, SessionTyped, Numbered
<1>3. QED BY <1>1, <1>2

LEMMA SessionStep ==
  ASSUME SessionInv, [SessionNext]_sessionVars
  PROVE  SessionInv'
<1>1. CASE UNCHANGED sessionVars
  <2>1. UNCHANGED sessionVars
    BY <1>1
  <2>2. Named'
    BY <2>1, CallsStay DEF sessionVars
  <2>3. QED BY <2>1, <2>2 DEF sessionVars, SessionInv, SessionTyped, Numbered
<1>2. ASSUME NEW n \in Statements, NEW ok \in BOOLEAN, Prepare(n, ok) \/ Deallocate(n, ok)
      PROVE  SessionInv'
  BY <1>2, PrepareStep, DeallocateStep
<1>3. QED BY <1>1, <1>2, UnnamedStep, InnermostStep, PopStep DEF SessionNext

\* The invariant of the session, in every behaviour of the program and its
\* handlers: m_prepared_statements and the stack of calls.
THEOREM SessionInvariant == SessionSpec => []SessionInv
<1>1. QED BY SessionInitially, SessionStep, PTL DEF SessionSpec

\* m_prepared_statements is what the server has, except for names that a
\* handler has made doubtful or a call is about.
THEOREM NamesAlwaysAgree == SessionSpec => []NamesAgree
<1>1. SessionInv => NamesAgree
  BY DEF SessionInv, Named
<1>2. QED BY <1>1, SessionInvariant, PTL

\* The iterator of deallocate() is valid when it is erased, however deep the
\* handlers have nested their calls in between.
THEOREM IteratorIsAlwaysValid == SessionSpec => []IteratorStaysValid
<1>1. SessionInv => IteratorStaysValid
  BY DEF SessionInv, Named
<1>2. QED BY <1>1, SessionInvariant, PTL

\* Notifications reach the handlers in order, each once, and none is lost.
THEOREM AlwaysHandledInOrder == SessionSpec => []HandledInOrder
<1>1. SessionInv => HandledInOrder
  <2> SUFFICES ASSUME SessionInv PROVE HandledInOrder
    OBVIOUS
  <2>1. queue \in Seq(Nat) /\ handled \in Seq(Nat) /\ Numbered
    BY DEF SessionInv, SessionTyped
  <2>2. handled = [i \in 1 .. Len(handled) |-> handled[i]]
    BY <2>1
  <2>3. queue = [i \in 1 .. Len(queue) |-> queue[i]]
    BY <2>1
  <2>4. [i \in 1 .. Len(handled) |-> handled[i]] = [i \in 1 .. Len(handled) |-> i]
    BY <2>1 DEF Numbered
  <2>5. [i \in 1 .. Len(queue) |-> queue[i]] = [i \in 1 .. Len(queue) |-> Len(handled) + i]
    BY <2>1 DEF Numbered
  <2>6. QED BY <2>2, <2>3, <2>4, <2>5 DEF HandledInOrder
<1>2. QED BY <1>1, SessionInvariant, PTL


-----------------------------------------------------------------------------
(* Pipeline mode: whatever is taken out of libpq's queue, what is left was *)
(* there, and the mode is not left by it.                                  *)

Commands == [cmd : {"query", "sync"}, id : Nat]

PgStates ==
  [ mode : {"off", "on", "aborted"}, queue : Seq(Commands),
    null : BOOLEAN, single : BOOLEAN, closed : BOOLEAN ]

FromFirst(queue_) == \A i \in 1 .. Len(queue_) : queue_[i].id >= first

\* The mode has an owner, a pipeline object.
Owned ==
  /\ (pg.mode = "off") = (pipeline # "active")
  /\ FromFirst(pg.queue)

PipelineInv ==
  /\ pg \in PgStates /\ commands \in Nat /\ first \in Nat /\ first <= commands + 1
  /\ byHand \in BOOLEAN /\ stuck \in BOOLEAN
  /\ pipeline \in {"none", "active", "finished"}
  /\ pg.mode = "off" => pg.queue = << >>
  /\ byHand \/ stuck \/ pg.closed \/ Owned

LEMMA TakenFacts ==
  ASSUME NEW p \in PgStates, p.mode # "off", NEW t \in Taken(p)
  PROVE  /\ t.left \in PgStates /\ t.left.mode # "off" /\ t.left.closed = p.closed
         /\ t.left.queue = p.queue \/ (p.queue # << >> /\ t.left.queue = Tail(p.queue))
<1>1. CASE p.null
  <2>1. t = [status |-> "null", left |-> [p EXCEPT !.null = FALSE]]
    BY <1>1 DEF Taken
  <2>2. QED BY <2>1 DEF PgStates
<1>2. CASE ~p.null /\ p.queue = << >>
  <2>1. t = [status |-> "null", left |-> p]
    BY <1>2 DEF Taken
  <2>2. QED BY <2>1
<1>3. CASE ~p.null /\ p.queue # << >>
  <2>1. Tail(p.queue) \in Seq(Commands) /\ Head(p.queue) \in Commands
    BY <1>3 DEF PgStates
  <2>2. Head(p.queue).cmd \in {"query", "sync"}
    BY <2>1 DEF Commands
  <2>3. \A mode \in {"on", "aborted"}, null \in BOOLEAN :
          /\ Removed(p, mode, null) \in PgStates /\ Removed(p, mode, null).mode # "off"
          /\ Removed(p, mode, null).closed = p.closed
          /\ Removed(p, mode, null).queue = Tail(p.queue)
    BY <2>1 DEF Removed, PgStates
  <2>4. CASE Head(p.queue).cmd = "sync"
    <3>1. t = [status |-> "sync", left |-> Removed(p, "on", FALSE)]
      BY <1>3, <2>4 DEF Taken
    <3>2. QED BY <1>3, <2>3, <3>1
  <2>5. CASE Head(p.queue).cmd = "query"
    <3>1. Taken(p) =
            IF p.mode = "aborted"
              THEN { [status |-> "aborted", left |-> Removed(p, "aborted", TRUE)] }
              ELSE { [status |-> "ok", left |-> Removed(p, "on", TRUE)],
                     [status |-> "error", left |-> Removed(p, "aborted", TRUE)] }
                   \cup (IF p.single THEN { [status |-> "row", left |-> p] } ELSE {})
      BY <1>3, <2>5 DEF Taken
    <3>2. \/ t = [status |-> "aborted", left |-> Removed(p, "aborted", TRUE)]
          \/ t = [status |-> "ok", left |-> Removed(p, "on", TRUE)]
          \/ t = [status |-> "error", left |-> Removed(p, "aborted", TRUE)]
          \/ t = [status |-> "row", left |-> p]
      BY <3>1
    <3>3. \/ t.left = Removed(p, "aborted", TRUE)
          \/ t.left = Removed(p, "on", TRUE)
          \/ t.left = p
      <4> DEFINE a == Removed(p, "aborted", TRUE)
      <4> DEFINE o == Removed(p, "on", TRUE)
      <4>1. \/ t = [status |-> "aborted", left |-> a] \/ t = [status |-> "ok", left |-> o]
            \/ t = [status |-> "error", left |-> a] \/ t = [status |-> "row", left |-> p]
        BY <3>2
      <4> HIDE DEF a, o
      <4>2. t.left = a \/ t.left = o \/ t.left = p
        BY <4>1
      <4>3. QED BY <4>2 DEF a, o
    <3>4. QED BY <1>3, <2>3, <3>3
  <2>6. QED BY <2>2, <2>4, <2>5
<1>4. QED BY <1>1, <1>2, <1>3

\* One result, or one and then another, taken out of the queue.
LEMMA PipelineTakes ==
  ASSUME PipelineInv, pg.mode # "off", NEW t \in Taken(pg),
         pg' = t.left \/ \E next \in Taken(t.left) : pg' = next.left,
         UNCHANGED << pipeline, commands, first, byHand, stuck >>
  PROVE  PipelineInv'
<1> DEFINE Good(p) == p \in PgStates /\ p.mode # "off" /\ p.closed = pg.closed
                        /\ (FromFirst(pg.queue) => FromFirst(p.queue))
<1>1. ASSUME NEW p, Good(p), NEW u \in Taken(p) PROVE Good(u.left)
  <2>1. /\ u.left \in PgStates /\ u.left.mode # "off" /\ u.left.closed = p.closed
        /\ u.left.queue = p.queue \/ (p.queue # << >> /\ u.left.queue = Tail(p.queue))
    BY <1>1, TakenFacts
  <2>2. ASSUME FromFirst(p.queue), p.queue # << >>, u.left.queue = Tail(p.queue)
        PROVE  FromFirst(u.left.queue)
    <3>1. p.queue \in Seq(Commands)
      BY <1>1 DEF PgStates
    <3>2. \A i \in 1 .. Len(Tail(p.queue)) :
            i + 1 \in 1 .. Len(p.queue) /\ Tail(p.queue)[i] = p.queue[i + 1]
      BY <2>2, <3>1
    <3>3. QED BY <2>2, <3>2 DEF FromFirst
  <2>3. QED BY <1>1, <2>1, <2>2
<1>2. Good(pg)
  BY DEF PipelineInv
<1>3. Good(t.left)
  BY <1>1, <1>2
<1>4. Good(pg')
  BY <1>1, <1>3
<1>5. pg' \in PgStates /\ pg'.mode # "off" /\ pg'.closed = pg.closed
      /\ (FromFirst(pg.queue) => FromFirst(pg'.queue))
  BY <1>4
<1>6. FromFirst(pg'.queue) => FromFirst(pg.queue)'
  BY DEF FromFirst
<1>7. Owned => Owned'
  BY <1>5, <1>6 DEF Owned
<1>8. QED BY <1>5, <1>7 DEF PipelineInv

LEMMA TimeoutStep ==
  ASSUME PipelineInv, Timeout, UNCHANGED << pipeline, commands, first, byHand, stuck >>
  PROVE  PipelineInv'
<1>1. pg' = [PipelineOff EXCEPT !.closed = TRUE]
  BY DEF Timeout
<1>2. pg' = [mode |-> "off", queue |-> << >>, null |-> FALSE, single |-> FALSE, closed |-> TRUE]
  BY <1>1 DEF PipelineOff
<1>3. << >> \in Seq(Commands)
  OBVIOUS
<1>4. pg' \in PgStates /\ pg'.mode = "off" /\ pg'.queue = << >> /\ pg'.closed = TRUE
  BY <1>2, <1>3 DEF PgStates
<1>5. QED BY <1>4 DEF PipelineInv

\* The mode is entered, by the program or by a pipeline object.
LEMMA EnterStep ==
  ASSUME PipelineInv, EnterByHand \/ OpenPipeline
  PROVE  PipelineInv'
<1>1. Enter /\ ~pg.closed /\ UNCHANGED << commands, stuck >>
  BY DEF EnterByHand, OpenPipeline
<1>2. CASE pg.mode = "off"
  <2>1. pg' = [pg EXCEPT !.mode = "on"] /\ first' = commands + 1
    BY <1>1, <1>2 DEF Enter
  <2>2. pg' \in PgStates /\ pg'.mode = "on" /\ pg'.queue = << >>
    BY <1>2, <2>1 DEF PipelineInv, PgStates
  <2>3. first' \in Nat /\ first' <= commands + 1
    BY <2>1 DEF PipelineInv
  <2>4. FromFirst(pg.queue)'
    BY <2>2 DEF FromFirst
  <2>5. CASE EnterByHand
    BY <1>1, <2>2, <2>3, <2>5 DEF EnterByHand, PipelineInv
  <2>6. CASE OpenPipeline
    BY <1>1, <2>2, <2>3, <2>4, <2>6 DEF OpenPipeline, PipelineInv, Owned
  <2>7. QED BY <2>5, <2>6
<1>3. CASE pg.mode # "off"
  <2>1. UNCHANGED << pg, first >>
    BY <1>1, <1>3 DEF Enter
  <2>2. CASE EnterByHand
    BY <1>1, <2>1, <2>2 DEF EnterByHand, PipelineInv
  <2>3. CASE OpenPipeline
    <3>1. byHand \/ stuck
      BY <1>1, <1>3, <2>3 DEF OpenPipeline, PipelineInv, Owned
    <3>2. QED BY <1>1, <2>1, <2>3, <3>1 DEF OpenPipeline, PipelineInv
  <2>4. QED BY <2>2, <2>3
<1>4. QED BY <1>2, <1>3

\* The mode is left, or that fails.
LEMMA ExitStep ==
  ASSUME PipelineInv, Exit, pipeline' \in {"none", "finished"}, UNCHANGED << commands, first >>
  PROVE  PipelineInv'
<1>1. CASE MayExit
  <2>1. pg' = PipelineOff /\ stuck' = FALSE /\ byHand' = FALSE
    BY <1>1 DEF Exit
  <2>2. pg' \in PgStates /\ pg'.mode = "off" /\ pg'.queue = << >>
    BY <2>1 DEF PipelineOff, PgStates
  <2>3. Owned'
    BY <2>2 DEF Owned, FromFirst
  <2>4. QED BY <2>1, <2>2, <2>3 DEF PipelineInv
<1>2. CASE ~MayExit
  <2>1. pg' = pg /\ stuck' = TRUE /\ byHand' = byHand
    BY <1>2 DEF Exit, PipelineInv
  <2>2. QED BY <2>1 DEF PipelineInv
<1>3. QED BY <1>1, <1>2

LEMMA SendStep ==
  ASSUME PipelineInv, NEW cmd \in {"query", "sync"}, SendCommand(cmd)
  PROVE  PipelineInv'
<1> DEFINE new == [cmd |-> cmd, id |-> commands + 1]
<1>1. pg.mode # "off" /\ commands \in Nat /\ first \in Nat /\ first <= commands + 1
  BY DEF SendCommand, PipelineInv
<1>2. new \in Commands /\ new.id >= first
  BY <1>1 DEF Commands
<1>3. pg' = [pg EXCEPT !.queue = Append(@, new)]
  BY DEF SendCommand, Sends
<1> HIDE DEF new
<1>4. pg \in PgStates /\ pg.queue \in Seq(Commands)
  BY DEF PipelineInv, PgStates
<1>5. /\ pg'.queue = Append(pg.queue, new) /\ pg'.mode = pg.mode /\ pg'.closed = pg.closed
      /\ Append(pg.queue, new) \in Seq(Commands)
  BY <1>2, <1>3, <1>4 DEF PgStates
<1>6. pg' \in PgStates
  <2>1. pg' = [pg EXCEPT !.queue = Append(pg.queue, new)]
    BY <1>3, <1>4 DEF PgStates
  <2> DEFINE q == Append(pg.queue, new)
  <2>2. q \in Seq(Commands) /\ pg' = [pg EXCEPT !.queue = q]
    BY <1>5, <2>1
  <2> HIDE DEF q
  <2>3. QED BY <1>4, <2>2 DEF PgStates
<1>7. /\ Len(Append(pg.queue, new)) = Len(pg.queue) + 1
      /\ Append(pg.queue, new)[Len(pg.queue) + 1] = new
      /\ \A i \in 1 .. Len(pg.queue) : Append(pg.queue, new)[i] = pg.queue[i]
  BY <1>4
<1>8. UNCHANGED << pipeline, first, byHand, stuck >> /\ commands' = commands + 1
  BY DEF SendCommand
<1>9. FromFirst(pg.queue) => FromFirst(pg.queue)'
  BY <1>2, <1>4, <1>5, <1>7, <1>8 DEF FromFirst
<1>10. Owned => Owned'
  BY <1>5, <1>8, <1>9 DEF Owned
<1>11. QED BY <1>1, <1>5, <1>6, <1>8, <1>10 DEF PipelineInv

LEMMA PipelineStep ==
  ASSUME PipelineInv, [PipelineNext]_pipelineVars
  PROVE  PipelineInv'
<1>1. CASE UNCHANGED pipelineVars
  BY <1>1 DEF pipelineVars, PipelineInv, Owned, FromFirst
<1>2. CASE ExitByHand
  <2>1. pipeline' \in {"none", "finished"}
    BY <1>2 DEF ExitByHand, PipelineInv
  <2>2. QED BY <1>2, <2>1, ExitStep DEF ExitByHand
<1>3. CASE SetSingleRowMode
  <2>1. /\ pg' \in PgStates /\ pg'.queue = pg.queue /\ pg'.mode = pg.mode
        /\ pg'.closed = pg.closed
    BY <1>3 DEF SetSingleRowMode, PipelineInv, PgStates
  <2>2. UNCHANGED << pipeline, commands, first, byHand, stuck >>
    BY <1>3 DEF SetSingleRowMode
  <2>3. Owned => Owned'
    BY <2>1, <2>2 DEF Owned, FromFirst
  <2>4. QED BY <2>1, <2>2, <2>3 DEF PipelineInv
<1>4. CASE PipelineGetResult
  <2>1. pg.mode # "off" /\ UNCHANGED << pipeline, commands, first, byHand, stuck >>
    BY <1>4 DEF PipelineGetResult
  <2>2. CASE Timeout
    BY <2>1, <2>2, TimeoutStep
  <2>3. CASE ~Timeout
    <3>1. PICK t \in Taken(pg) : IF t.status = "null" THEN Throws(t.left) ELSE Collect(t)
      BY <1>4, <2>3 DEF PipelineGetResult
    <3>2. pg' = t.left \/ \E next \in Taken(t.left) : pg' = next.left
      BY <3>1 DEF Throws, Collect
    <3>3. QED BY <2>1, <3>2, PipelineTakes
  <2>4. QED BY <2>2, <2>3
<1>5. CASE ConsumeSync
  <2>1. pg.mode # "off" /\ UNCHANGED << pipeline, commands, first, byHand, stuck >>
    BY <1>5 DEF ConsumeSync
  <2>2. CASE Timeout
    BY <2>1, <2>2, TimeoutStep
  <2>3. CASE ~Timeout
    <3>1. PICK t \in Taken(pg) : pg' = t.left
      BY <1>5, <2>3 DEF ConsumeSync
    <3>2. QED BY <2>1, <3>1, PipelineTakes
  <2>4. QED BY <2>2, <2>3
<1>6. CASE PipelineFinish
  <2>1. CASE pipeline = "active"
    <3>1. pipeline' = "finished" /\ Exit /\ UNCHANGED << commands, first >>
      BY <1>6, <2>1 DEF PipelineFinish, FinishActive
    <3>2. QED BY <3>1, ExitStep
  <2>2. CASE pipeline # "active"
    <3>1. UNCHANGED << pg, pipeline, byHand, stuck, commands, first >>
      BY <1>6, <2>2 DEF PipelineFinish
    <3>2. QED BY <3>1 DEF PipelineInv, Owned, FromFirst
  <2>3. QED BY <2>1, <2>2
<1>7. CASE PipelineDestroy
  <2>1. /\ pipeline = "finished" /\ pipeline' = "none"
        /\ UNCHANGED << pg, commands, first, byHand, stuck >>
    BY <1>7 DEF PipelineDestroy
  <2>2. Owned => Owned'
    BY <2>1 DEF Owned, FromFirst
  <2>3. QED BY <2>1, <2>2 DEF PipelineInv
<1>8. QED BY <1>1, <1>2, <1>3, <1>4, <1>5, <1>6, <1>7, EnterStep, SendStep DEF PipelineNext

LEMMA PipelineStarts == PipelineInit => PipelineInv
<1> SUFFICES ASSUME PipelineInit PROVE PipelineInv
  OBVIOUS
<1>1. pg \in PgStates /\ pg.mode = "off" /\ pg.queue = << >>
  BY DEF PipelineInit, PipelineOff, PgStates
<1>2. Owned
  BY <1>1 DEF PipelineInit, Owned, FromFirst
<1>3. /\ commands = 0 /\ first = 1 /\ byHand = FALSE /\ stuck = FALSE
      /\ pipeline = "none"
  BY DEF PipelineInit
<1>4. commands \in Nat /\ first \in Nat /\ first <= commands + 1
  BY <1>3
<1>5. /\ byHand \in BOOLEAN /\ stuck \in BOOLEAN
      /\ pipeline \in {"none", "active", "finished"}
  BY <1>3
<1>6. QED BY <1>1, <1>2, <1>4, <1>5 DEF PipelineInv

\* The connection is in pipeline mode exactly while a pipeline object has it,
\* and that object meets no result of an earlier one, unless the program has
\* entered the mode itself or leaving it has failed.
THEOREM ModeIsAlwaysOwned == PipelineSpec => []ModeIsOwned
<1>1. PipelineInv => ModeIsOwned
  <2> SUFFICES ASSUME PipelineInv PROVE ModeIsOwned
    OBVIOUS
  <2>1. DOMAIN pg.queue = 1 .. Len(pg.queue)
    BY DEF PipelineInv, PgStates
  <2>2. QED BY <2>1 DEF PipelineInv, ModeIsOwned, Owned, FromFirst
<1>2. QED BY <1>1, PipelineStarts, PipelineStep, PTL DEF PipelineSpec

-----------------------------------------------------------------------------
(* The queries in libpq's queue.                                           *)

\* f says of each n which queries are among the first n commands.
Lists(f, q) ==
  /\ f \in [0 .. Len(q) -> Seq(Nat)]
  /\ f[0] = << >>
  /\ \A n \in 1 .. Len(q) :
       f[n] = IF q[n].cmd = "query" THEN Append(f[n - 1], q[n].id) ELSE f[n - 1]

LEMMA QueriesExist ==
  ASSUME NEW q \in Seq(Commands)
  PROVE  \E f : Lists(f, q) /\ Queries(q) = f[Len(q)]
<1> DEFINE m == Len(q)
           step == [x \in (1 .. m) \X Seq(Nat) |->
                      IF q[x[1]].cmd = "query" THEN Append(x[2], q[x[1]].id) ELSE x[2]]
<1>1. m \in Nat /\ \A n \in 1 .. m : q[n].id \in Nat
  <2>1. m \in Nat /\ \A n \in 1 .. m : q[n] \in Commands
    OBVIOUS
  <2>2. QED BY <2>1 DEF Commands
<1>2. step \in [(1 .. m) \X Seq(Nat) -> Seq(Nat)]
  BY <1>1
<1>3. << >> \in Seq(Nat)
  OBVIOUS
<1>4. PICK f \in [0 .. m -> Seq(Nat)] :
        f[0] = << >> /\ \A n \in 1 .. m : f[n] = step[<< n, f[n - 1] >>]
  <2> DEFINE S == Seq(Nat)
             base == << >>
  <2>1. m \in Nat /\ base \in S /\ step \in [(1 .. m) \X S -> S]
    BY <1>1, <1>2, <1>3
  <2> HIDE DEF step, m, S, base
  <2>2. \E f \in [0 .. m -> S] : Follows(f, m, base, step)
    BY <2>1, Recursion
  <2>3. QED BY <2>2 DEF S, base, Follows
<1>5. ASSUME NEW n \in 1 .. m
      PROVE  f[n] = IF q[n].cmd = "query" THEN Append(f[n - 1], q[n].id) ELSE f[n - 1]
  <2>1. n - 1 \in 0 .. m
    BY <1>1
  <2>2. f[n - 1] \in Seq(Nat)
    BY <1>4, <2>1
  <2>3. f[n] = step[<< n, f[n - 1] >>]
    BY <1>4
  <2>4. QED BY <2>2, <2>3
<1> HIDE DEF step
<1> DEFINE Ids(g) == [n \in 0 .. Len(q) |->
                        IF n = 0 THEN << >>
                        ELSE IF q[n].cmd = "query" THEN Append(g[n - 1], q[n].id) ELSE g[n - 1]]
<1>6. f = Ids(f)
  <2>1. \A n \in 0 .. m : n # 0 => n \in 1 .. m
    BY <1>1
  <2>2. \A n \in 0 .. m : f[n] = Ids(f)[n]
    BY <1>4, <1>5, <2>1
  <2>3. QED BY <1>4, <2>2
<1> DEFINE h == CHOOSE g : g = Ids(g)
<1>7. Queries(q) = h[Len(q)]
  BY DEF Queries
<1>8. h = Ids(h)
  <2> HIDE DEF Ids
  <2>1. QED BY <1>6
<1> HIDE DEF h
<1>9. /\ h[0] = << >>
      /\ \A n \in 1 .. m :
           h[n] = IF q[n].cmd = "query" THEN Append(h[n - 1], q[n].id) ELSE h[n - 1]
  <2>1. 0 \in 0 .. m /\ \A n \in 1 .. m : n \in 0 .. m /\ n # 0
    BY <1>1
  <2>2. \A n \in 0 .. m : h[n] = Ids(h)[n]
    BY <1>8
  <2>3. QED BY <2>1, <2>2
<1>10. h \in [0 .. m -> Seq(Nat)]
  <2> DEFINE W == { n \in 0 .. m : h[n] \in Seq(Nat) }
  <2>1. 0 \in W
    <3>1. 0 \in 0 .. m /\ h[0] \in Seq(Nat)
      BY <1>1, <1>3, <1>9
    <3> HIDE DEF Ids
    <3>2. QED BY <3>1
  <2>2. ASSUME NEW n \in 1 .. m, n - 1 \in W PROVE n \in W
    <3>1. h[n - 1] \in Seq(Nat) /\ n \in 0 .. m
      BY <1>1, <2>2
    <3>2. h[n] \in Seq(Nat)
      <4> HIDE DEF Ids
      <4>1. h[n] = IF q[n].cmd = "query" THEN Append(h[n - 1], q[n].id) ELSE h[n - 1]
        BY <1>9
      <4>2. q[n].id \in Nat
        BY <1>1
      <4>3. Append(h[n - 1], q[n].id) \in Seq(Nat)
        BY <3>1, <4>2
      <4>4. QED BY <3>1, <4>1, <4>3
    <3>3. QED BY <3>1, <3>2
  <2> HIDE DEF W
  <2>3. \A n \in 0 .. m : n \in W
    BY <1>1, <2>1, <2>2, Upwards
  <2>4. \A n \in 0 .. m : h[n] \in Seq(Nat)
    BY <2>3 DEF W
  <2>5. h = [n \in 0 .. m |-> Ids(h)[n]]
    BY <1>8
  <2> HIDE DEF Ids
  <2>6. DOMAIN h = 0 .. m /\ h = [n \in 0 .. m |-> h[n]]
    BY <2>5
  <2>7. QED BY <2>4, <2>6
<1>11. QED BY <1>7, <1>9, <1>10 DEF Lists

LEMMA QueriesAre ==
  ASSUME NEW q \in Seq(Commands), NEW f, Lists(f, q)
  PROVE  Queries(q) = f[Len(q)]
<1>1. PICK h : Lists(h, q) /\ Queries(q) = h[Len(q)]
  BY QueriesExist
<1> DEFINE W == { n \in 0 .. Len(q) : f[n] = h[n] }
<1>2. Len(q) \in Nat /\ Len(q) \in 0 .. Len(q)
  OBVIOUS
<1>3. 0 \in W
  BY <1>1, <1>2 DEF Lists
<1>4. ASSUME NEW n \in 1 .. Len(q), n - 1 \in W PROVE n \in W
  <2>1. f[n - 1] = h[n - 1] /\ n \in 0 .. Len(q)
    BY <1>2, <1>4
  <2>2. f[n] = h[n]
    BY <1>1, <2>1 DEF Lists
  <2>3. QED BY <2>1, <2>2
<1> HIDE DEF W
<1>5. Len(q) \in W
  BY <1>2, <1>3, <1>4, Upwards
<1>6. QED BY <1>1, <1>5 DEF W

LEMMA QueriesFacts ==
  /\ Queries(<< >>) = << >>
  /\ \A q \in Seq(Commands) :
       /\ Queries(q) \in Seq(Nat)
       /\ \A c \in Commands :
            Queries(Append(q, c)) = IF c.cmd = "query" THEN Append(Queries(q), c.id) ELSE Queries(q)
       /\ q # << >> =>
            Queries(q) = (IF Head(q).cmd = "query" THEN << Head(q).id >> ELSE << >>)
                           \o Queries(Tail(q))
<1>1. Queries(<< >>) = << >>
  <2>1. << >> \in Seq(Commands) /\ Len(<< >>) = 0
    OBVIOUS
  <2>2. PICK f : Lists(f, << >>) /\ Queries(<< >>) = f[Len(<< >>)]
    BY <2>1, QueriesExist
  <2>3. QED BY <2>1, <2>2 DEF Lists
<1>2. ASSUME NEW q \in Seq(Commands) PROVE Queries(q) \in Seq(Nat)
  <2>1. PICK f : Lists(f, q) /\ Queries(q) = f[Len(q)]
    BY QueriesExist
  <2>2. Len(q) \in 0 .. Len(q)
    OBVIOUS
  <2>3. QED BY <2>1, <2>2 DEF Lists
<1>3. ASSUME NEW q \in Seq(Commands), NEW c \in Commands
      PROVE  Queries(Append(q, c)) = IF c.cmd = "query" THEN Append(Queries(q), c.id) ELSE Queries(q)
  <2>1. PICK f : Lists(f, q) /\ Queries(q) = f[Len(q)]
    BY QueriesExist
  <2> DEFINE m == Len(q)
             r == Append(q, c)
             last == IF c.cmd = "query" THEN Append(f[m], c.id) ELSE f[m]
             g == [n \in 0 .. m + 1 |-> IF n = m + 1 THEN last ELSE f[n]]
  <2>2. /\ m \in Nat /\ r \in Seq(Commands) /\ Len(r) = m + 1 /\ r[m + 1] = c
        /\ \A n \in 1 .. m : r[n] = q[n]
    OBVIOUS
  <2>3. f \in [0 .. m -> Seq(Nat)] /\ last \in Seq(Nat)
    <3>1. f \in [0 .. m -> Seq(Nat)] /\ c.id \in Nat /\ m \in 0 .. m
      BY <2>1, <2>2 DEF Lists, Commands
    <3>2. QED BY <3>1
  <2> HIDE DEF r, m
  <2>4. /\ \A n \in 0 .. m : n \in 0 .. m + 1 /\ n # m + 1
        /\ m + 1 \in 0 .. m + 1 /\ \A n \in 0 .. m + 1 : n # m + 1 => n \in 0 .. m
        /\ \A n \in 1 .. m + 1 : n - 1 \in 0 .. m /\ (n # m + 1 => n \in 1 .. m) /\ (m + 1) - 1 = m
    BY <2>2
  <2>5. g[m + 1] = last /\ \A n \in 0 .. m : g[n] = f[n]
    BY <2>4
  <2>6. g \in [0 .. m + 1 -> Seq(Nat)]
    <3> HIDE DEF last
    <3>1. QED BY <2>3, <2>4
  <2> HIDE DEF g
  <2>7. g[0] = << >>
    BY <2>1, <2>2, <2>5 DEF Lists, m
  <2>8. ASSUME NEW n \in 1 .. m + 1
        PROVE  g[n] = IF r[n].cmd = "query" THEN Append(g[n - 1], r[n].id) ELSE g[n - 1]
    <3>1. CASE n = m + 1
      <4>1. g[n] = last /\ r[n] = c /\ g[n - 1] = f[m]
        BY <2>2, <2>4, <2>5, <3>1
      <4>2. QED BY <4>1
    <3>2. CASE n # m + 1
      <4>1. n \in 1 .. m /\ n \in 0 .. m /\ n - 1 \in 0 .. m
        BY <2>2, <2>4, <3>2
      <4>2. g[n] = f[n] /\ r[n] = q[n] /\ g[n - 1] = f[n - 1]
        BY <2>2, <2>5, <4>1
      <4>3. f[n] = IF q[n].cmd = "query" THEN Append(f[n - 1], q[n].id) ELSE f[n - 1]
        BY <2>1, <4>1 DEF Lists, m
      <4>4. QED BY <4>2, <4>3
    <3>3. QED BY <3>1, <3>2
  <2>9. Lists(g, r)
    BY <2>2, <2>6, <2>7, <2>8 DEF Lists
  <2>10. Queries(r) = last
    BY <2>2, <2>5, <2>9, QueriesAre
  <2>11. QED BY <2>1, <2>10 DEF r, m
<1>4. ASSUME NEW q \in Seq(Commands), q # << >>
      PROVE  Queries(q) = (IF Head(q).cmd = "query" THEN << Head(q).id >> ELSE << >>)
                            \o Queries(Tail(q))
  <2> DEFINE m == Len(q)
             r == Tail(q)
             first_ == IF Head(q).cmd = "query" THEN << Head(q).id >> ELSE << >>
  <2>1. /\ m \in Nat \ {0} /\ r \in Seq(Commands) /\ Len(r) = m - 1 /\ Head(q) = q[1]
        /\ \A n \in 1 .. m - 1 : r[n] = q[n + 1]
        /\ q[1].id \in Nat /\ \A n \in 1 .. m : q[n].id \in Nat
    <3>1. m \in Nat \ {0} /\ \A n \in 1 .. m : q[n] \in Commands
      BY <1>4
    <3>2. 1 \in 1 .. m /\ \A n \in 1 .. m : q[n].id \in Nat
      BY <3>1 DEF Commands
    <3>3. r \in Seq(Commands) /\ Len(r) = m - 1 /\ Head(q) = q[1]
          /\ \A n \in 1 .. m - 1 : r[n] = q[n + 1]
      BY <1>4
    <3>4. QED BY <3>1, <3>2, <3>3
  <2>2. PICK f : Lists(f, r) /\ Queries(r) = f[Len(r)]
    BY <2>1, QueriesExist
  <2> HIDE DEF r, m
  <2>3. f \in [0 .. m - 1 -> Seq(Nat)] /\ f[0] = << >>
    BY <2>1, <2>2 DEF Lists
  <2>4. first_ \in Seq(Nat)
    BY <2>1
  <2> DEFINE g == [n \in 0 .. m |-> IF n = 0 THEN << >> ELSE first_ \o f[n - 1]]
  <2>5. /\ \A n \in 1 .. m : n \in 0 .. m /\ n # 0 /\ n - 1 \in 0 .. m - 1
        /\ 0 \in 0 .. m /\ m \in 1 .. m
    BY <2>1
  <2>6. g[0] = << >> /\ \A n \in 1 .. m : g[n] = first_ \o f[n - 1]
    BY <2>5
  <2>7. g \in [0 .. m -> Seq(Nat)]
    <3> HIDE DEF first_
    <3>1. \A n \in 1 .. m : f[n - 1] \in Seq(Nat)
      BY <2>3, <2>5
    <3>2. \A n \in 0 .. m : n # 0 => n \in 1 .. m
      BY <2>1
    <3>3. << >> \in Seq(Nat)
      OBVIOUS
    <3>4. \A n \in 0 .. m : g[n] \in Seq(Nat)
      BY <2>4, <3>1, <3>2, <3>3
    <3>5. QED BY <3>4
  <2> HIDE DEF g
  <2>8. ASSUME NEW n \in 1 .. m
        PROVE  g[n] = IF q[n].cmd = "query" THEN Append(g[n - 1], q[n].id) ELSE g[n - 1]
    <3>1. CASE n = 1
      <4>1. n - 1 = 0
        BY <3>1
      <4>2. n - 1 = 0 /\ g[n] = first_ \o << >> /\ g[n - 1] = << >>
        <5> HIDE DEF first_
        <5>1. g[n] = first_ \o f[n - 1]
          BY <2>6
        <5>2. QED BY <2>3, <2>6, <4>1, <5>1
      <4>3. first_ \o << >> = first_
        BY <2>4
      <4>4. CASE q[1].cmd = "query"
        <5>1. first_ = << q[1].id >> /\ Append(<< >>, q[1].id) = << q[1].id >>
          BY <2>1, <4>4
        <5>2. QED BY <3>1, <4>2, <4>3, <4>4, <5>1
      <4>5. CASE q[1].cmd # "query"
        <5>1. first_ = << >>
          BY <2>1, <4>5
        <5>2. QED BY <3>1, <4>2, <4>3, <4>5, <5>1
      <4>6. QED BY <4>4, <4>5
    <3>2. CASE n # 1
      <4>1. n - 1 \in 1 .. m - 1 /\ n - 1 \in 1 .. m /\ (n - 1) - 1 \in 0 .. m - 1 /\ (n - 1) + 1 = n
        BY <2>1, <3>2
      <4>2. r[n - 1] = q[n]
        BY <2>1, <4>1
      <4>3. f[n - 1] = IF q[n].cmd = "query" THEN Append(f[(n - 1) - 1], q[n].id) ELSE f[(n - 1) - 1]
        BY <2>1, <2>2, <4>1, <4>2 DEF Lists
      <4>4. g[n] = first_ \o f[n - 1] /\ g[n - 1] = first_ \o f[(n - 1) - 1]
        BY <2>6, <4>1
      <4>5. f[(n - 1) - 1] \in Seq(Nat) /\ q[n].id \in Nat
        BY <2>1, <2>3, <4>1
      <4> HIDE DEF first_
      <4>6. \A s, t \in Seq(Nat) : \A e \in Nat : s \o Append(t, e) = Append(s \o t, e)
        OBVIOUS
      <4>7. QED BY <2>4, <4>3, <4>4, <4>5, <4>6
    <3>3. QED BY <3>1, <3>2
  <2> HIDE DEF first_
  <2>9. Lists(g, q)
    BY <2>6, <2>7, <2>8 DEF Lists, m
  <2>10. Queries(q) = g[m]
    BY <2>9, QueriesAre DEF m
  <2>11. Queries(r) = f[m - 1]
    BY <2>1, <2>2
  <2>12. Queries(q) = first_ \o Queries(r)
    BY <2>5, <2>6, <2>10, <2>11
  <2>13. QED BY <2>12 DEF first_, r
<1>5. QED BY <1>1, <1>2, <1>3, <1>4

\* The numbers of the queries are among those of the commands.
LEMMA QueriesWithin ==
  ASSUME NEW q \in Seq(Commands), NEW K, \A n \in 1 .. Len(q) : q[n].id \in K
  PROVE  Queries(q) \in Seq(K)
<1>1. PICK f : Lists(f, q) /\ Queries(q) = f[Len(q)]
  BY QueriesExist
<1> DEFINE W == { n \in 0 .. Len(q) : f[n] \in Seq(K) }
<1>2. Len(q) \in Nat /\ Len(q) \in 0 .. Len(q) /\ 0 \in 0 .. Len(q)
  OBVIOUS
<1>3. 0 \in W
  <2>1. << >> \in Seq(K)
    OBVIOUS
  <2>2. QED BY <1>1, <1>2, <2>1 DEF Lists
<1>4. ASSUME NEW n \in 1 .. Len(q), n - 1 \in W PROVE n \in W
  <2>1. f[n - 1] \in Seq(K) /\ q[n].id \in K /\ n \in 0 .. Len(q)
    BY <1>2, <1>4
  <2>2. Append(f[n - 1], q[n].id) \in Seq(K)
    BY <2>1
  <2>3. f[n] = IF q[n].cmd = "query" THEN Append(f[n - 1], q[n].id) ELSE f[n - 1]
    BY <1>1 DEF Lists
  <2>4. QED BY <2>1, <2>2, <2>3
<1> HIDE DEF W
<1>5. Len(q) \in W
  BY <1>2, <1>3, <1>4, Upwards
<1>6. QED BY <1>1, <1>5 DEF W

-----------------------------------------------------------------------------
(* Pipeline mode implements the queue of results.                          *)

\* What a call does to the queries that wait: the n oldest are passed over.
Skips(old, new, n) == n \in 0 .. Len(old) /\ new = SubSeq(old, n + 1, Len(old))

LEMMA SkipFacts ==
  ASSUME NEW w \in Seq(Nat)
  PROVE  /\ Skips(w, w, 0)
         /\ Skips(w, << >>, Len(w))
         /\ \A v \in Seq(Nat), n \in Nat : Skips(w, v, n) /\ v # << >> => Skips(w, Tail(v), n + 1)
<1>1. w = SubSeq(w, 1, Len(w)) /\ Len(w) \in Nat
  OBVIOUS
<1>2. Skips(w, w, 0)
  BY <1>1 DEF Skips
<1>3. SubSeq(w, Len(w) + 1, Len(w)) = << >>
  OBVIOUS
<1>4. Skips(w, << >>, Len(w))
  BY <1>1, <1>3 DEF Skips
<1>5. ASSUME NEW v \in Seq(Nat), NEW n \in Nat, Skips(w, v, n), v # << >>
      PROVE  Skips(w, Tail(v), n + 1)
  <2>1. n \in 0 .. Len(w) /\ v = SubSeq(w, n + 1, Len(w))
    BY <1>5 DEF Skips
  <2>2. Len(v) = Len(w) - n /\ Len(v) > 0 /\ \A i \in 1 .. Len(v) : v[i] = w[n + i]
    BY <1>1, <1>5, <2>1
  <2>3. /\ Tail(v) \in Seq(Nat) /\ Len(Tail(v)) = Len(w) - (n + 1)
        /\ \A i \in 1 .. Len(Tail(v)) : Tail(v)[i] = w[(n + 1) + i]
    <3>1. /\ Tail(v) \in Seq(Nat) /\ Len(Tail(v)) = Len(v) - 1 /\ Len(v) \in Nat
          /\ \A i \in 1 .. Len(v) - 1 : Tail(v)[i] = v[i + 1]
      BY <1>5
    <3>2. \A i \in 1 .. Len(v) - 1 : i + 1 \in 1 .. Len(v) /\ n + (i + 1) = (n + 1) + i
      BY <3>1
    <3>3. Len(v) - 1 = Len(w) - (n + 1)
      <4>1. Len(v) = Len(w) - n /\ Len(w) \in Nat
        BY <1>1, <2>2
      <4>2. QED BY <4>1
    <3>4. QED BY <2>2, <3>1, <3>2, <3>3
  <2> DEFINE u == SubSeq(w, (n + 1) + 1, Len(w))
  <2>4. /\ n + 1 \in 0 .. Len(w)
        /\ u \in Seq(Nat) /\ Len(u) = Len(w) - (n + 1)
        /\ \A i \in 1 .. Len(u) : u[i] = w[(n + 1) + i]
    BY <2>1, <2>2
  <2> HIDE DEF u
  <2>5. Tail(v) = u
    <3> DEFINE y == Tail(v)
               k == Len(w) - (n + 1)
    <3>1. y \in Seq(Nat) /\ Len(y) = k /\ Len(u) = k /\ \A i \in 1 .. k : y[i] = u[i]
      BY <2>3, <2>4
    <3> HIDE DEF y, k
    <3>2. y = [i \in 1 .. k |-> y[i]] /\ u = [i \in 1 .. k |-> u[i]]
      BY <2>4, <3>1
    <3>3. [i \in 1 .. k |-> y[i]] = [i \in 1 .. k |-> u[i]]
      BY <3>1
    <3>4. QED BY <3>2, <3>3 DEF y
  <2>6. QED BY <2>4, <2>5 DEF u, Skips
<1>6. QED BY <1>2, <1>4, <1>5

\* PQgetResult() takes the oldest query, or none: only if its result is one of
\* a query.
LEMMA TakenQueries ==
  ASSUME NEW p \in PgStates, p.mode # "off", NEW t \in Taken(p)
  PROVE  /\ t.status \in {"ok", "error", "aborted"} =>
              /\ p.queue # << >> /\ Queries(p.queue) # << >>
              /\ Head(Queries(p.queue)) = Head(p.queue).id
              /\ Queries(t.left.queue) = Tail(Queries(p.queue))
         /\ t.status \notin {"ok", "error", "aborted"} =>
              /\ Queries(t.left.queue) = Queries(p.queue)
              /\ t.status \in {"null", "sync", "row"}
              /\ t.status = "row" => t.left.queue = p.queue
<1>1. p.queue \in Seq(Commands)
  BY DEF PgStates
<1>2. CASE p.null
  <2>1. t = [status |-> "null", left |-> [p EXCEPT !.null = FALSE]]
    BY <1>2 DEF Taken
  <2>2. t.status = "null" /\ t.left.queue = p.queue
    BY <2>1 DEF PgStates
  <2>3. QED BY <2>2
<1>3. CASE ~p.null /\ p.queue = << >>
  <2>1. t = [status |-> "null", left |-> p]
    BY <1>3 DEF Taken
  <2>2. QED BY <2>1
<1>4. CASE ~p.null /\ p.queue # << >>
  <2>1. Tail(p.queue) \in Seq(Commands) /\ Head(p.queue) \in Commands
    BY <1>1, <1>4
  <2>2. Head(p.queue).cmd \in {"query", "sync"} /\ Head(p.queue).id \in Nat
    BY <2>1 DEF Commands
  <2>3. \A mode \in {"on", "aborted"}, null \in BOOLEAN :
          Removed(p, mode, null).queue = Tail(p.queue)
    BY <2>1 DEF Removed, PgStates
  <2>4. /\ Queries(Tail(p.queue)) \in Seq(Nat)
        /\ Queries(p.queue) = (IF Head(p.queue).cmd = "query" THEN << Head(p.queue).id >> ELSE << >>)
                                \o Queries(Tail(p.queue))
    BY <1>1, <1>4, <2>1, QueriesFacts
  <2>5. CASE Head(p.queue).cmd = "sync"
    <3>1. t = [status |-> "sync", left |-> Removed(p, "on", FALSE)]
      BY <1>4, <2>5 DEF Taken
    <3>2. t.status = "sync" /\ t.left.queue = Tail(p.queue)
      BY <2>3, <3>1
    <3>3. << >> \o Queries(Tail(p.queue)) = Queries(Tail(p.queue))
      BY <2>4
    <3>4. Queries(p.queue) = Queries(Tail(p.queue))
      BY <2>4, <2>5, <3>3
    <3>5. QED BY <3>2, <3>4
  <2>6. CASE Head(p.queue).cmd = "query"
    <3> DEFINE a == Removed(p, "aborted", TRUE)
               o == Removed(p, "on", TRUE)
    <3>1. Taken(p) =
            IF p.mode = "aborted"
              THEN { [status |-> "aborted", left |-> a] }
              ELSE { [status |-> "ok", left |-> o], [status |-> "error", left |-> a] }
                   \cup (IF p.single THEN { [status |-> "row", left |-> p] } ELSE {})
      BY <1>4, <2>6 DEF Taken
    <3>2. a.queue = Tail(p.queue) /\ o.queue = Tail(p.queue)
      BY <2>3
    <3> HIDE DEF a, o
    <3>3. \/ t = [status |-> "aborted", left |-> a] \/ t = [status |-> "ok", left |-> o]
          \/ t = [status |-> "error", left |-> a] \/ t = [status |-> "row", left |-> p]
      BY <3>1
    <3>4. \/ t.status \in {"ok", "error", "aborted"} /\ t.left.queue = Tail(p.queue)
          \/ t.status = "row" /\ t.left.queue = p.queue
      BY <3>2, <3>3
    <3> DEFINE w == Queries(Tail(p.queue))
               i == Head(p.queue).id
    <3>5. Queries(p.queue) = << i >> \o w /\ w \in Seq(Nat) /\ i \in Nat
      BY <2>2, <2>4, <2>6
    <3> HIDE DEF w, i
    <3>6. << i >> \o w # << >> /\ Head(<< i >> \o w) = i /\ Tail(<< i >> \o w) = w
      BY <3>5
    <3>7. QED BY <1>4, <3>4, <3>5, <3>6 DEF w, i
  <2>7. QED BY <2>2, <2>5, <2>6
<1>5. QED BY <1>2, <1>3, <1>4
\* The commands in libpq's queue are some of those that were sent, none of
\* them newer than the last one.
Within(q, k) == \A n \in 1 .. Len(q) : q[n].id \in 1 .. k

QueueInv ==
  /\ PipelineInv
  /\ threw \in BOOLEAN
  /\ commands <= MaxCommands
  /\ Within(pg.queue, commands)

\* A call that gives no result
Passes ==
  /\ UNCHANGED given
  /\ \E n \in Nat : Skips(Waiting, Queries(pg'.queue), n) /\ (n > 0 => threw' = TRUE)

LEMMA WaitingFacts ==
  ASSUME QueueInv
  PROVE  /\ pg.queue \in Seq(Commands) /\ commands \in Nat
         /\ Waiting = Queries(pg.queue) /\ Waiting \in Seq(1 .. commands) /\ Waiting \in Seq(Nat)
<1>1. pg.queue \in Seq(Commands) /\ commands \in Nat
  BY DEF QueueInv, PipelineInv, PgStates
<1>2. Queries(pg.queue) \in Seq(1 .. commands) /\ Queries(pg.queue) \in Seq(Nat)
  BY <1>1, QueriesWithin, QueriesFacts DEF QueueInv, Within
<1>3. QED BY <1>1, <1>2 DEF Waiting

LEMMA WaitingPrime == Waiting' = Queries(pg'.queue)
BY DEF Waiting, Queries

LEMMA PassesNone ==
  ASSUME UNCHANGED given, Skips(Waiting, Queries(pg'.queue), 0)
  PROVE  Passes
<1>1. 0 \in Nat /\ ~(0 > 0)
  OBVIOUS
<1>2. QED BY <1>1 DEF Passes

LEMMA PassesImplements ==
  ASSUME QueueInv, threw' \in BOOLEAN, Passes
  PROVE  PipelineResults!PassOver \/ PipelineResults!Other
<1>1. PICK n \in Nat : Skips(Waiting, Waiting', n) /\ (n > 0 => threw' = TRUE)
  BY WaitingPrime DEF Passes
<1>2. Waiting \in Seq(Nat) /\ given' = given
  BY WaitingFacts DEF Passes
<1>3. CASE n = 0
  <2>1. Waiting' = SubSeq(Waiting, 1, Len(Waiting))
    BY <1>1, <1>3 DEF Skips
  <2>2. Waiting' = Waiting
    BY <1>2, <2>1
  <2>3. QED BY <1>2, <2>2 DEF PipelineResults!Other
<1>4. CASE n > 0
  <2>1. /\ n \in 1 .. Len(Waiting) /\ Waiting' = SubSeq(Waiting, n + 1, Len(Waiting))
        /\ threw' = TRUE
    BY <1>1, <1>2, <1>4 DEF Skips
  <2>2. QED BY <1>2, <2>1 DEF PipelineResults!PassOver
<1>5. QED BY <1>3, <1>4

\* The connection is closed, and what waits is lost, which is thrown.
LEMMA TimeoutPasses ==
  ASSUME QueueInv, Timeout
  PROVE  Passes /\ threw' \in BOOLEAN
<1>1. pg'.queue = << >> /\ threw' = TRUE /\ UNCHANGED given
  BY DEF Timeout, PipelineOff
<1>2. Waiting \in Seq(Nat) /\ Len(Waiting) \in Nat
  BY WaitingFacts
<1>3. Skips(Waiting, << >>, Len(Waiting))
  BY <1>2, SkipFacts
<1>4. Queries(pg'.queue) = << >>
  BY <1>1, QueriesFacts
<1>5. QED BY <1>1, <1>2, <1>3, <1>4 DEF Passes

\* One result is taken, whatever it is.
LEMMA TakenSkips ==
  ASSUME NEW p \in PgStates, p.mode # "off", NEW t \in Taken(p),
         NEW w \in Seq(Nat), NEW n \in Nat, Skips(w, Queries(p.queue), n)
  PROVE  \E m \in {n, n + 1} :
           /\ Skips(w, Queries(t.left.queue), m)
           /\ t.status \notin {"ok", "error", "aborted"} => m = n
<1>1. Queries(p.queue) \in Seq(Nat)
  BY QueriesFacts DEF PgStates
<1>2. CASE t.status \in {"ok", "error", "aborted"}
  <2>1. Queries(p.queue) # << >> /\ Queries(t.left.queue) = Tail(Queries(p.queue))
    BY <1>2, TakenQueries
  <2>2. Skips(w, Queries(t.left.queue), n + 1)
    BY <1>1, <2>1, SkipFacts
  <2>3. QED BY <1>2, <2>2
<1>3. CASE t.status \notin {"ok", "error", "aborted"}
  BY <1>3, TakenQueries
<1>4. QED BY <1>2, <1>3

LEMMA GetResultImplements ==
  ASSUME QueueInv, PipelineGetResult
  PROVE  threw' \in BOOLEAN /\ (PipelineResults!Give \/ Passes)
<1>1. pg \in PgStates /\ pg.mode # "off"
  BY DEF PipelineGetResult, QueueInv, PipelineInv
<1>2. Waiting \in Seq(Nat) /\ Waiting = Queries(pg.queue) /\ Skips(Waiting, Queries(pg.queue), 0)
  BY WaitingFacts, SkipFacts
<1>3. CASE Timeout
  BY <1>3, TimeoutPasses
<1>4. CASE ~Timeout
  <2>1. PICK t \in Taken(pg) : IF t.status = "null" THEN Throws(t.left) ELSE Collect(t)
    BY <1>4 DEF PipelineGetResult
  <2>2. PICK n \in Nat :
          /\ Skips(Waiting, Queries(t.left.queue), n)
          /\ t.status \notin {"ok", "error", "aborted"} => n = 0
    BY <1>1, <1>2, TakenSkips
  <2>3. t.left \in PgStates /\ t.left.mode # "off"
    BY <1>1, TakenFacts
  <2>4. CASE t.status = "null"
    <3>1. pg' = t.left /\ threw' = TRUE /\ UNCHANGED given
      BY <2>1, <2>4 DEF Throws
    <3>2. QED BY <2>2, <3>1 DEF Passes
  <2>5. CASE t.status = "row"
    <3>1. pg' = t.left /\ threw' = FALSE /\ UNCHANGED given
      BY <2>1, <2>5 DEF Collect
    <3>2. n = 0
      BY <2>2, <2>5
    <3>3. QED BY <2>2, <3>1, <3>2, PassesNone
  <2>6. CASE t.status \notin {"null", "row"}
    <3>1. PICK next \in Taken(t.left) :
            IF next.status = "null"
              THEN /\ pg' = next.left
                   /\ threw' = (t.status = "error")
                   /\ Gives(t.status)
              ELSE Throws(next.left)
      BY <2>1, <2>6 DEF Collect
    <3>2. CASE next.status = "null"
      <4>1. /\ pg' = next.left /\ threw' = (t.status = "error") /\ threw' \in BOOLEAN
            /\ Gives(t.status)
        BY <3>1, <3>2
      <4>2. Queries(pg'.queue) = Queries(t.left.queue)
        BY <2>3, <3>2, <4>1, TakenQueries
      <4>3. CASE t.status \in {"ok", "error", "aborted"}
        <5>1. /\ Waiting # << >> /\ Head(Waiting) = Head(pg.queue).id
              /\ Waiting' = Tail(Waiting)
          BY <1>1, <1>2, <4>2, <4>3, TakenQueries, WaitingPrime
        <5>2. given' = Append(given, Head(Waiting))
          BY <4>1, <4>3, <5>1 DEF Gives
        <5>3. QED BY <4>1, <5>1, <5>2 DEF PipelineResults!Give
      <4>4. CASE t.status \notin {"ok", "error", "aborted"}
        <5>1. n = 0 /\ UNCHANGED given
          BY <2>2, <4>1, <4>4 DEF Gives
        <5>2. QED BY <2>2, <4>1, <4>2, <5>1 DEF Passes
      <4>5. QED BY <4>3, <4>4
    <3>3. CASE next.status # "null"
      <4>1. pg' = next.left /\ threw' = TRUE /\ UNCHANGED given
        BY <3>1, <3>3 DEF Throws
      <4>2. \E m \in {n, n + 1} : Skips(Waiting, Queries(pg'.queue), m)
        BY <1>2, <2>2, <2>3, <4>1, TakenSkips
      <4>3. QED BY <4>1, <4>2 DEF Passes
    <3>4. QED BY <3>2, <3>3
  <2>7. QED BY <2>4, <2>5, <2>6
<1>5. QED BY <1>3, <1>4

\* Only a result that is not one of a query passes for a synchronisation point
\* without an exception.
LEMMA ConsumeSyncPasses ==
  ASSUME QueueInv, ConsumeSync
  PROVE  threw' \in BOOLEAN /\ Passes
<1>1. pg \in PgStates /\ pg.mode # "off"
  BY DEF ConsumeSync, QueueInv, PipelineInv
<1>2. Waiting \in Seq(Nat) /\ Skips(Waiting, Queries(pg.queue), 0)
  BY WaitingFacts, SkipFacts
<1>3. CASE Timeout
  BY <1>3, TimeoutPasses
<1>4. CASE ~Timeout
  <2>1. PICK t \in Taken(pg) :
          pg' = t.left /\ threw' = (t.status # "sync") /\ UNCHANGED given
    BY <1>4 DEF ConsumeSync
  <2>2. PICK n \in Nat :
          /\ Skips(Waiting, Queries(t.left.queue), n)
          /\ t.status \notin {"ok", "error", "aborted"} => n = 0
    BY <1>1, <1>2, TakenSkips
  <2>3. threw' \in BOOLEAN /\ (n > 0 => threw' = TRUE)
    <3>1. CASE t.status = "sync"
      <4>1. threw' = FALSE
        BY <2>1, <3>1
      <4>2. t.status \notin {"ok", "error", "aborted"}
        BY <3>1
      <4>3. n = 0
        BY <2>2, <4>2
      <4>4. ~(n > 0)
        BY <4>3
      <4>5. threw' \in BOOLEAN
        BY <4>1
      <4>6. QED BY <4>4, <4>5
    <3>2. CASE t.status # "sync"
      <4>1. threw' = TRUE
        BY <2>1, <3>2
      <4>2. QED BY <4>1
    <3>3. QED BY <3>1, <3>2
  <2>4. QED BY <2>1, <2>2, <2>3 DEF Passes
<1>5. QED BY <1>3, <1>4

\* A new command has a number of its own.
LEMMA SendImplements ==
  ASSUME QueueInv, NEW cmd \in {"query", "sync"}, SendCommand(cmd)
  PROVE  /\ threw' \in BOOLEAN
         /\ \/ Passes
            \/ \E q \in 1 .. MaxCommands : PipelineResults!Send(q)
<1> DEFINE new == [cmd |-> cmd, id |-> commands + 1]
<1>1. /\ pg.queue \in Seq(Commands) /\ commands \in Nat
      /\ Waiting = Queries(pg.queue) /\ Waiting \in Seq(1 .. commands) /\ Waiting \in Seq(Nat)
  BY WaitingFacts
<1>2. new \in Commands
  BY <1>1 DEF Commands
<1>3. pg'.queue = Append(pg.queue, new) /\ threw' = FALSE /\ UNCHANGED given
  <2> HIDE DEF new
  <2>1. pg' = [pg EXCEPT !.queue = Append(@, new)]
    BY DEF SendCommand, Sends, new
  <2>2. QED BY <2>1 DEF SendCommand, QueueInv, PipelineInv, PgStates
<1>4. Waiting' = IF cmd = "query" THEN Append(Waiting, commands + 1) ELSE Waiting
  BY <1>1, <1>2, <1>3, QueriesFacts, WaitingPrime
<1>5. CASE cmd = "query"
  <2>1. commands + 1 \in 1 .. MaxCommands
    BY <1>1, MaxCommandsAssumption DEF SendCommand
  <2>2. \A i \in DOMAIN Waiting : Waiting[i] # commands + 1
    BY <1>1
  <2>3. PipelineResults!Send(commands + 1)
    BY <1>3, <1>4, <1>5, <2>2 DEF PipelineResults!Send
  <2>4. QED BY <1>3, <2>1, <2>3
<1>6. CASE cmd # "query"
  <2>1. Skips(Waiting, Queries(pg'.queue), 0)
    BY <1>1, <1>4, <1>6, SkipFacts, WaitingPrime
  <2>2. QED BY <1>3, <2>1, PassesNone
<1>7. QED BY <1>5, <1>6
\* What keeps the queries that wait and the results that were given.
LEMMA OtherCalls ==
  ASSUME QueueInv, threw' \in BOOLEAN, pg'.queue = pg.queue, UNCHANGED given
  PROVE  Passes
<1>1. Skips(Waiting, Queries(pg'.queue), 0)
  BY WaitingFacts, SkipFacts
<1>2. QED BY <1>1, PassesNone

LEMMA ExitKeeps ==
  ASSUME QueueInv, Exit
  PROVE  threw' \in BOOLEAN /\ pg'.queue = pg.queue
<1>1. CASE MayExit
  <2>1. pg' = PipelineOff /\ threw' = FALSE /\ pg.queue = << >>
    BY <1>1 DEF Exit, MayExit
  <2>2. QED BY <2>1 DEF PipelineOff
<1>2. CASE ~MayExit
  <2>1. pg' = pg /\ threw' = TRUE
    BY <1>2 DEF Exit
  <2>2. QED BY <2>1
<1>3. QED BY <1>1, <1>2

LEMMA CallImplements ==
  ASSUME QueueInv, PipelineNext
  PROVE  threw' \in BOOLEAN /\ PipelineResults!Next
<1>1. CASE EnterByHand \/ OpenPipeline
  <2>1. Enter /\ threw' = FALSE /\ UNCHANGED given
    BY <1>1 DEF EnterByHand, OpenPipeline
  <2>2. pg'.queue = pg.queue
    BY <2>1 DEF Enter, QueueInv, PipelineInv, PgStates
  <2>3. QED BY <2>1, <2>2, OtherCalls, PassesImplements DEF PipelineResults!Next
<1>2. CASE ExitByHand
  <2>1. Exit /\ UNCHANGED given
    BY <1>2 DEF ExitByHand
  <2>2. QED BY <2>1, ExitKeeps, OtherCalls, PassesImplements DEF PipelineResults!Next
<1>3. ASSUME NEW cmd \in {"query", "sync"}, SendCommand(cmd)
      PROVE  threw' \in BOOLEAN /\ PipelineResults!Next
  BY <1>3, SendImplements, PassesImplements DEF PipelineResults!Next
<1>4. CASE SetSingleRowMode
  <2>1. pg'.queue = pg.queue /\ threw' = FALSE /\ UNCHANGED given
    BY <1>4 DEF SetSingleRowMode, QueueInv, PipelineInv, PgStates
  <2>2. QED BY <2>1, OtherCalls, PassesImplements DEF PipelineResults!Next
<1>5. CASE PipelineGetResult
  BY <1>5, GetResultImplements, PassesImplements DEF PipelineResults!Next
<1>6. CASE ConsumeSync
  BY <1>6, ConsumeSyncPasses, PassesImplements DEF PipelineResults!Next
<1>7. CASE PipelineFinish
  <2>1. threw' \in BOOLEAN /\ pg'.queue = pg.queue /\ UNCHANGED given
    <3>1. CASE pipeline = "active"
      <4>1. Exit /\ UNCHANGED given
        BY <1>7, <3>1 DEF PipelineFinish, FinishActive
      <4>2. QED BY <4>1, ExitKeeps
    <3>2. CASE pipeline # "active"
      <4>1. threw' = FALSE /\ UNCHANGED << pg, given >>
        BY <1>7, <3>2 DEF PipelineFinish
      <4>2. QED BY <4>1
    <3>3. QED BY <3>1, <3>2
  <2>2. QED BY <2>1, OtherCalls, PassesImplements DEF PipelineResults!Next
<1>8. CASE PipelineDestroy
  <2>1. UNCHANGED << pg, given, threw >>
    BY <1>8 DEF PipelineDestroy
  <2>2. threw' \in BOOLEAN /\ pg'.queue = pg.queue
    BY <2>1 DEF QueueInv
  <2>3. QED BY <2>1, <2>2, OtherCalls, PassesImplements DEF PipelineResults!Next
<1>9. QED BY <1>1, <1>2, <1>3, <1>4, <1>5, <1>6, <1>7, <1>8 DEF PipelineNext
LEMMA TakenWithin ==
  ASSUME NEW p \in PgStates, p.mode # "off", NEW t \in Taken(p), NEW k \in Nat, Within(p.queue, k)
  PROVE  Within(t.left.queue, k)
<1>1. t.left.queue = p.queue \/ (p.queue # << >> /\ t.left.queue = Tail(p.queue))
  BY TakenFacts
<1>2. CASE p.queue # << >> /\ t.left.queue = Tail(p.queue)
  <2>1. p.queue \in Seq(Commands)
    BY DEF PgStates
  <2>2. \A n \in 1 .. Len(Tail(p.queue)) :
          n + 1 \in 1 .. Len(p.queue) /\ Tail(p.queue)[n] = p.queue[n + 1]
    BY <1>2, <2>1
  <2>3. QED BY <1>2, <2>2 DEF Within
<1>3. QED BY <1>1, <1>2

LEMMA QueueStep ==
  ASSUME QueueInv, [PipelineNext]_pipelineVars
  PROVE  QueueInv'
<1>1. PipelineInv'
  BY PipelineStep DEF QueueInv
<1>2. threw' \in BOOLEAN
  <2>1. CASE PipelineNext
    BY <2>1, CallImplements
  <2>2. QED BY <2>1 DEF QueueInv, pipelineVars
<1>3. commands \in Nat /\ pg \in PgStates /\ pg.queue \in Seq(Commands)
  BY DEF QueueInv, PipelineInv, PgStates
<1>4. ASSUME UNCHANGED commands, Within(pg'.queue, commands)
      PROVE  QueueInv'
  <2>1. Within(pg.queue, commands)'
    BY <1>4 DEF Within
  <2>2. QED BY <1>1, <1>2, <1>4, <2>1 DEF QueueInv
<1>5. ASSUME UNCHANGED commands, pg'.queue = pg.queue
      PROVE  QueueInv'
  BY <1>4, <1>5 DEF QueueInv
<1>6. ASSUME UNCHANGED commands, pg'.queue = << >>
      PROVE  QueueInv'
  BY <1>4, <1>6 DEF Within
<1>7. ASSUME UNCHANGED commands, pg.mode # "off", NEW t \in Taken(pg),
             pg' = t.left \/ \E next \in Taken(t.left) : pg' = next.left
      PROVE  QueueInv'
  <2>1. t.left \in PgStates /\ t.left.mode # "off"
    BY <1>3, <1>7, TakenFacts
  <2>2. Within(t.left.queue, commands)
    BY <1>3, <1>7, TakenWithin DEF QueueInv
  <2>3. \A next \in Taken(t.left) : Within(next.left.queue, commands)
    BY <1>3, <2>1, <2>2, TakenWithin
  <2>4. Within(pg'.queue, commands)
    BY <1>7, <2>2, <2>3
  <2>5. QED BY <1>4, <1>7, <2>4
<1>8. CASE UNCHANGED pipelineVars
  BY <1>5, <1>8 DEF pipelineVars
<1>9. CASE EnterByHand \/ OpenPipeline
  <2>1. Enter /\ UNCHANGED commands
    BY <1>9 DEF EnterByHand, OpenPipeline
  <2>2. pg'.queue = pg.queue
    BY <1>3, <2>1 DEF Enter, PgStates
  <2>3. QED BY <1>5, <2>1, <2>2
<1>10. CASE ExitByHand
  BY <1>5, <1>10, ExitKeeps DEF ExitByHand
<1>11. ASSUME NEW cmd \in {"query", "sync"}, SendCommand(cmd) PROVE QueueInv'
  <2> DEFINE new == [cmd |-> cmd, id |-> commands + 1]
  <2>1. commands < MaxCommands /\ commands' = commands + 1 /\ new \in Commands
        /\ new.id \in 1 .. commands + 1
    BY <1>3, <1>11 DEF SendCommand, Commands
  <2> HIDE DEF new
  <2>2. pg'.queue = Append(pg.queue, new)
    <3>1. pg' = [pg EXCEPT !.queue = Append(@, new)]
      BY <1>11 DEF SendCommand, Sends, new
    <3>2. QED BY <1>3, <3>1 DEF PgStates
  <2>3. /\ Len(pg'.queue) = Len(pg.queue) + 1 /\ pg'.queue[Len(pg.queue) + 1] = new
        /\ \A n \in 1 .. Len(pg.queue) : pg'.queue[n] = pg.queue[n]
    BY <1>3, <2>1, <2>2
  <2>4. \A n \in 1 .. Len(pg'.queue) : pg'.queue[n].id \in 1 .. commands + 1
    <3>1. \A n \in 1 .. Len(pg'.queue) : n \in 1 .. Len(pg.queue) \/ n = Len(pg.queue) + 1
      BY <1>3, <2>3
    <3>2. \A n \in 1 .. Len(pg.queue) : pg.queue[n].id \in 1 .. commands + 1
      BY <1>3 DEF QueueInv, Within
    <3>3. QED BY <2>1, <2>3, <3>1, <3>2
  <2>5. Within(pg.queue, commands)'
    BY <2>1, <2>4 DEF Within
  <2>6. commands' <= MaxCommands
    BY <1>3, <2>1, MaxCommandsAssumption
  <2>7. QED BY <1>1, <1>2, <2>5, <2>6 DEF QueueInv
<1>12. CASE SetSingleRowMode
  <2>1. pg'.queue = pg.queue /\ UNCHANGED commands
    BY <1>3, <1>12 DEF SetSingleRowMode, PgStates
  <2>2. QED BY <1>5, <2>1
<1>13. ASSUME Timeout, UNCHANGED commands PROVE QueueInv'
  <2>1. pg'.queue = << >>
    BY <1>13 DEF Timeout, PipelineOff
  <2>2. QED BY <1>6, <1>13, <2>1
<1>14. CASE PipelineGetResult
  <2>1. pg.mode # "off" /\ UNCHANGED commands
    BY <1>14 DEF PipelineGetResult
  <2>2. CASE ~Timeout
    <3>1. PICK t \in Taken(pg) : IF t.status = "null" THEN Throws(t.left) ELSE Collect(t)
      BY <1>14, <2>2 DEF PipelineGetResult
    <3>2. pg' = t.left \/ \E next \in Taken(t.left) : pg' = next.left
      BY <3>1 DEF Throws, Collect
    <3>3. QED BY <1>7, <2>1, <3>2
  <2>3. QED BY <1>13, <2>1, <2>2
<1>15. CASE ConsumeSync
  <2>1. pg.mode # "off" /\ UNCHANGED commands
    BY <1>15 DEF ConsumeSync
  <2>2. CASE ~Timeout
    <3>1. PICK t \in Taken(pg) : pg' = t.left
      BY <1>15, <2>2 DEF ConsumeSync
    <3>2. QED BY <1>7, <2>1, <3>1
  <2>3. QED BY <1>13, <2>1, <2>2
<1>16. CASE PipelineFinish
  <2>1. CASE pipeline = "active"
    <3>1. Exit /\ UNCHANGED commands
      BY <1>16, <2>1 DEF PipelineFinish, FinishActive
    <3>2. QED BY <1>5, <3>1, ExitKeeps
  <2>2. CASE pipeline # "active"
    <3>1. UNCHANGED << pg, commands >>
      BY <1>16, <2>2 DEF PipelineFinish
    <3>2. QED BY <1>5, <3>1
  <2>3. QED BY <2>1, <2>2
<1>17. CASE PipelineDestroy
  <2>1. UNCHANGED << pg, commands >>
    BY <1>17 DEF PipelineDestroy
  <2>2. QED BY <1>5, <2>1
<1>18. QED BY <1>8, <1>9, <1>10, <1>11, <1>12, <1>14, <1>15, <1>16, <1>17 DEF PipelineNext

\* In whatever order a program sends, synchronises and collects, it is given
\* the results in the order of the queries, each once; one is passed over only
\* by a call that throws.
THEOREM PipelineImplementsResultQueue == PipelineSpec => ImplementsResultQueue
<1>1. PipelineInit => QueueInv /\ PipelineResults!Init
  <2> SUFFICES ASSUME PipelineInit PROVE QueueInv /\ PipelineResults!Init
    OBVIOUS
  <2>1. PipelineInv
    BY PipelineStarts
  <2>2. pg.queue = << >> /\ commands = 0 /\ threw = FALSE /\ given = << >>
    BY DEF PipelineInit, PipelineOff
  <2>3. Within(pg.queue, commands) /\ commands <= MaxCommands
    BY <2>2, MaxCommandsAssumption DEF Within
  <2>4. Waiting = << >>
    BY <2>2, QueriesFacts DEF Waiting
  <2>5. QED BY <2>1, <2>2, <2>3, <2>4 DEF QueueInv, PipelineResults!Init
<1>2. QueueInv /\ [PipelineNext]_pipelineVars => QueueInv'
  BY QueueStep
<1>3. QueueInv /\ [PipelineNext]_pipelineVars
        => [PipelineResults!Next]_(PipelineResults!queueVars)
  <2> SUFFICES ASSUME QueueInv, [PipelineNext]_pipelineVars
               PROVE  [PipelineResults!Next]_(PipelineResults!queueVars)
    OBVIOUS
  <2>1. CASE PipelineNext
    BY <2>1, CallImplements
  <2>2. CASE UNCHANGED pipelineVars
    <3>1. Waiting' = Waiting /\ given' = given /\ threw' = threw
      BY <2>2, WaitingPrime DEF Waiting, pipelineVars
    <3>2. QED BY <3>1 DEF PipelineResults!queueVars
  <2>3. QED BY <2>1, <2>2
<1>4. QED BY <1>1, <1>2, <1>3, PTL DEF PipelineSpec, ImplementsResultQueue, PipelineResults!Spec

-----------------------------------------------------------------------------
(* The rows of a table_reader.                                             *)

\* What the program has seen are the first n rows.
SeenRows(n) == visited = [i \in 1 .. n |-> i]

TableInv ==
  /\ size \in Nat /\ taken \in 0 .. size
  /\ failing \in BOOLEAN /\ open \in BOOLEAN
  /\ at \in {"none", "start"} => taken = 0
  /\ at = "start" => open
  /\ at \in {"none", "start", "rows", "next", "over"} => SeenRows(taken)
  /\ at = "body" => \/ data = taken /\ taken > 0 /\ SeenRows(taken - 1)
                    \/ data = NoData
  /\ at = "over" => ~open /\ taken = size /\ ~failing

LEMMA SeesNext ==
  ASSUME NEW n \in Nat, SeenRows(n), visited' = Append(visited, n + 1)
  PROVE  visited' = [i \in 1 .. n + 1 |-> i]
<1>1. visited \in Seq(Nat) /\ Len(visited) = n /\ \A i \in 1 .. n : visited[i] = i
  BY DEF SeenRows
<1>2. visited' \in Seq(Nat) /\ Len(visited') = n + 1 /\ \A i \in 1 .. n + 1 : visited'[i] = i
  BY <1>1
<1>3. visited' = [i \in 1 .. n + 1 |-> visited'[i]]
  BY <1>2
<1>4. [i \in 1 .. n + 1 |-> visited'[i]] = [i \in 1 .. n + 1 |-> i]
  BY <1>2
<1>5. QED BY <1>3, <1>4

\* A fetch gives the next row, or the end with nothing left and no error.
LEMMA FetchFacts ==
  ASSUME TableInv, Fetch
  PROVE  /\ Outcome \in {"crashed", "row", "thrown", "end"}
         /\ UNCHANGED << size, failing >>
         /\ taken' \in 0 .. size /\ open' \in BOOLEAN
         /\ Outcome = "row" => taken' = taken + 1 /\ data' = taken + 1 /\ open'
         /\ Outcome # "row" => taken' = taken
         /\ Outcome = "end" => taken = size /\ ~failing /\ ~open' /\ data' = NoData
<1>1. /\ ~open => Outcome = "crashed"
      /\ open /\ taken < size => Outcome = "row"
      /\ open /\ taken = size /\ failing => Outcome = "thrown"
      /\ open /\ taken = size /\ ~failing => Outcome = "end"
  BY DEF TableInv, Outcome
<1>2. taken < size \/ taken = size
  BY DEF TableInv
<1>3. Outcome = "row" => open /\ taken < size
  BY <1>1, <1>2
<1>4. Outcome = "end" => open /\ taken = size /\ ~failing
  BY <1>1, <1>2
<1>5. QED BY <1>1, <1>2, <1>3, <1>4 DEF TableInv, Fetch

LEMMA TableStep ==
  ASSUME TableInv, [TableNext]_tableVars
  PROVE  TableInv'
<1>1. CASE UNCHANGED tableVars
  BY <1>1 DEF tableVars, TableInv, SeenRows
<1>2. ASSUME NEW n \in 0 .. MaxTable, NEW f \in BOOLEAN, StartCopy(n, f) PROVE TableInv'
  BY <1>2, MaxTableAssumption DEF StartCopy, TableInv, SeenRows
<1>3. CASE LoopBegin
  <2>1. /\ Fetch /\ at = "start" /\ at' = IF Outcome = "thrown" THEN "thrown" ELSE "body"
        /\ visited' = visited
    BY <1>3 DEF LoopBegin
  <2>2. taken = 0 /\ open /\ SeenRows(0)
    BY <2>1 DEF TableInv
  <2>3. Outcome # "crashed"
    BY <2>2 DEF Outcome, TableInv
  <2>4. Outcome = "row" => data' = taken' /\ taken' > 0 /\ SeenRows(taken - 1)'
    BY <2>1, <2>2, FetchFacts DEF SeenRows
  <2>5. QED BY <2>1, <2>3, <2>4, FetchFacts DEF TableInv
<1>4. CASE LoopBody
  <2>1. /\ at = "body" /\ visited' = Append(visited, data)
        /\ at' = IF data = NoData THEN "undefined" ELSE "next"
        /\ UNCHANGED << size, failing, taken, open, data >>
    BY <1>4 DEF LoopBody
  <2>2. CASE data = NoData
    BY <2>1, <2>2 DEF TableInv
  <2>3. CASE data # NoData
    <3>1. data = taken /\ taken \in Nat /\ taken > 0 /\ SeenRows(taken - 1)
      BY <2>1, <2>3 DEF TableInv
    <3>2. taken - 1 \in Nat /\ (taken - 1) + 1 = taken
      BY <3>1
    <3>3. visited' = [i \in 1 .. taken |-> i]
      BY <2>1, <3>1, <3>2, SeesNext
    <3>4. QED BY <2>1, <2>3, <3>3 DEF TableInv, SeenRows
  <2>4. QED BY <2>2, <2>3
<1>5. CASE LoopNext
  <2>1. /\ Fetch /\ at = "next" /\ visited' = visited
        /\ at' = CASE Outcome = "row" -> "body" [] Outcome = "end" -> "over"
                   [] OTHER -> "terminated"
    BY <1>5 DEF LoopNext
  <2>2. SeenRows(taken) /\ taken \in Nat
    BY <2>1 DEF TableInv
  <2>3. Outcome = "row" => data' = taken' /\ taken' > 0 /\ SeenRows(taken - 1)'
    BY <2>1, <2>2, FetchFacts DEF SeenRows
  <2>4. Outcome = "end" => SeenRows(taken)'
    BY <2>1, <2>2, FetchFacts DEF SeenRows
  <2>5. at' \in {"body", "over", "terminated"}
        /\ (at' = "body" => Outcome = "row") /\ (at' = "over" => Outcome = "end")
    BY <2>1
  <2>6. QED BY <2>3, <2>4, <2>5, FetchFacts, <2>1 DEF TableInv
<1>6. CASE GetRow
  <2>1. /\ Fetch /\ at \in {"start", "rows", "over"}
        /\ at' = CASE Outcome = "row" -> "rows" [] Outcome = "end" -> "over" [] OTHER -> Outcome
        /\ visited' = IF Outcome = "row" THEN Append(visited, taken + 1) ELSE visited
    BY <1>6 DEF GetRow
  <2>2. SeenRows(taken) /\ taken \in Nat
    BY <2>1 DEF TableInv
  <2>3. Outcome = "row" => SeenRows(taken)'
    BY <2>1, <2>2, FetchFacts, SeesNext DEF SeenRows
  <2>4. Outcome = "end" => SeenRows(taken)'
    BY <2>1, <2>2, FetchFacts DEF SeenRows
  <2>5. at' \in {"rows", "over", "thrown", "crashed"}
        /\ (at' = "rows" => Outcome = "row") /\ (at' = "over" => Outcome = "end")
    BY <2>1, FetchFacts
  <2>6. QED BY <2>3, <2>4, <2>5, FetchFacts, <2>1 DEF TableInv
<1>7. QED BY <1>1, <1>2, <1>3, <1>4, <1>5, <1>6 DEF TableNext

\* A loop over a table that comes to its end has seen all rows, however many,
\* and no error was behind them.
THEOREM LoopsAlwaysSeeEverything == TableSpec => []LoopsSeeEverything
<1>1. TableInit => TableInv
  <2> SUFFICES ASSUME TableInit PROVE TableInv
    OBVIOUS
  <2>1. SeenRows(0)
    BY DEF TableInit, SeenRows
  <2>2. /\ size = 0 /\ taken = 0 /\ failing = FALSE /\ open = FALSE
        /\ at = "none"
    BY DEF TableInit
  <2>3. size \in Nat /\ taken \in 0 .. size
    BY <2>2
  <2>4. failing \in BOOLEAN /\ open \in BOOLEAN
    BY <2>2
  <2>5. SeenRows(taken)
    BY <2>1, <2>2
  <2>6. QED BY <2>2, <2>3, <2>4, <2>5 DEF TableInv
<1>2. TableInv => LoopsSeeEverything
  BY DEF TableInv, LoopsSeeEverything, SeenRows
<1>3. QED BY <1>1, <1>2, TableStep, PTL DEF TableSpec
=============================================================================
