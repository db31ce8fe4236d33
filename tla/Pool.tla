-------------------------------- MODULE Pool --------------------------------
(***************************************************************************)
(* internal::pool and connection_pool: threads that borrow connections     *)
(* from pools and give them back, move them between pools, clean pools up  *)
(* and let go of the pools themselves.                                     *)
(*                                                                         *)
(* The mutex of a pool guards its list only, and every section under it is *)
(* one step.  Outside of them a step makes at most one access to what is   *)
(* shared: the atomic counter m_attached, or the lifetime of a pool.  That *)
(* ends with the last shared_ptr to the pool: the program's, or one a      *)
(* thread took on entering get() or by locking the weak_ptr in a deleter.  *)
(***************************************************************************)
EXTENDS Integers, Sequences, FiniteSets, FiniteSetsExt

CONSTANTS
  Thread,
  Conn,         \* the connections; one that was closed may be opened again
  NoConn,
  PoolId,       \* the pools; each lives once
  NoPool,       \* an empty weak_ptr
  SeesEnd,      \* does v_is_valid() find out that the server has ended the
                \* session?  connection_pool asks libpq only what it knows
                \* already (FALSE); a derived pool may ask more (TRUE)
  MaxEnded      \* how many sessions the server ends

ASSUME NoConnAssumption == NoConn \notin Conn
ASSUME NoPoolAssumption == NoPool \notin PoolId
ASSUME SeesEndAssumption == SeesEnd \in BOOLEAN
ASSUME MaxEndedAssumption == MaxEnded \in Nat

VARIABLES
  pc,           \* where each thread is in its call
  item,         \* the connection the call of a thread works on
  pool,         \* the pool its call holds a shared_ptr to
  target,       \* the pool given to attach(), NoPool for detach()
  mine,         \* the connections each thread has borrowed
  exists,       \* the connections that are open
  link,         \* the m_pool of each connection's deleter
  status,       \* what libpq believes of each connection
  ended,        \* the connections whose session the server has ended
  lapsed,       \* history: those that lay in a list when it did
  nEnded,       \* how often it did, see MaxEnded
  handle,       \* the program has a shared_ptr to the pool
  alive,        \* the pool is not destroyed
  items,        \* m_items of each pool
  attached      \* m_attached of each pool

vars == << pc, item, pool, target, mine, exists, link, status, ended, lapsed, nEnded,
           handle, alive, items, attached >>
threadVars == << pc, item, pool, target, mine >>
poolVars == << handle, alive, items, attached >>
serverVars == << status, ended, lapsed, nEnded >>

\* "busy" stands for everything but idle: in a transaction, with a result
\* unread, or with the connection's end discovered.
Statuses == {"idle", "busy"}
Labels == { "idle", "pull", "check", "create", "count", "leave",
            "uncount", "validate", "push", "relink" }

Elements(s) == { s[i] : i \in 1 .. Len(s) }

\* What the variables range over.
TypeOK ==
  /\ pc \in [Thread -> Labels]
  /\ item \in [Thread -> Conn \cup {NoConn}]
  /\ pool \in [Thread -> PoolId \cup {NoPool}]
  /\ target \in [Thread -> PoolId \cup {NoPool}]
  /\ mine \in [Thread -> SUBSET Conn]
  /\ exists \in SUBSET Conn
  /\ link \in [Conn -> PoolId \cup {NoPool}]
  /\ status \in [Conn -> Statuses]
  /\ ended \in SUBSET Conn
  /\ lapsed \in SUBSET ended
  /\ nEnded \in 0 .. MaxEnded
  /\ handle \in [PoolId -> BOOLEAN]
  /\ alive \in [PoolId -> BOOLEAN]
  /\ items \in [PoolId -> Seq(Conn)]
  /\ attached \in [PoolId -> Nat]

Init ==
  /\ pc = [th \in Thread |-> "idle"]
  /\ item = [th \in Thread |-> NoConn]
  /\ pool = [th \in Thread |-> NoPool]
  /\ target = [th \in Thread |-> NoPool]
  /\ mine = [th \in Thread |-> {}]
  /\ exists = {}
  /\ link = [c \in Conn |-> NoPool]
  /\ status = [c \in Conn |-> "idle"]
  /\ ended = {}
  /\ lapsed = {}
  /\ nEnded = 0
  /\ handle = [p \in PoolId |-> TRUE]
  /\ alive = [p \in PoolId |-> TRUE]
  /\ items = [p \in PoolId |-> <<>>]
  /\ attached = [p \in PoolId |-> 0]

-----------------------------------------------------------------------------
Goto(th, label) == pc' = [pc EXCEPT ![th] = label]
Set(th, c) == item' = [item EXCEPT ![th] = c]

\* connection_pool::v_is_valid(), or one a derived class puts in its place
Valid(c) == status[c] = "idle" /\ (SeesEnd => c \notin ended)

\* m_pool.lock() succeeds.
Locks(p) == p # NoPool /\ alive[p]

\* The connections in C are deleted.
Close(C) ==
  /\ exists' = exists \ C
  /\ link' = [c \in Conn |-> IF c \in C THEN NoPool ELSE link[c]]
  /\ status' = [c \in Conn |-> IF c \in C THEN "idle" ELSE status[c]]
  /\ ended' = ended \ C
  /\ lapsed' = lapsed \ C
  /\ UNCHANGED nEnded

\* A shared_ptr to p goes; the others is whether one remains.  With the last
\* one the pool is destroyed, and its list with it.
LetGo(p, others) ==
  IF others
    THEN UNCHANGED << alive, items, exists, link, serverVars >>
    ELSE /\ alive' = [alive EXCEPT ![p] = FALSE]
         /\ items' = [items EXCEPT ![p] = <<>>]
         /\ Close(Elements(items[p]))

-----------------------------------------------------------------------------
(* connection_pool::connection(), that is pool::get(), on a pool the       *)
(* calling thread shares.                                                  *)

Get(th, p) ==
  /\ pc[th] = "idle" /\ handle[p]
  /\ Goto(th, "pull")
  /\ pool' = [pool EXCEPT ![th] = p]
  /\ UNCHANGED << item, target, mine, exists, link, serverVars, poolVars >>

\* Mistake: the connection stays in the list.
PullKeeps(th) ==
  LET s == items[pool[th]]
  IN  /\ pc[th] = "pull"
      /\ IF s = <<>>
           THEN Goto(th, "create") /\ UNCHANGED item
           ELSE Goto(th, "check") /\ Set(th, s[Len(s)])
      /\ UNCHANGED << pool, target, mine, exists, link, serverVars, poolVars >>

\* pull(): under the lock, take the connection given back last.
Pull(th) ==
  LET s == items[pool[th]]
  IN  /\ pc[th] = "pull"
      /\ IF s = <<>>
           THEN Goto(th, "create") /\ UNCHANGED << item, items >>
           ELSE /\ Goto(th, "check")
                /\ Set(th, s[Len(s)])
                /\ items' = [items EXCEPT ![pool[th]] = SubSeq(s, 1, Len(s) - 1)]
      /\ UNCHANGED << pool, target, mine, exists, link, serverVars, handle, alive, attached >>

\* Mistakes: get() trusts what it finds in the list; it puts an invalid
\* connection back before it goes round.
CheckTrusts(th) ==
  /\ pc[th] = "check"
  /\ Goto(th, "count")
  /\ link' = [link EXCEPT ![item[th]] = pool[th]]
  /\ UNCHANGED << item, pool, target, mine, exists, serverVars, poolVars >>

CheckPutsBack(th) ==
  LET c == item[th]
  IN  /\ pc[th] = "check"
      /\ IF Valid(c)
           THEN /\ Goto(th, "count")
                /\ link' = [link EXCEPT ![c] = pool[th]]
                /\ UNCHANGED << item, items >>
           ELSE /\ Goto(th, "pull")
                /\ Set(th, NoConn)
                /\ items' = [items EXCEPT ![pool[th]] = Append(@, c)]
                /\ UNCHANGED link
      /\ UNCHANGED << pool, target, mine, exists, serverVars, handle, alive, attached >>

\* A valid connection is linked to the pool; an invalid one is closed, its
\* deleter being empty, and the loop goes round.
Check(th) ==
  LET c == item[th]
  IN  /\ pc[th] = "check"
      /\ IF Valid(c)
           THEN /\ Goto(th, "count")
                /\ link' = [link EXCEPT ![c] = pool[th]]
                /\ UNCHANGED << item, exists, serverVars >>
           ELSE /\ Goto(th, "pull")
                /\ Set(th, NoConn)
                /\ Close({c})
      /\ UNCHANGED << pool, target, mine, poolVars >>

\* create(): v_create() opens a connection, which gets a linked deleter.
Create(th, c) ==
  /\ pc[th] = "create" /\ c \notin exists
  /\ Goto(th, "count")
  /\ Set(th, c)
  /\ exists' = exists \cup {c}
  /\ link' = [link EXCEPT ![c] = pool[th]]
  /\ UNCHANGED << pool, target, mine, serverVars, poolVars >>

\* v_create() throws.
CreateFails(th) ==
  /\ pc[th] = "create"
  /\ Goto(th, "leave")
  /\ UNCHANGED << item, pool, target, mine, exists, link, serverVars, poolVars >>

\* ++m_attached, and the connection is the caller's.
Count(th) ==
  /\ pc[th] = "count"
  /\ Goto(th, "leave")
  /\ attached' = [attached EXCEPT ![pool[th]] = @ + 1]
  /\ mine' = [mine EXCEPT ![th] = @ \cup {item[th]}]
  /\ Set(th, NoConn)
  /\ UNCHANGED << pool, target, exists, link, serverVars, handle, alive, items >>

\* The call ends, of get() and of a deleter: its shared_ptr to the pool goes.
Leave(th) ==
  LET p == pool[th]
  IN  /\ pc[th] = "leave"
      /\ Goto(th, "idle")
      /\ Set(th, NoConn)
      /\ pool' = [pool EXCEPT ![th] = NoPool]
      /\ LetGo(p, handle[p] \/ \E u \in Thread \ {th} : pool[u] = p)
      /\ UNCHANGED << target, mine, handle, attached >>

-----------------------------------------------------------------------------
(* The deleter, when the last shared_ptr to a borrowed connection goes.    *)

\* m_pool.lock() decides whether it goes back to a pool or is closed.
GiveBack(th, c) ==
  LET p == link[c]
  IN  /\ pc[th] = "idle" /\ c \in mine[th]
      /\ mine' = [mine EXCEPT ![th] = @ \ {c}]
      /\ IF Locks(p)
           THEN /\ Goto(th, "uncount")
                /\ Set(th, c)
                /\ pool' = [pool EXCEPT ![th] = p]
                /\ UNCHANGED << exists, link, serverVars >>
           ELSE /\ Close({c})
                /\ UNCHANGED << pc, item, pool >>
      /\ UNCHANGED << target, poolVars >>

\* --( p->m_attached )
Uncount(th) ==
  /\ pc[th] = "uncount"
  /\ Goto(th, "validate")
  /\ attached' = [attached EXCEPT ![pool[th]] = @ - 1]
  /\ UNCHANGED << item, pool, target, mine, exists, link, serverVars, handle, alive, items >>

\* Mistake: the connection keeps the deleter it was borrowed with.
ValidateKeepsLink(th) ==
  LET c == item[th]
  IN  /\ pc[th] = "validate"
      /\ IF Valid(c)
           THEN /\ Goto(th, "push")
                /\ UNCHANGED << item, exists, link, serverVars >>
           ELSE /\ Goto(th, "leave")
                /\ Set(th, NoConn)
                /\ Close({c})
      /\ UNCHANGED << pool, target, mine, poolVars >>

\* push(), before the lock: a valid connection gets a new, empty deleter.
Validate(th) ==
  LET c == item[th]
  IN  /\ pc[th] = "validate"
      /\ IF Valid(c)
           THEN /\ Goto(th, "push")
                /\ link' = [link EXCEPT ![c] = NoPool]
                /\ UNCHANGED << item, exists, serverVars >>
           ELSE /\ Goto(th, "leave")
                /\ Set(th, NoConn)
                /\ Close({c})
      /\ UNCHANGED << pool, target, mine, poolVars >>

\* push(), under the lock
Push(th) ==
  /\ pc[th] = "push"
  /\ Goto(th, "leave")
  /\ items' = [items EXCEPT ![pool[th]] = Append(@, item[th])]
  /\ Set(th, NoConn)
  /\ UNCHANGED << pool, target, mine, exists, link, serverVars, handle, alive, attached >>

-----------------------------------------------------------------------------
(* attach() and detach() of a borrowed connection                          *)

\* Mistake: the old pool is not told.
AttachUntold(th, c, q) ==
  /\ pc[th] = "idle" /\ c \in mine[th]
  /\ q # NoPool => handle[q]
  /\ Goto(th, "relink")
  /\ Set(th, c)
  /\ target' = [target EXCEPT ![th] = q]
  /\ UNCHANGED << pool, mine, exists, link, serverVars, poolVars >>

\* The counter of the old pool, if it is still there
Attach(th, c, q) ==
  LET o == link[c]
  IN  /\ pc[th] = "idle" /\ c \in mine[th]
      /\ q # NoPool => handle[q]
      /\ Goto(th, "relink")
      /\ Set(th, c)
      /\ target' = [target EXCEPT ![th] = q]
      /\ attached' = IF Locks(o) THEN [attached EXCEPT ![o] = @ - 1] ELSE attached
      /\ UNCHANGED << pool, mine, exists, link, serverVars, handle, alive, items >>

\* The new pool, which may be gone by now, and its counter; detach() has none.
Relink(th) ==
  LET n == target[th]
  IN  /\ pc[th] = "relink"
      /\ Goto(th, "idle")
      /\ link' = [link EXCEPT ![item[th]] = n]
      /\ attached' = IF Locks(n) THEN [attached EXCEPT ![n] = @ + 1] ELSE attached
      /\ Set(th, NoConn)
      /\ target' = [target EXCEPT ![th] = NoPool]
      /\ UNCHANGED << pool, mine, exists, serverVars, handle, alive, items >>

-----------------------------------------------------------------------------
\* erase_invalid(): the invalid connections leave the list under the lock and
\* are closed after it is released, where nobody else can see them.  The others
\* keep their order: the k-th to stay is the k-th valid one.
Kept(s) ==
  LET keep == { i \in 1 .. Len(s) : Valid(s[i]) }
  IN  [ k \in 1 .. Cardinality(keep) |->
          s[CHOOSE i \in keep : Cardinality({ j \in keep : j <= i }) = k] ]

EraseInvalid(th, p) ==
  LET s == items[p]
  IN  /\ pc[th] = "idle" /\ handle[p]
      /\ items' = [items EXCEPT ![p] = Kept(s)]
      /\ Close({ c \in Elements(s) : ~Valid(c) })
      /\ UNCHANGED << threadVars, handle, alive, attached >>

\* Mistake: the program owns the pool alone.
DropPoolAlone(p) ==
  /\ handle[p]
  /\ handle' = [handle EXCEPT ![p] = FALSE]
  /\ LetGo(p, FALSE)
  /\ UNCHANGED << threadVars, attached >>

\* The program lets go of a pool.
DropPool(p) ==
  /\ handle[p]
  /\ handle' = [handle EXCEPT ![p] = FALSE]
  /\ LetGo(p, \E u \in Thread : pool[u] = p)
  /\ UNCHANGED << threadVars, attached >>

\* A borrowed connection is used: it is no longer idle, for one of the reasons
\* above, or idle again, which one whose session has ended never is.
Use(th, c, s) ==
  /\ pc[th] = "idle" /\ c \in mine[th]
  /\ status[c] # s
  /\ c \in ended => s = "busy"
  /\ status' = [status EXCEPT ![c] = s]
  /\ UNCHANGED << threadVars, exists, link, ended, lapsed, nEnded, poolVars >>

\* The server ends the session of a connection; libpq does not know yet.
EndSession(c) ==
  /\ c \in exists \ ended /\ nEnded < MaxEnded
  /\ ended' = ended \cup {c}
  /\ lapsed' = IF \E p \in PoolId : c \in Elements(items[p]) THEN lapsed \cup {c} ELSE lapsed
  /\ nEnded' = nEnded + 1
  /\ UNCHANGED << threadVars, exists, link, status, poolVars >>

\* The steps that continue a call
Continue(th) ==
  \/ Pull(th) \/ Check(th) \/ CreateFails(th) \/ \E c \in Conn : Create(th, c)
  \/ Count(th) \/ Leave(th)
  \/ Uncount(th) \/ Validate(th) \/ Push(th)
  \/ Relink(th)

Next ==
  \/ \E th \in Thread, p \in PoolId : Get(th, p)
  \/ \E th \in Thread : Continue(th)
  \/ \E th \in Thread, c \in Conn : GiveBack(th, c)
  \/ \E th \in Thread, c \in Conn, q \in PoolId \cup {NoPool} : Attach(th, c, q)
  \/ \E th \in Thread, p \in PoolId : EraseInvalid(th, p)
  \/ \E p \in PoolId : DropPool(p)
  \/ \E th \in Thread, c \in Conn, s \in Statuses : Use(th, c, s)
  \/ \E c \in Conn : EndSession(c)

SafeSpec == Init /\ [][Next]_vars

\* Every thread is scheduled; a call, once begun, does not stop by itself.
Spec == SafeSpec /\ \A th \in Thread : WF_vars(Continue(th))

-----------------------------------------------------------------------------
\* Where connection c is: lent to a thread, in the hands of a call, in a list
Lent(c)      == { th \in Thread : c \in mine[th] }
InCall(c)    == { th \in Thread : item[th] = c /\ c \notin mine[th] }
Listed(c)    == UNION { { << p, i >> : i \in { j \in 1 .. Len(items[p]) : items[p][j] = c } } :
                          p \in PoolId }

\* A connection is never shared: an open one is in exactly one place, lent
\* to one thread, in one call, or once in one list, and a closed one in none.
OnePlace ==
  \A c \in Conn :
    Cardinality(Lent(c)) + Cardinality(InCall(c)) + Cardinality(Listed(c))
      = IF c \in exists THEN 1 ELSE 0

\* What waits in a list is idle as far as libpq knows and has an empty
\* deleter: closing it can neither count it down nor put it back.
ListedIsFree ==
  \A p \in PoolId : \A c \in Elements(items[p]) :
    status[c] = "idle" /\ link[c] = NoPool

\* m_attached counts the connections whose deleter would count them down:
\* the lent ones, and those in a call that has not yet done so.  A size_t, it
\* never drops below zero.
Counted(p) ==
  { c \in exists : link[c] = p /\
      \/ \E th \in Thread : c \in mine[th] /\ item[th] # c
      \/ \E th \in Thread : item[th] = c /\ pc[th] = "uncount" }

AttachedIsExact ==
  \A p \in PoolId : alive[p] => attached[p] = Cardinality(Counted(p))

\* A thread that works on a pool keeps it from being destroyed under it.
NoUseAfterFree == \A th \in Thread : pool[th] # NoPool => alive[pool[th]]

\* get() hands out a connection that is idle and counted against the pool it
\* was asked of; if v_is_valid() can tell, never one whose session ended while
\* it lay in the list, whatever the other threads take, give back and erase.
HandedOut(th, c) == c \in mine'[th] \ mine[th]
BorrowedIsUsable ==
  [][ \A th \in Thread, c \in Conn : HandedOut(th, c) =>
        /\ status[c] = "idle" /\ link[c] = pool[th]
        /\ SeesEnd => c \notin lapsed ]_vars

\* Every call returns: get() does not loop for ever over connections that
\* fail, and a deleter comes to its end.
CallsReturn == \A th \in Thread : pc[th] # "idle" ~> pc[th] = "idle"

=============================================================================
