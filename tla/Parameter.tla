----------------------------- MODULE Parameter -----------------------------
(***************************************************************************)
(* parameter< Max >: the arguments of a statement, gathered call by call.  *)
(*                                                                         *)
(* Each argument takes one or more columns and is kept by an object of its *)
(* own on the heap, which m_params owns; the arrays that are sent point    *)
(* into these objects, into variables of the program, or, once one         *)
(* parameter is bound to another, into the objects of the other.  The      *)
(* array of pointers is all that is sent, by transaction_base::send().     *)
(***************************************************************************)
EXTENDS Integers, SequencesExt, ExclusiveScan

CONSTANTS
  Params,       \* the parameter objects
  Capacity,     \* how many columns each can take
  Arguments,    \* what is bound: its members, and whether it is a temporary
  MaxObjects    \* bound: how many arguments are bound in a behaviour

ASSUME CapacityAssumption == Capacity \in Nat

\* Of each member of an argument: its columns (at least one, as the concept
\* parameter_type_direct asks); where its characters lie, namely in the traits
\* object that has converted it (a number), in the argument (a string), or
\* elsewhere in the program (a view); and what its traits say of the latter:
\* self_contained, which to_taopq() gives to a reference to a string, too.
ASSUME ArgumentsAssumption ==
  \A a \in Arguments :
    /\ a.columns \in Seq(Nat \ {0}) /\ a.columns # << >>
    /\ a.lies \in [DOMAIN a.columns -> {"traits", "argument", "program"}]
    /\ a.contained \in [DOMAIN a.columns -> BOOLEAN]
    /\ a.temporary \in BOOLEAN

VARIABLES
  params,       \* each object: its heap objects, its pointers
  onHeap,       \* the heap objects that are alive
  made,         \* how many have been made
  leaked        \* history: the ones a constructor has left behind

parameterVars == << params, onHeap, made, leaked >>

\* Where a value is when it is not in an object of the library: in a variable
\* of the program, or in a temporary that has been destroyed
Program == 0
Gone == -1

Absent == [live |-> FALSE, objects |-> << >>, values |-> << >>, bound |-> << >>]
Empty == [Absent EXCEPT !.live = TRUE]

-----------------------------------------------------------------------------
\* internal::gen: which member, and which column of it, is the I-th column of
\* members with so many columns each

Outer(ns, i) == Cardinality({ j \in DOMAIN ns : Scan(ns)[j] <= i }) - 1
Inner(ns, i) == i - Scan(ns)[Outer(ns, i) + 1]

-----------------------------------------------------------------------------
\* Mistake: an argument is taken to be self-contained if any member is.
HeldIfNoneIs(a) == a.temporary /\ \A m \in DOMAIN a.contained : ~a.contained[m]

\* Is the argument moved into a holder?  A temporary, unless the traits say of
\* every member that they do not need it any more
Held(a) == a.temporary /\ \E m \in DOMAIN a.contained : ~a.contained[m]

\* Where the characters of member m are once object k has been made
CharactersAt(a, m, k) ==
  CASE a.lies[m] = "traits" -> k
    [] a.lies[m] = "program" -> Program
    [] a.lies[m] = "argument" -> IF Held(a) THEN k ELSE IF a.temporary THEN Gone ELSE Program

\* parameter::fill(), with the traits of object k
Filled(a, k) ==
  [i \in 1 .. Total(a.columns) |->
     LET m == Outer(a.columns, i - 1)
     IN  [at |-> CharactersAt(a, m + 1, k), from |-> a, argument |-> k,
          member |-> m, column |-> Inner(a.columns, i - 1), own |-> TRUE]]

\* What the columns of an argument are: every column of every member in turn
Leaves(a, k) ==
  FlattenSeq([j \in DOMAIN a.columns |->
                [c \in 1 .. a.columns[j] |-> << k, j - 1, c - 1 >>]])

\* Mistake: the length is checked before the columns of the argument are added.
FitsSoFar(p, n) == Len(p.values) <= Capacity

\* Not "too many parameters!"
Fits(p, n) == Len(p.values) + n <= Capacity

\* parameter::bind_impl() of a value.  The object is made first and the length
\* checked before that; a failed one leaves the arguments before it bound.
BindOne(p, a, k) ==
  [p EXCEPT !.objects = Append(@, k), !.values = @ \o Filled(a, k), !.bound = @ \o Leaves(a, k)]

Try(s, a) ==
  IF s.ok /\ Fits(s.p, Total(a.columns))
    THEN [ok |-> TRUE, p |-> BindOne(s.p, a, s.next), next |-> s.next + 1]
    ELSE [s EXCEPT !.ok = FALSE]

\* parameter::bind(): the arguments from left to right, until one is too many
BindAll(p, as, k) ==
  LET tried[n \in 0 .. Len(as)] ==
        IF n = 0 THEN [ok |-> TRUE, p |-> p, next |-> k] ELSE Try(tried[n - 1], as[n])
  IN  tried[Len(as)]

\* parameter::reset() before it binds
Cleared(p) == [p EXCEPT !.objects = << >>, !.values = << >>, !.bound = << >>]

-----------------------------------------------------------------------------
ParameterInit ==
  /\ params = [p \in Params |-> Absent]
  /\ onHeap = {}
  /\ made = 0
  /\ leaked = {}

New(s) == made + 1 .. s.next - 1

\* The constructor.  When it throws there is no destructor to run.
Construct(p, as) ==
  LET s == BindAll(Empty, as, made + 1)
  IN  /\ ~params[p].live
      /\ params' = [params EXCEPT ![p] = IF s.ok THEN s.p ELSE Absent]
      /\ onHeap' = onHeap \cup New(s)
      /\ made' = s.next - 1
      /\ leaked' = IF s.ok THEN leaked ELSE leaked \cup New(s)

\* parameter::bind(); it may throw with some arguments bound
Bind(p, as) ==
  LET s == BindAll(params[p], as, made + 1)
  IN  /\ params[p].live
      /\ params' = [params EXCEPT ![p] = s.p]
      /\ onHeap' = onHeap \cup New(s)
      /\ made' = s.next - 1
      /\ UNCHANGED leaked

\* parameter::bind() of a parameter, of itself even: the pointers are copied.
BindParameter(p, q) ==
  /\ params[p].live /\ params[q].live
  /\ Fits(params[p], Len(params[q].values))
  /\ LET copied == [i \in DOMAIN params[q].values |-> [params[q].values[i] EXCEPT !.own = FALSE]]
     IN  params' = [params EXCEPT ![p].values = @ \o copied, ![p].bound = @ \o params[q].bound]
  /\ UNCHANGED << onHeap, made, leaked >>

\* parameter::reset()
Reset(p, as) ==
  LET s == BindAll(Cleared(params[p]), as, made + 1)
  IN  /\ params[p].live
      /\ params' = [params EXCEPT ![p] = s.p]
      /\ onHeap' = (onHeap \ Range(params[p].objects)) \cup New(s)
      /\ made' = s.next - 1
      /\ UNCHANGED leaked

\* The destructor
Destruct(p) ==
  /\ params[p].live
  /\ params' = [params EXCEPT ![p] = Absent]
  /\ onHeap' = onHeap \ Range(params[p].objects)
  /\ UNCHANGED << made, leaked >>

ParameterNext ==
  \/ /\ made < MaxObjects - 1
     /\ \E p \in Params, a, b \in Arguments :
          Construct(p, << a, b >>) \/ Bind(p, << a, b >>) \/ Reset(p, << a >>)
  \/ \E p \in Params : Construct(p, << >>) \/ Reset(p, << >>) \/ Destruct(p)
  \/ \E p, q \in Params : BindParameter(p, q)

ParameterSpec == ParameterInit /\ [][ParameterNext]_parameterVars

-----------------------------------------------------------------------------
\* What is sent is every column of every member of every argument that was
\* bound since the last reset, in order, also after a call of bind() that
\* failed on its second argument; and neither array grows beyond Max.
BoundInOrder ==
  \A p \in Params :
    /\ params[p].bound = [i \in DOMAIN params[p].values |->
                            LET v == params[p].values[i] IN << v.argument, v.member, v.column >>]
    /\ Len(params[p].objects) <= Capacity /\ Len(params[p].values) <= Capacity

Holds(p, i, k) == i \in DOMAIN params[p].objects /\ params[p].objects[i] = k

\* A member that lies in a temporary which its traits call self-contained: what
\* to_taopq() makes of a temporary when it returns references into it
SaidContained(v) ==
  LET a == v.from IN a.temporary /\ a.lies[v.member + 1] = "argument" /\ a.contained[v.member + 1]

\* Every heap object has one owner, or was left behind by a constructor that
\* threw, so that none is deleted twice.  And a pointer that is sent, unless it
\* was copied from another parameter, leads to the program or to an object that
\* is alive: never to what reset() has deleted, and never to a temporary,
\* whatever members it has, except to those members of one that their own
\* traits call self-contained although they are not.
HeapIsOwned ==
  /\ \A k \in onHeap \ leaked :
       Cardinality({ slot \in Params \X (1 .. Capacity) : Holds(slot[1], slot[2], k) }) = 1
  /\ \A p \in Params :
       /\ Range(params[p].objects) \subseteq onHeap \ leaked
       /\ \A i \in DOMAIN params[p].values :
            LET v == params[p].values[i]
            IN  v.own => v.at \in onHeap \cup {Program} \/ SaidContained(v)
=============================================================================
