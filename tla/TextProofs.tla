----------------------------- MODULE TextProofs -----------------------------
(***************************************************************************)
(* The texts of COPY and of arrays arrive, for rows and arrays of any      *)
(* length, of values of any length with any characters in them.            *)
(*                                                                         *)
(* A recursive definition cannot be unfolded here for a text of unknown    *)
(* length, so reading is looked at as a machine: Leads(steps, s, text, t)  *)
(* says that there is a run over the text, from s to t, and the lemmas put *)
(* runs together, from the character to the value to the row.  A last      *)
(* lemma for each machine says that its run is what the model's operator   *)
(* returns.                                                                *)
(*                                                                         *)
(* For arrays that is not enough, because some elements do not arrive: an  *)
(* element that is misread has to spoil the array whatever follows.  The   *)
(* machines only ever append to the elements they have, and never leave    *)
(* an error, so one wrong element, or an error, is there until the end.    *)
(***************************************************************************)
EXTENDS DataProofs, ArrayText

-----------------------------------------------------------------------------
(* Machines.  The steps of a machine are a set of triples: a state, a      *)
(* character, the next state.                                              *)

\* A text leads the machine from one state to another.
Leads(steps, s, text, t) ==
  \E f : /\ f[0] = s /\ f[Len(text)] = t
         /\ \A n \in 1 .. Len(text) : << f[n - 1], text[n], f[n] >> \in steps

\* The empty text leads nowhere else.
LEMMA LeadsNowhere ==
  ASSUME NEW steps, NEW s
  PROVE  Leads(steps, s, << >>, s)
<1> DEFINE f == [n \in 0 .. 0 |-> s]
           none == << >>
<1>1. f[0] = s /\ Len(none) = 0 /\ 1 .. 0 = {}
  OBVIOUS
<1> HIDE DEF f, none
<1>2. f[Len(none)] = s /\ \A n \in 1 .. Len(none) : << f[n - 1], none[n], f[n] >> \in steps
  BY <1>1
<1>3. Leads(steps, s, none, s)
  BY <1>1, <1>2 DEF Leads
<1>4. QED BY <1>3 DEF none

\* A step is a text of one character.
LEMMA LeadsByOne ==
  ASSUME NEW steps, NEW s, NEW ch, NEW t, << s, ch, t >> \in steps
  PROVE  Leads(steps, s, << ch >>, t)
<1> DEFINE f == [n \in 0 .. 1 |-> IF n = 0 THEN s ELSE t]
<1>1. f[0] = s /\ f[1] = t /\ Len(<< ch >>) = 1 /\ << ch >>[1] = ch
  OBVIOUS
<1> HIDE DEF f
<1>2. QED BY <1>1 DEF Leads

\* Two characters one behind the other
LEMMA Two ==
  ASSUME NEW x, NEW y
  PROVE  << x >> \o << y >> = << x, y >>
<1> DEFINE D == {x, y}
           a == << x >>
           b == << y >>
           u == a \o b
           w == << x, y >>
<1>1. a \in Seq(D) /\ b \in Seq(D) /\ Len(a) = 1 /\ Len(b) = 1 /\ a[1] = x /\ b[1] = y
  OBVIOUS
<1>2. w \in Seq(D) /\ Len(w) = 2 /\ w[1] = x /\ w[2] = y
  OBVIOUS
<1> HIDE DEF a, b, w, D
<1>3. u \in Seq(D) /\ Len(u) = 2 /\ u[1] = x /\ u[1 + 1] = y
  <2>1. /\ u \in Seq(D) /\ Len(u) = Len(a) + Len(b)
        /\ \A i \in 1 .. Len(a) : u[i] = a[i]
        /\ \A i \in 1 .. Len(b) : u[Len(a) + i] = b[i]
    BY <1>1, ConcatFacts
  <2> HIDE DEF u
  <2>2. 1 \in 1 .. Len(a) /\ 1 \in 1 .. Len(b)
    BY <1>1
  <2>3. QED BY <1>1, <2>1, <2>2
<1> HIDE DEF u
<1>4. u = [i \in 1 .. 2 |-> u[i]] /\ w = [i \in 1 .. 2 |-> w[i]]
  BY <1>2, <1>3
<1>5. \A i \in 1 .. 2 : u[i] = w[i]
  <2>1. 1 + 1 = 2 /\ \A i \in 1 .. 2 : i = 1 \/ i = 2
    OBVIOUS
  <2>2. QED BY <1>2, <1>3, <2>1
<1>6. u = w
  BY <1>4, <1>5
<1>7. QED BY <1>6 DEF u, w, a, b

\* One text behind another leads on from where the first one led.
LEMMA LeadsOn ==
  ASSUME NEW steps, NEW C, NEW a \in Seq(C), NEW b \in Seq(C), NEW s, NEW t, NEW u,
         Leads(steps, s, a, t), Leads(steps, t, b, u)
  PROVE  Leads(steps, s, a \o b, u)
<1>1. PICK f : /\ f[0] = s /\ f[Len(a)] = t
               /\ \A n \in 1 .. Len(a) : << f[n - 1], a[n], f[n] >> \in steps
  BY DEF Leads
<1>2. PICK g : /\ g[0] = t /\ g[Len(b)] = u
               /\ \A n \in 1 .. Len(b) : << g[n - 1], b[n], g[n] >> \in steps
  BY DEF Leads
<1> DEFINE ab == a \o b
           h == [n \in 0 .. Len(a) + Len(b) |-> IF n <= Len(a) THEN f[n] ELSE g[n - Len(a)]]
<1>3. /\ Len(a) \in Nat /\ Len(b) \in Nat /\ Len(ab) = Len(a) + Len(b)
      /\ \A i \in 1 .. Len(a) : ab[i] = a[i]
      /\ \A i \in 1 .. Len(b) : ab[Len(a) + i] = b[i]
  BY ConcatFacts
<1> HIDE DEF ab
<1>4. \A n \in 0 .. Len(a) : h[n] = f[n]
  BY <1>3
<1>5. \A n \in 0 .. Len(b) : h[Len(a) + n] = g[n]
  <2>1. ASSUME NEW n \in 0 .. Len(b) PROVE h[Len(a) + n] = g[n]
    <3>1. CASE n = 0
      <4>1. Len(a) + n = Len(a) /\ Len(a) \in 0 .. Len(a)
        BY <1>3, <3>1
      <4>2. h[Len(a) + n] = f[Len(a)]
        BY <1>4, <4>1
      <4>3. QED BY <1>1, <1>2, <3>1, <4>2
    <3>2. CASE n # 0
      <4>1. Len(a) + n \in 0 .. Len(a) + Len(b) /\ ~(Len(a) + n <= Len(a)) /\ (Len(a) + n) - Len(a) = n
        BY <1>3, <3>2
      <4>2. QED BY <4>1
    <3>3. QED BY <3>1, <3>2
  <2>2. QED BY <2>1
<1> HIDE DEF h
<1>6. h[0] = s /\ h[Len(ab)] = u
  BY <1>1, <1>2, <1>3, <1>4, <1>5
<1>7. ASSUME NEW n \in 1 .. Len(ab) PROVE << h[n - 1], ab[n], h[n] >> \in steps
  <2>1. CASE n <= Len(a)
    <3>1. n \in 1 .. Len(a) /\ n \in 0 .. Len(a) /\ n - 1 \in 0 .. Len(a)
      BY <1>3, <2>1
    <3>2. h[n] = f[n] /\ h[n - 1] = f[n - 1] /\ ab[n] = a[n]
      BY <1>3, <1>4, <3>1
    <3>3. QED BY <1>1, <3>1, <3>2
  <2>2. CASE ~(n <= Len(a))
    <3> DEFINE k == n - Len(a)
    <3>1. k \in 1 .. Len(b) /\ k \in 0 .. Len(b) /\ k - 1 \in 0 .. Len(b)
          /\ n = Len(a) + k /\ n - 1 = Len(a) + (k - 1)
      BY <1>3, <2>2
    <3> HIDE DEF k
    <3>2. h[n] = g[k] /\ h[n - 1] = g[k - 1] /\ ab[n] = b[k]
      BY <1>3, <1>5, <3>1
    <3>3. QED BY <1>2, <3>1, <3>2
  <2>3. QED BY <2>1, <2>2
<1>8. Leads(steps, s, ab, u)
  BY <1>6, <1>7 DEF Leads
<1>9. QED BY <1>8 DEF ab

\* Each text leads from one of the states to the next.
Passes(steps, ss, g) == \A i \in 1 .. Len(ss) : Leads(steps, g[i - 1], ss[i], g[i])

\* Texts in a row lead from state to state.
LEMMA LeadsThrough ==
  ASSUME NEW steps, NEW C, NEW ss \in Seq(Seq(C)), NEW g, Passes(steps, ss, g)
  PROVE  FlattenSeq(ss) \in Seq(C) /\ Leads(steps, g[0], FlattenSeq(ss), g[Len(ss)])
<1>1. CASE ss = << >>
  <2>1. FlattenSeq(ss) = << >> /\ Len(ss) = 0
    BY <1>1 DEF FlattenSeq
  <2>2. << >> \in Seq(C)
    OBVIOUS
  <2>3. QED BY <2>1, <2>2, LeadsNowhere
<1>2. CASE ss # << >>
  <2>1. PICK f \in [1 .. Len(ss) -> Seq(C)] :
          /\ f[1] = ss[1] /\ FlattenSeq(ss) = f[Len(ss)]
          /\ \A n \in 2 .. Len(ss) : f[n] = f[n - 1] \o ss[n]
    BY <1>2, FlattenFacts
  <2> DEFINE m == Len(ss)
             W == { n \in 0 .. m : n = 0 \/ Leads(steps, g[0], f[n], g[n]) }
  <2>2. m \in Nat \ {0} /\ \A n \in 1 .. m : ss[n] \in Seq(C)
    BY <1>2
  <2> HIDE DEF m
  <2>3. 0 \in W
    BY <2>2
  <2>4. ASSUME NEW n \in 1 .. m, n - 1 \in W PROVE n \in W
    <3>1. n \in 0 .. m /\ Leads(steps, g[n - 1], ss[n], g[n])
      BY <2>2 DEF Passes, m
    <3>2. CASE n = 1
      <4>1. n - 1 = 0
        BY <3>2
      <4>2. Leads(steps, g[0], f[n], g[n])
        BY <2>1, <3>1, <3>2, <4>1
      <4>3. QED BY <3>1, <4>2
    <3>3. CASE n # 1
      <4>1. n - 1 # 0 /\ n \in 2 .. m /\ n - 1 \in 1 .. m
        BY <2>2, <3>3
      <4>2. Leads(steps, g[0], f[n - 1], g[n - 1])
        BY <2>4, <4>1
      <4>3. f[n] = f[n - 1] \o ss[n] /\ f[n - 1] \in Seq(C) /\ ss[n] \in Seq(C)
        BY <2>1, <2>2, <4>1 DEF m
      <4>4. Leads(steps, g[0], f[n - 1] \o ss[n], g[n])
        BY <3>1, <4>2, <4>3, LeadsOn
      <4>5. Leads(steps, g[0], f[n], g[n])
        BY <4>3, <4>4
      <4>6. QED BY <3>1, <4>5
    <3>4. QED BY <3>2, <3>3
  <2> HIDE DEF W
  <2>5. \A n \in 0 .. m : n \in W
    BY <2>2, <2>3, <2>4, Upwards
  <2>6. m \in W
    BY <2>2, <2>5
  <2>7. Leads(steps, g[0], f[m], g[m]) /\ f[m] \in Seq(C)
    BY <2>1, <2>2, <2>6 DEF W, m
  <2>8. QED BY <2>1, <2>7 DEF m
<1>3. QED BY <1>1, <1>2

\* What has been written of a sequence so far
Prefix(xs, i) == [j \in 1 .. i |-> xs[j]]

\* The first n elements of a sequence
LEMMA PrefixFacts ==
  ASSUME NEW D, NEW xs \in Seq(D)
  PROVE  /\ Prefix(xs, 0) = << >> /\ Prefix(xs, Len(xs)) = xs
         /\ \A i \in 1 .. Len(xs) : /\ Prefix(xs, i - 1) \in Seq(D)
                                    /\ Append(Prefix(xs, i - 1), xs[i]) = Prefix(xs, i)
<1>1. Len(xs) \in Nat /\ \A j \in 1 .. Len(xs) : xs[j] \in D
  OBVIOUS
<1>2. Prefix(xs, 0) = << >> /\ Prefix(xs, Len(xs)) = xs
  BY DEF Prefix
<1>3. ASSUME NEW i \in 1 .. Len(xs)
      PROVE  Prefix(xs, i - 1) \in Seq(D) /\ Append(Prefix(xs, i - 1), xs[i]) = Prefix(xs, i)
  <2> DEFINE p == Prefix(xs, i - 1)
             a == Append(p, xs[i])
  <2>1. i - 1 \in Nat /\ \A j \in 1 .. i - 1 : j \in 1 .. Len(xs)
    BY <1>1
  <2>2. p \in Seq(D) /\ Len(p) = i - 1 /\ \A j \in 1 .. i - 1 : p[j] = xs[j]
    BY <1>1, <2>1 DEF Prefix
  <2> HIDE DEF p
  <2>3. Len(a) = i /\ a = [j \in 1 .. i |-> a[j]] /\ a[i] = xs[i]
        /\ \A j \in 1 .. i - 1 : a[j] = xs[j]
    BY <1>1, <2>2
  <2>4. ASSUME NEW j \in 1 .. i PROVE a[j] = xs[j]
    <3>1. j = i \/ j \in 1 .. i - 1
      BY <1>1
    <3> HIDE DEF a
    <3>2. QED BY <2>3, <3>1
  <2> HIDE DEF a
  <2>5. a = Prefix(xs, i)
    BY <2>3, <2>4 DEF Prefix
  <2>6. QED BY <2>2, <2>5 DEF p, a
<1>4. QED BY <1>2, <1>3

\* Element by element the machine gathers a sequence; st is its state with what
\* it has gathered and how many are left.
Gathers(steps, ss, xs, D, st) ==
  \A i \in 1 .. Len(xs) : \A x \in Seq(D) :
    Leads(steps, st[<< x, Len(xs) - i + 1 >>], ss[i], st[<< Append(x, xs[i]), Len(xs) - i >>])

\* The texts one behind the other gather the whole sequence.
LEMMA Gathering ==
  ASSUME NEW steps, NEW C, NEW D, NEW xs \in Seq(D), NEW ss \in Seq(Seq(C)), NEW st,
         Len(ss) = Len(xs), Gathers(steps, ss, xs, D, st)
  PROVE  /\ FlattenSeq(ss) \in Seq(C)
         /\ Leads(steps, st[<< << >>, Len(xs) >>], FlattenSeq(ss), st[<< xs, 0 >>])
<1> DEFINE m == Len(xs)
           g == [i \in 0 .. m |-> st[<< Prefix(xs, i), m - i >>]]
<1>1. m \in Nat
  OBVIOUS
<1>2. ASSUME NEW i \in 1 .. m PROVE Leads(steps, g[i - 1], ss[i], g[i])
  <2> DEFINE x == Prefix(xs, i - 1)
  <2>1. x \in Seq(D) /\ Append(x, xs[i]) = Prefix(xs, i)
    BY PrefixFacts
  <2>2. i \in 0 .. m /\ i - 1 \in 0 .. m /\ m - (i - 1) = m - i + 1
    BY <1>1
  <2>3. g[i - 1] = st[<< x, m - i + 1 >>] /\ g[i] = st[<< Prefix(xs, i), m - i >>]
    BY <2>2
  <2> HIDE DEF g, x
  <2>4. Leads(steps, st[<< x, m - i + 1 >>], ss[i], st[<< Append(x, xs[i]), m - i >>])
    BY <2>1 DEF Gathers
  <2>5. QED BY <2>1, <2>3, <2>4
<1>3. g[0] = st[<< << >>, m >>] /\ g[m] = st[<< xs, 0 >>]
  <2>1. Prefix(xs, 0) = << >> /\ Prefix(xs, m) = xs
    BY PrefixFacts
  <2>2. 0 \in 0 .. m /\ m \in 0 .. m /\ m - 0 = m /\ m - m = 0
    BY <1>1
  <2>3. g[0] = st[<< Prefix(xs, 0), m - 0 >>] /\ g[m] = st[<< Prefix(xs, m), m - m >>]
    BY <2>2
  <2>4. QED BY <2>1, <2>2, <2>3
<1> HIDE DEF g
<1>4. Passes(steps, ss, g)
  BY <1>2 DEF Passes
<1>5. FlattenSeq(ss) \in Seq(C) /\ Leads(steps, g[0], FlattenSeq(ss), g[Len(ss)])
  BY <1>4, LeadsThrough
<1>6. QED BY <1>3, <1>5

-----------------------------------------------------------------------------
(* Rows.  Both machines that read the text of COPY have the same states;   *)
(* these are the ones in which no backslash is open.                       *)

PState(cells, cell, null, done) ==
  [cells |-> cells, cell |-> cell, escape |-> FALSE, null |-> null, done |-> done]

\* A text stands for a character of a value, wherever that is.
Spells(steps, C, text, ch) ==
  \A cells \in Seq(Seq(C)), x \in Seq(C) :
    Leads(steps, PState(cells, x, FALSE, FALSE), text, PState(cells, Append(x, ch), FALSE, FALSE))

Separators == {"\t", "\n"}

\* A text stands for a value, with a separator behind it.
Reads(steps, C, text, cell) ==
  \A cells \in Seq(Seq(C)), sep \in Separators :
    Leads(steps, PState(cells, << >>, FALSE, FALSE), text \o << sep >>,
          PState(Append(cells, cell), << >>, FALSE, IF sep = "\n" THEN TRUE ELSE FALSE))

\* A value that is spelled character by character is read.
LEMMA ValueIsSpelled ==
  ASSUME NEW steps, NEW C, NEW cell \in Seq(C), NEW texts \in Seq(Seq(C)), Len(texts) = Len(cell),
         \A i \in 1 .. Len(cell) : Spells(steps, C, texts[i], cell[i])
  PROVE  /\ FlattenSeq(texts) \in Seq(C)
         /\ \A cells \in Seq(Seq(C)) :
              Leads(steps, PState(cells, << >>, FALSE, FALSE), FlattenSeq(texts),
                    PState(cells, cell, FALSE, FALSE))
<1>1. ASSUME NEW cells \in Seq(Seq(C))
      PROVE  /\ FlattenSeq(texts) \in Seq(C)
             /\ Leads(steps, PState(cells, << >>, FALSE, FALSE), FlattenSeq(texts),
                      PState(cells, cell, FALSE, FALSE))
  <2> DEFINE st == [p \in Seq(C) \X Nat |-> PState(cells, p[1], FALSE, FALSE)]
             none == << >>
             m == Len(cell)
  <2>1. none \in Seq(C) /\ m \in Nat
    OBVIOUS
  <2>2. \A x \in Seq(C), k \in Nat : st[<< x, k >>] = PState(cells, x, FALSE, FALSE)
    OBVIOUS
  <2> HIDE DEF st, none
  <2>3. ASSUME NEW i \in 1 .. Len(cell), NEW x \in Seq(C)
        PROVE  Leads(steps, st[<< x, Len(cell) - i + 1 >>], texts[i],
                     st[<< Append(x, cell[i]), Len(cell) - i >>])
    <3>1. m - i + 1 \in Nat /\ m - i \in Nat /\ Append(x, cell[i]) \in Seq(C)
      BY <2>1
    <3>2. Leads(steps, PState(cells, x, FALSE, FALSE), texts[i],
                PState(cells, Append(x, cell[i]), FALSE, FALSE))
      BY DEF Spells
    <3>3. QED BY <2>2, <3>1, <3>2
  <2>4. Gathers(steps, texts, cell, C, st)
    BY <2>3 DEF Gathers
  <2>5. /\ FlattenSeq(texts) \in Seq(C)
        /\ Leads(steps, st[<< << >>, Len(cell) >>], FlattenSeq(texts), st[<< cell, 0 >>])
    BY <2>4, Gathering
  <2>6. st[<< none, m >>] = PState(cells, none, FALSE, FALSE)
        /\ st[<< cell, 0 >>] = PState(cells, cell, FALSE, FALSE)
    BY <2>1, <2>2
  <2>7. QED BY <2>5, <2>6 DEF none
<1>2. << >> \in Seq(Seq(C))
  OBVIOUS
<1>3. QED BY <1>1, <1>2

\* Values that are read one by one make up a row.
LEMMA RowIsRead ==
  ASSUME NEW steps, NEW C, Separators \subseteq C,
         NEW row \in Seq(Seq(C)), row # << >>,
         NEW texts \in Seq(Seq(C)), Len(texts) = Len(row),
         \A i \in 1 .. Len(row) : Reads(steps, C, texts[i], row[i]),
         NEW ss, ss = [i \in DOMAIN row |-> texts[i] \o << IF i = Len(row) THEN "\n" ELSE "\t" >>]
  PROVE  /\ FlattenSeq(ss) \in Seq(C)
         /\ Leads(steps, ParseStart, FlattenSeq(ss), PState(row, << >>, FALSE, TRUE))
<1> DEFINE m == Len(row)
           End(k) == IF k = 0 THEN TRUE ELSE FALSE
           Sep(i) == IF i = m THEN "\n" ELSE "\t"
           st == [p \in Seq(Seq(C)) \X Nat |-> PState(p[1], << >>, FALSE, End(p[2]))]
           none == << >>
<1>1. m \in Nat \ {0} /\ none \in Seq(Seq(C)) /\ DOMAIN row = 1 .. m
  OBVIOUS
<1>2. \A x \in Seq(Seq(C)), k \in Nat : st[<< x, k >>] = PState(x, << >>, FALSE, End(k))
  OBVIOUS
<1> HIDE DEF st, none
<1>3. ASSUME NEW i \in 1 .. m
      PROVE  Sep(i) \in Separators /\ ss[i] = texts[i] \o << Sep(i) >> /\ ss[i] \in Seq(C)
  <2>1. Sep(i) \in Separators
    BY DEF Separators
  <2>2. ss[i] = texts[i] \o << Sep(i) >>
    BY <1>1
  <2> DEFINE a == texts[i]
             b == << Sep(i) >>
  <2>3. a \in Seq(C) /\ b \in Seq(C)
    BY <1>1, <2>1
  <2> HIDE DEF a, b
  <2>4. a \o b \in Seq(C)
    BY <2>3, ConcatFacts
  <2>5. QED BY <2>1, <2>2, <2>4 DEF a, b
<1>4. ss \in Seq(Seq(C)) /\ Len(ss) = m
  <2>1. ss = [i \in 1 .. m |-> ss[i]]
    BY <1>1
  <2>2. \A i \in 1 .. m : ss[i] \in Seq(C)
    BY <1>3
  <2> DEFINE D == Seq(C)
  <2> HIDE DEF D, Sep
  <2>3. ss \in [1 .. m -> D]
    BY <2>1, <2>2 DEF D
  <2>4. ss \in Seq(D) /\ Len(ss) = m
    BY <1>1, <2>3
  <2>5. QED BY <2>4 DEF D
<1>5. ASSUME NEW i \in 1 .. Len(row), NEW x \in Seq(Seq(C))
      PROVE  Leads(steps, st[<< x, Len(row) - i + 1 >>], ss[i],
                   st[<< Append(x, row[i]), Len(row) - i >>])
  <2>1. /\ m - i + 1 \in Nat /\ m - i \in Nat /\ Append(x, row[i]) \in Seq(Seq(C))
        /\ m - i + 1 # 0 /\ (m - i = 0 <=> i = m)
    BY <1>1
  <2>2. End(m - i + 1) = FALSE
    BY <2>1
  <2>3. End(m - i) = IF Sep(i) = "\n" THEN TRUE ELSE FALSE
    BY <2>1
  <2>4. Leads(steps, PState(x, << >>, FALSE, FALSE), texts[i] \o << Sep(i) >>,
              PState(Append(x, row[i]), << >>, FALSE, IF Sep(i) = "\n" THEN TRUE ELSE FALSE))
    <3> HIDE DEF Sep
    <3>1. QED BY <1>3 DEF Reads
  <2>5. st[<< x, m - i + 1 >>] = PState(x, << >>, FALSE, FALSE)
    BY <1>2, <2>1, <2>2
  <2>6. st[<< Append(x, row[i]), m - i >>] = PState(Append(x, row[i]), << >>, FALSE, End(m - i))
    BY <1>2, <2>1
  <2> HIDE DEF End, Sep
  <2>7. ss[i] = texts[i] \o << Sep(i) >>
    BY <1>3
  <2>8. QED BY <2>3, <2>4, <2>5, <2>6, <2>7
<1>6. Gathers(steps, ss, row, Seq(C), st)
  BY <1>5 DEF Gathers
<1>7. /\ FlattenSeq(ss) \in Seq(C)
      /\ Leads(steps, st[<< << >>, Len(row) >>], FlattenSeq(ss), st[<< row, 0 >>])
  BY <1>4, <1>6, Gathering
<1>8. st[<< none, m >>] = ParseStart
  <2>1. End(m) = FALSE
    BY <1>1
  <2>2. st[<< none, m >>] = PState(none, << >>, FALSE, FALSE)
    BY <1>1, <1>2, <2>1
  <2>3. QED BY <2>2 DEF PState, ParseStart, none
<1>9. st[<< row, 0 >>] = PState(row, << >>, FALSE, TRUE)
  BY <1>1, <1>2
<1>10. QED BY <1>7, <1>8, <1>9 DEF none

-----------------------------------------------------------------------------
(* The parser of the library                                               *)

\* The states both machines may be in, and the steps of the parser
ParseStates(C) ==
  [cells : Seq(Seq(C)), cell : Seq(C), escape : BOOLEAN, null : BOOLEAN, done : BOOLEAN]

ParseSteps(C) == { << s, ch, ParseStep(s, ch) >> : s \in ParseStates(C), ch \in C }

\* Where the steps lead is what parse_data() returns.
LEMMA ParserRuns ==
  ASSUME NEW C, NEW text \in Seq(C), NEW t, Leads(ParseSteps(C), ParseStart, text, t)
  PROVE  ParseData(text) = t.cells
<1> DEFINE m == Len(text)
           Run(g) == [n \in 0 .. m |-> IF n = 0 THEN ParseStart ELSE ParseStep(g[n - 1], text[n])]
           h == CHOOSE g : g = Run(g)
<1>1. PICK f : /\ f[0] = ParseStart /\ f[m] = t
               /\ \A n \in 1 .. m : << f[n - 1], text[n], f[n] >> \in ParseSteps(C)
  BY DEF Leads
<1>2. ParseData(text) = h[m].cells
  BY DEF ParseData, After
<1>3. m \in Nat
  OBVIOUS
<1> HIDE DEF m
<1>4. \A n \in 1 .. m : f[n] = ParseStep(f[n - 1], text[n])
  BY <1>1 DEF ParseSteps
<1> DEFINE e == [n \in 0 .. m |-> f[n]]
<1>5. e = Run(e)
  <2>1. ASSUME NEW n \in 0 .. m PROVE e[n] = Run(e)[n]
    <3>1. CASE n = 0
      BY <1>1, <3>1
    <3>2. CASE n # 0
      <4>1. n \in 1 .. m /\ n - 1 \in 0 .. m
        BY <1>3, <3>2
      <4>2. QED BY <1>4, <3>2, <4>1
    <3>3. QED BY <3>1, <3>2
  <2>2. QED BY <2>1
<1>6. h = Run(h)
  <2> HIDE DEF Run
  <2>1. QED BY <1>5
<1> HIDE DEF h, e
<1>7. h[0] = ParseStart /\ \A n \in 1 .. m : h[n] = ParseStep(h[n - 1], text[n])
  <2>1. 0 \in 0 .. m /\ \A n \in 1 .. m : n \in 0 .. m /\ n # 0
    BY <1>3
  <2>2. QED BY <1>6, <2>1
<1> DEFINE W == { n \in 0 .. m : h[n] = f[n] }
<1>8. 0 \in W
  BY <1>1, <1>3, <1>7
<1>9. ASSUME NEW n \in 1 .. m, n - 1 \in W PROVE n \in W
  <2>1. n \in 0 .. m /\ h[n - 1] = f[n - 1]
    BY <1>3, <1>9
  <2>2. QED BY <1>4, <1>7, <2>1
<1>10. \A n \in 0 .. m : n \in W
  <2> HIDE DEF W
  <2>1. QED BY <1>3, <1>8, <1>9, Upwards
<1>11. m \in W
  BY <1>3, <1>10
<1>12. QED BY <1>1, <1>2, <1>11

\* Every letter stands for a character and every such character has its letter.
LEMMA LetterFacts ==
  /\ Controls = {"BS", "FF", "\n", "CR", "\t", "VT"}
  /\ Controls \cap Letters = {} /\ "N" \notin Letters /\ "\\" \notin Letters \cup Controls
  /\ \A ch \in Controls : Letter(ch) \in Letters /\ Control(Letter(ch)) = ch
<1>1. Controls = {"BS", "FF", "\n", "CR", "\t", "VT"}
  BY DEF Controls, Control, Letters
<1>2. Controls \cap Letters = {} /\ "N" \notin Letters /\ "\\" \notin Letters \cup Controls
  BY <1>1 DEF Letters
<1>3. ASSUME NEW ch \in Controls PROVE Letter(ch) \in Letters /\ Control(Letter(ch)) = ch
  <2>1. \E letter \in Letters : Control(letter) = ch
    BY DEF Controls
  <2>2. QED BY <2>1 DEF Letter
<1>4. QED BY <1>1, <1>2, <1>3

\* What one character, or two, do
LEMMA ParserMoves ==
  ASSUME NEW C, "\\" \in C, NEW cells \in Seq(Seq(C)), NEW cell \in Seq(C), NEW ch \in C
  PROVE  /\ ch \notin {"\\", "\t", "\n"} =>
              Leads(ParseSteps(C), PState(cells, cell, FALSE, FALSE), << ch >>,
                    PState(cells, Append(cell, ch), FALSE, FALSE))
         /\ ch \in Letters =>
              Leads(ParseSteps(C), PState(cells, cell, FALSE, FALSE), << "\\", ch >>,
                    PState(cells, Append(cell, Control(ch)), FALSE, FALSE))
         /\ Leads(ParseSteps(C), PState(cells, cell, FALSE, FALSE), << "\\", "\\" >>,
                  PState(cells, Append(cell, "\\"), FALSE, FALSE))
         /\ ch = "N" =>
              Leads(ParseSteps(C), PState(cells, cell, FALSE, FALSE), << "\\", ch >>,
                    PState(Append(cells, SqlNull), cell, TRUE, FALSE))
<1> DEFINE s == PState(cells, cell, FALSE, FALSE)
           e == [s EXCEPT !.escape = TRUE]
           steps == ParseSteps(C)
<1>1. s \in ParseStates(C) /\ e \in ParseStates(C)
  BY DEF PState, ParseStates
<1>2. << s, "\\", e >> \in steps
  <2>1. ParseStep(s, "\\") = e
    BY DEF ParseStep, PState
  <2> HIDE DEF s, e
  <2>2. QED BY <1>1, <2>1 DEF ParseSteps
<1>3. Leads(steps, s, << "\\" >>, e)
  <2> HIDE DEF s, e, steps
  <2>1. QED BY <1>2, LeadsByOne
<1>4. ASSUME NEW c \in C, NEW t, ParseStep(e, c) = t
      PROVE  Leads(steps, s, << "\\", c >>, t)
  <2>1. << e, c, t >> \in steps
    <3> HIDE DEF e
    <3>1. QED BY <1>1, <1>4 DEF ParseSteps
  <2> DEFINE a == << "\\" >>
             b == << c >>
             esc == "\\"
  <2>2. a \in Seq(C) /\ b \in Seq(C) /\ a \o b = << "\\", c >>
    <3>1. esc \in C /\ a = << esc >>
      OBVIOUS
    <3> HIDE DEF esc, a
    <3>2. a \in Seq(C) /\ b \in Seq(C)
      BY <3>1
    <3>3. << esc >> \o << c >> = << esc, c >>
      BY Two
    <3>4. a \o b = << esc, c >>
      BY <3>1, <3>3
    <3>5. QED BY <3>2, <3>4 DEF esc
  <2> HIDE DEF s, e, steps, a
  <2>3. Leads(steps, e, b, t)
    BY <2>1, LeadsByOne
  <2> HIDE DEF b
  <2>4. Leads(steps, s, a, e)
    BY <1>3 DEF a
  <2>5. Leads(steps, s, a \o b, t)
    BY <2>2, <2>3, <2>4, LeadsOn
  <2>6. QED BY <2>2, <2>5
<1>5. ASSUME ch \notin {"\\", "\t", "\n"}
      PROVE  Leads(steps, s, << ch >>, PState(cells, Append(cell, ch), FALSE, FALSE))
  <2> DEFINE t == PState(cells, Append(cell, ch), FALSE, FALSE)
  <2>1. ParseStep(s, ch) = t
    BY <1>5 DEF ParseStep, PState
  <2> HIDE DEF s, t
  <2>2. << s, ch, t >> \in steps
    BY <1>1, <2>1 DEF ParseSteps
  <2> HIDE DEF steps
  <2>3. Leads(steps, s, << ch >>, t)
    BY <2>2, LeadsByOne
  <2>4. QED BY <2>3 DEF t
<1>6. ASSUME ch \in Letters
      PROVE  Leads(steps, s, << "\\", ch >>, PState(cells, Append(cell, Control(ch)), FALSE, FALSE))
  <2>1. ParseStep(e, ch) = PState(cells, Append(cell, Control(ch)), FALSE, FALSE)
    <3>1. ch # "N" /\ ch # "\\"
      BY <1>6, LetterFacts
    <3>2. ParseStep(e, ch) = Escape(e, ch)
      BY DEF ParseStep, PState
    <3>3. Escape(e, ch) = [e EXCEPT !.escape = FALSE, !.cell = Append(@, Control(ch))]
      <4> HIDE DEF e
      <4>1. QED BY <1>6, <3>1 DEF Escape
    <3>4. QED BY <3>2, <3>3 DEF PState
  <2> HIDE DEF s, e, steps
  <2>2. QED BY <1>4, <2>1
<1>7. Leads(steps, s, << "\\", "\\" >>, PState(cells, Append(cell, "\\"), FALSE, FALSE))
  <2>1. ParseStep(e, "\\") = PState(cells, Append(cell, "\\"), FALSE, FALSE)
    BY LetterFacts DEF ParseStep, PState, Escape
  <2> HIDE DEF s, e, steps
  <2>2. QED BY <1>4, <2>1
<1>8. ASSUME ch = "N"
      PROVE  Leads(steps, s, << "\\", ch >>, PState(Append(cells, SqlNull), cell, TRUE, FALSE))
  <2>1. ParseStep(e, ch) = PState(Append(cells, SqlNull), cell, TRUE, FALSE)
    BY <1>8, LetterFacts DEF ParseStep, PState, Escape
  <2> HIDE DEF s, e, steps
  <2>2. QED BY <1>4, <2>1
<1> HIDE DEF s, e
<1>9. QED BY <1>5, <1>6, <1>7, <1>8 DEF s

\* A separator ends a value, and a row if it is a newline.
LEMMA ParserEnds ==
  ASSUME NEW C, Separators \subseteq C, NEW cells \in Seq(Seq(C)), NEW cell \in Seq(C),
         NEW null \in BOOLEAN, NEW sep \in Separators
  PROVE  Leads(ParseSteps(C), PState(cells, cell, null, FALSE), << sep >>,
               PState(IF null THEN cells ELSE Append(cells, cell), << >>, FALSE,
                      IF sep = "\n" THEN TRUE ELSE FALSE))
<1> DEFINE s == PState(cells, cell, null, FALSE)
           t == PState(IF null THEN cells ELSE Append(cells, cell), << >>, FALSE,
                       IF sep = "\n" THEN TRUE ELSE FALSE)
           steps == ParseSteps(C)
<1>1. s \in ParseStates(C) /\ sep \in C
  BY DEF PState, ParseStates
<1>2. ParseStep(s, sep) = t
  <2>1. sep \in {"\t", "\n"} /\ sep # "\\"
    BY DEF Separators
  <2>2. ParseStep(s, sep) = Separator(s, sep)
    BY <2>1 DEF ParseStep, PState
  <2>3. Separator(s, sep) = t
    <3> DEFINE v == IF null THEN cells ELSE Append(cells, cell)
               e == sep = "\n"
    <3>1. Separator(s, sep) = [cells |-> v, cell |-> << >>, escape |-> FALSE, null |-> FALSE, done |-> e]
      <4> HIDE DEF e
      <4>1. Separator(s, sep) = [s EXCEPT !.cells = v, !.cell = << >>, !.null = FALSE, !.done = e]
        <5>1. s.null = null /\ s.cells = cells /\ s.cell = cell
          BY DEF PState
        <5> HIDE DEF s
        <5>2. CASE null = TRUE
          BY <5>1, <5>2 DEF Separator, e
        <5>3. CASE null = FALSE
          BY <5>1, <5>3 DEF Separator, e
        <5>4. QED BY <5>2, <5>3
      <4> HIDE DEF v
      <4>2. QED BY <4>1 DEF PState
    <3>2. e = IF e THEN TRUE ELSE FALSE
      OBVIOUS
    <3> HIDE DEF v, e
    <3>3. QED BY <3>1, <3>2 DEF PState, v, e
  <2>4. QED BY <2>2, <2>3
<1> HIDE DEF s, t
<1>3. << s, sep, t >> \in steps
  BY <1>1, <1>2 DEF ParseSteps
<1> HIDE DEF steps
<1>4. Leads(steps, s, << sep >>, t)
  BY <1>3, LeadsByOne
<1>5. QED BY <1>4 DEF s, t, steps

\* The characters that the format uses
Marks == {"\\", "N", "\t", "\n", "SQL NULL"} \cup Letters \cup Controls

LEMMA MarkFacts ==
  ASSUME NEW C, Marks \subseteq C
  PROVE  /\ Separators \subseteq C /\ "\\" \in C /\ "N" \in C
         /\ << >> \in Seq(C) /\ SqlNull \in Seq(C)
<1>1. Separators \subseteq C /\ "\\" \in C /\ "N" \in C /\ "SQL NULL" \in C
  BY DEF Marks, Separators
<1>2. ASSUME NEW q \in C PROVE << q >> \in Seq(C)
  OBVIOUS
<1>3. << >> \in Seq(C)
  OBVIOUS
<1>4. QED BY <1>1, <1>2, <1>3 DEF SqlNull

\* What the server writes for a character is read as the character.
LEMMA ParserSpells ==
  ASSUME NEW C, Marks \subseteq C, NEW ch \in C
  PROVE  ServerEscaped(ch) \in Seq(C) /\ Spells(ParseSteps(C), C, ServerEscaped(ch), ch)
<1>1. "\\" \in C /\ Letters \subseteq C
  BY DEF Marks
<1>2. CASE ch \in Controls
  <2> DEFINE letter == Letter(ch)
             esc == "\\"
  <2>1. letter \in Letters /\ Control(letter) = ch /\ ServerEscaped(ch) = << esc, letter >>
    BY <1>2, LetterFacts DEF ServerEscaped
  <2>2. letter \in C /\ esc \in C
    BY <1>1, <2>1
  <2> HIDE DEF letter
  <2>3. Spells(ParseSteps(C), C, << esc, letter >>, Control(letter))
    BY <1>1, <2>1, <2>2, ParserMoves DEF Spells
  <2> HIDE DEF esc
  <2>4. << esc, letter >> \in Seq(C)
    BY <2>2
  <2>5. QED BY <2>1, <2>3, <2>4
<1>3. CASE ch = "\\"
  <2>1. ServerEscaped(ch) = << "\\", "\\" >>
    BY <1>3, LetterFacts DEF ServerEscaped
  <2>2. << "\\", "\\" >> \in Seq(C)
    BY <1>1
  <2>3. Spells(ParseSteps(C), C, << "\\", "\\" >>, "\\")
    BY <1>1, ParserMoves DEF Spells
  <2>4. QED BY <1>3, <2>1, <2>2, <2>3
<1>4. CASE ch \notin Controls \cup {"\\"}
  <2>1. ServerEscaped(ch) = << ch >> /\ << ch >> \in Seq(C)
    BY <1>4 DEF ServerEscaped
  <2>2. ch \notin {"\\", "\t", "\n"}
    BY <1>4, LetterFacts
  <2>3. Spells(ParseSteps(C), C, << ch >>, ch)
    BY <1>1, <2>2, ParserMoves DEF Spells
  <2>4. QED BY <2>1, <2>3
<1>5. QED BY <1>2, <1>3, <1>4

\* And what it writes for a value as the value, NULL as NULL.
LEMMA ParserReads ==
  ASSUME NEW C, Marks \subseteq C, NEW cell \in Seq(C)
  PROVE  ServerCell(cell) \in Seq(C) /\ Reads(ParseSteps(C), C, ServerCell(cell), cell)
<1> DEFINE steps == ParseSteps(C)
           none == << >>
<1>1. Separators \subseteq C /\ "\\" \in C /\ "N" \in C /\ none \in Seq(C) /\ SqlNull \in Seq(C)
  BY MarkFacts
<1>2. CASE cell = SqlNull
  <2> DEFINE text == << "\\", "N" >>
  <2>1. ServerCell(cell) = text /\ text \in Seq(C)
    BY <1>1, <1>2 DEF ServerCell
  <2> HIDE DEF text
  <2>2. ASSUME NEW cells \in Seq(Seq(C)), NEW sep \in Separators
        PROVE  Leads(steps, PState(cells, << >>, FALSE, FALSE), text \o << sep >>,
                     PState(Append(cells, cell), << >>, FALSE, IF sep = "\n" THEN TRUE ELSE FALSE))
    <3> DEFINE more == Append(cells, SqlNull)
               b == << sep >>
    <3>1. Leads(steps, PState(cells, none, FALSE, FALSE), text, PState(more, none, TRUE, FALSE))
      <4> HIDE DEF more, none, steps
      <4>1. QED BY <1>1, ParserMoves DEF more, text, steps
    <3>2. more \in Seq(Seq(C)) /\ b \in Seq(C)
      BY <1>1
    <3> HIDE DEF more, none
    <3>3. Leads(steps, PState(more, none, TRUE, FALSE), b,
                PState(more, << >>, FALSE, IF sep = "\n" THEN TRUE ELSE FALSE))
      <4> DEFINE null == TRUE
      <4>1. Leads(ParseSteps(C), PState(more, none, null, FALSE), << sep >>,
                  PState(IF null THEN more ELSE Append(more, none), << >>, FALSE,
                         IF sep = "\n" THEN TRUE ELSE FALSE))
        <5>1. null \in BOOLEAN
          OBVIOUS
        <5> HIDE DEF null
        <5>2. QED BY <1>1, <3>2, <5>1, ParserEnds
      <4>2. QED BY <4>1
    <3> HIDE DEF b, steps
    <3>4. Leads(steps, PState(cells, none, FALSE, FALSE), text \o b,
                PState(more, << >>, FALSE, IF sep = "\n" THEN TRUE ELSE FALSE))
      BY <2>1, <3>1, <3>2, <3>3, LeadsOn
    <3>5. QED BY <1>2, <3>4 DEF b, more, none
  <2>3. QED BY <2>1, <2>2 DEF Reads
<1>3. CASE cell # SqlNull
  <2> DEFINE texts == [i \in DOMAIN cell |-> ServerEscaped(cell[i])]
             text == FlattenSeq(texts)
  <2>1. ServerCell(cell) = text
    BY <1>3 DEF ServerCell
  <2>2. texts \in Seq(Seq(C)) /\ Len(texts) = Len(cell)
    <3> DEFINE D == Seq(C)
    <3>1. \A i \in DOMAIN cell : ServerEscaped(cell[i]) \in D
      BY ParserSpells
    <3> HIDE DEF D
    <3>2. QED BY <3>1 DEF D
  <2>3. \A i \in 1 .. Len(cell) : Spells(steps, C, texts[i], cell[i])
    BY ParserSpells
  <2> HIDE DEF texts
  <2>4. /\ text \in Seq(C)
        /\ \A cells \in Seq(Seq(C)) :
             Leads(steps, PState(cells, << >>, FALSE, FALSE), text, PState(cells, cell, FALSE, FALSE))
    BY <2>2, <2>3, ValueIsSpelled
  <2> HIDE DEF text
  <2>5. ASSUME NEW cells \in Seq(Seq(C)), NEW sep \in Separators
        PROVE  Leads(steps, PState(cells, << >>, FALSE, FALSE), text \o << sep >>,
                     PState(Append(cells, cell), << >>, FALSE, IF sep = "\n" THEN TRUE ELSE FALSE))
    <3> DEFINE b == << sep >>
    <3>1. b \in Seq(C)
      BY <1>1
    <3>2. Leads(steps, PState(cells, cell, FALSE, FALSE), b,
                PState(Append(cells, cell), << >>, FALSE, IF sep = "\n" THEN TRUE ELSE FALSE))
      <4> DEFINE null == FALSE
      <4>1. Leads(ParseSteps(C), PState(cells, cell, null, FALSE), << sep >>,
                  PState(IF null THEN cells ELSE Append(cells, cell), << >>, FALSE,
                         IF sep = "\n" THEN TRUE ELSE FALSE))
        <5>1. null \in BOOLEAN
          OBVIOUS
        <5> HIDE DEF null
        <5>2. QED BY <1>1, <5>1, ParserEnds
      <4>2. QED BY <4>1
    <3> HIDE DEF b, steps
    <3>3. QED BY <2>4, <3>1, <3>2, LeadsOn DEF b
  <2>6. QED BY <2>1, <2>4, <2>5 DEF Reads
<1>4. QED BY <1>2, <1>3

\* What the server has is what table_reader reads, for any row.
LEMMA FetchedAsStored ==
  ASSUME NEW C, Marks \subseteq C, NEW row \in Seq(Seq(C)), row # << >>
  PROVE  ServerText(row) \in Seq(C) /\ ParseData(ServerText(row)) = row
<1> DEFINE texts == [i \in DOMAIN row |-> ServerCell(row[i])]
           ss == [i \in DOMAIN row |->
                    ServerCell(row[i]) \o << IF i = Len(row) THEN "\n" ELSE "\t" >>]
<1>1. texts \in Seq(Seq(C)) /\ Len(texts) = Len(row)
  <2> DEFINE D == Seq(C)
  <2>1. ASSUME NEW i \in DOMAIN row PROVE ServerCell(row[i]) \in D
    <3>1. row[i] \in Seq(C)
      OBVIOUS
    <3>2. QED BY <3>1, ParserReads
  <2> HIDE DEF D
  <2>2. texts \in Seq(D) /\ Len(texts) = Len(row)
    BY <2>1
  <2>3. QED BY <2>2 DEF D
<1>2. \A i \in 1 .. Len(row) : Reads(ParseSteps(C), C, texts[i], row[i])
  <2>1. ASSUME NEW i \in 1 .. Len(row) PROVE Reads(ParseSteps(C), C, texts[i], row[i])
    <3>1. row[i] \in Seq(C) /\ texts[i] = ServerCell(row[i])
      OBVIOUS
    <3> HIDE DEF texts
    <3>2. QED BY <3>1, ParserReads
  <2>2. QED BY <2>1
<1>3. ss = [i \in DOMAIN row |-> texts[i] \o << IF i = Len(row) THEN "\n" ELSE "\t" >>]
  OBVIOUS
<1>4. Separators \subseteq C
  BY DEF Separators, Marks
<1>5. FlattenSeq(ss) = ServerText(row)
  BY DEF ServerText
<1> HIDE DEF texts, ss
<1>6. /\ FlattenSeq(ss) \in Seq(C)
      /\ Leads(ParseSteps(C), ParseStart, FlattenSeq(ss), PState(row, << >>, FALSE, TRUE))
  BY <1>1, <1>2, <1>3, <1>4, RowIsRead
<1>7. ParseData(ServerText(row)) = PState(row, << >>, FALSE, TRUE).cells
  BY <1>5, <1>6, ParserRuns
<1>8. QED BY <1>5, <1>6, <1>7 DEF PState

-----------------------------------------------------------------------------
(* The server                                                              *)

\* The steps of the server
ServerSteps(C) == { << s, ch, ServerStep(s, ch) >> : s \in ParseStates(C), ch \in C }

\* Where the steps lead is what the server stores.
LEMMA ServerRuns ==
  ASSUME NEW C, NEW text \in Seq(C), NEW t, Leads(ServerSteps(C), ParseStart, text, t)
  PROVE  ServerRow(text) = t.cells
<1> DEFINE m == Len(text)
           Run(g) == [n \in 0 .. m |-> IF n = 0 THEN ParseStart ELSE ServerStep(g[n - 1], text[n])]
           h == CHOOSE g : g = Run(g)
<1>1. PICK f : /\ f[0] = ParseStart /\ f[m] = t
               /\ \A n \in 1 .. m : << f[n - 1], text[n], f[n] >> \in ServerSteps(C)
  BY DEF Leads
<1>2. ServerRow(text) = h[m].cells
  BY DEF ServerRow, After
<1>3. m \in Nat
  OBVIOUS
<1> HIDE DEF m
<1>4. \A n \in 1 .. m : f[n] = ServerStep(f[n - 1], text[n])
  BY <1>1 DEF ServerSteps
<1> DEFINE e == [n \in 0 .. m |-> f[n]]
<1>5. e = Run(e)
  <2>1. ASSUME NEW n \in 0 .. m PROVE e[n] = Run(e)[n]
    <3>1. CASE n = 0
      BY <1>1, <3>1
    <3>2. CASE n # 0
      <4>1. n \in 1 .. m /\ n - 1 \in 0 .. m
        BY <1>3, <3>2
      <4>2. QED BY <1>4, <3>2, <4>1
    <3>3. QED BY <3>1, <3>2
  <2>2. QED BY <2>1
<1>6. h = Run(h)
  <2> HIDE DEF Run
  <2>1. QED BY <1>5
<1> HIDE DEF h, e
<1>7. h[0] = ParseStart /\ \A n \in 1 .. m : h[n] = ServerStep(h[n - 1], text[n])
  <2>1. 0 \in 0 .. m /\ \A n \in 1 .. m : n \in 0 .. m /\ n # 0
    BY <1>3
  <2>2. QED BY <1>6, <2>1
<1> DEFINE W == { n \in 0 .. m : h[n] = f[n] }
<1>8. 0 \in W
  BY <1>1, <1>3, <1>7
<1>9. ASSUME NEW n \in 1 .. m, n - 1 \in W PROVE n \in W
  <2>1. n \in 0 .. m /\ h[n - 1] = f[n - 1]
    BY <1>3, <1>9
  <2>2. QED BY <1>4, <1>7, <2>1
<1>10. \A n \in 0 .. m : n \in W
  <2> HIDE DEF W
  <2>1. QED BY <1>3, <1>8, <1>9, Upwards
<1>11. m \in W
  BY <1>3, <1>10
<1>12. QED BY <1>1, <1>2, <1>11

\* What one character, or two, do: a backslash stands for what is behind it.
LEMMA ServerMoves ==
  ASSUME NEW C, "\\" \in C, NEW cells \in Seq(Seq(C)), NEW cell \in Seq(C), NEW ch \in C
  PROVE  /\ ch \notin {"\\", "\t", "\n"} =>
              Leads(ServerSteps(C), PState(cells, cell, FALSE, FALSE), << ch >>,
                    PState(cells, Append(cell, ch), FALSE, FALSE))
         /\ ch \in Controls \cup {"\\"} =>
              Leads(ServerSteps(C), PState(cells, cell, FALSE, FALSE), << "\\", ch >>,
                    PState(cells, Append(cell, ch), FALSE, FALSE))
         /\ ch = "N" /\ cell = << >> =>
              Leads(ServerSteps(C), PState(cells, cell, FALSE, FALSE), << "\\", ch >>,
                    PState(cells, << ch >>, TRUE, FALSE))
<1> DEFINE s == PState(cells, cell, FALSE, FALSE)
           e == [s EXCEPT !.escape = TRUE, !.null = FALSE]
           steps == ServerSteps(C)
<1>1. s \in ParseStates(C) /\ e \in ParseStates(C)
  BY DEF PState, ParseStates
<1>2. << s, "\\", e >> \in steps
  <2>1. ServerStep(s, "\\") = e
    <3>1. s.null = FALSE /\ s.escape = FALSE /\ s.done = FALSE
      BY DEF PState
    <3>2. ServerStep(s, "\\") = [s EXCEPT !.escape = TRUE, !.null = FALSE]
      <4> HIDE DEF s
      <4>1. QED BY <3>1 DEF ServerStep
    <3>3. QED BY <3>2
  <2> HIDE DEF s, e
  <2>2. QED BY <1>1, <2>1 DEF ServerSteps
<1>3. Leads(steps, s, << "\\" >>, e)
  <2> HIDE DEF s, e, steps
  <2>1. QED BY <1>2, LeadsByOne
<1>4. ASSUME NEW c \in C, NEW t, ServerStep(e, c) = t
      PROVE  Leads(steps, s, << "\\", c >>, t)
  <2>1. << e, c, t >> \in steps
    <3> HIDE DEF e
    <3>1. QED BY <1>1, <1>4 DEF ServerSteps
  <2> DEFINE a == << "\\" >>
             b == << c >>
             esc == "\\"
  <2>2. a \in Seq(C) /\ b \in Seq(C) /\ a \o b = << "\\", c >>
    <3>1. esc \in C /\ a = << esc >>
      OBVIOUS
    <3> HIDE DEF esc, a
    <3>2. a \in Seq(C) /\ b \in Seq(C)
      BY <3>1
    <3>3. << esc >> \o << c >> = << esc, c >>
      BY Two
    <3>4. a \o b = << esc, c >>
      BY <3>1, <3>3
    <3>5. QED BY <3>2, <3>4 DEF esc
  <2> HIDE DEF s, e, steps, a
  <2>3. Leads(steps, e, b, t)
    BY <2>1, LeadsByOne
  <2> HIDE DEF b
  <2>4. Leads(steps, s, a, e)
    BY <1>3 DEF a
  <2>5. Leads(steps, s, a \o b, t)
    BY <2>2, <2>3, <2>4, LeadsOn
  <2>6. QED BY <2>2, <2>5
<1>5. ASSUME ch \notin {"\\", "\t", "\n"}
      PROVE  Leads(steps, s, << ch >>, PState(cells, Append(cell, ch), FALSE, FALSE))
  <2> DEFINE t == PState(cells, Append(cell, ch), FALSE, FALSE)
  <2>1. ServerStep(s, ch) = t
    BY <1>5 DEF ServerStep, PState
  <2> HIDE DEF s, t
  <2>2. << s, ch, t >> \in steps
    BY <1>1, <2>1 DEF ServerSteps
  <2> HIDE DEF steps
  <2>3. Leads(steps, s, << ch >>, t)
    BY <2>2, LeadsByOne
  <2>4. QED BY <2>3 DEF t
<1>6. ASSUME ch \in Controls \cup {"\\"}
      PROVE  Leads(steps, s, << "\\", ch >>, PState(cells, Append(cell, ch), FALSE, FALSE))
  <2>1. ServerStep(e, ch) = PState(cells, Append(cell, ch), FALSE, FALSE)
    <3> DEFINE null == ch = "N" /\ cell = << >>
    <3>1. null = FALSE /\ ch \notin Letters
      BY <1>6, LetterFacts
    <3> HIDE DEF null
    <3>2. ServerStep(e, ch) = [e EXCEPT !.escape = FALSE, !.null = null, !.cell = Append(@, ch)]
      BY <3>1 DEF ServerStep, PState, null
    <3>3. QED BY <3>1, <3>2 DEF PState
  <2> HIDE DEF s, e, steps
  <2>2. QED BY <1>4, <2>1
<1>7. ASSUME ch = "N", cell = << >>
      PROVE  Leads(steps, s, << "\\", ch >>, PState(cells, << ch >>, TRUE, FALSE))
  <2>1. ServerStep(e, ch) = PState(cells, << ch >>, TRUE, FALSE)
    <3> DEFINE null == ch = "N" /\ cell = << >>
               one == Append(cell, ch)
    <3>1. null = TRUE /\ ch \notin Letters
      BY <1>7, LetterFacts
    <3>2. one = << ch >>
      BY <1>7
    <3> HIDE DEF null
    <3>3. ServerStep(e, ch) = [e EXCEPT !.escape = FALSE, !.null = null, !.cell = one]
      BY <3>1 DEF ServerStep, PState, null
    <3> HIDE DEF one
    <3>4. QED BY <3>1, <3>2, <3>3 DEF PState
  <2> HIDE DEF s, e, steps
  <2>2. QED BY <1>4, <2>1
<1> HIDE DEF s, e
<1>8. QED BY <1>5, <1>6, <1>7 DEF s

\* A separator ends a value, and a row if it is a newline.
LEMMA ServerEnds ==
  ASSUME NEW C, Separators \subseteq C, NEW cells \in Seq(Seq(C)), NEW cell \in Seq(C),
         NEW null \in BOOLEAN, NEW sep \in Separators
  PROVE  Leads(ServerSteps(C), PState(cells, cell, null, FALSE), << sep >>,
               PState(Append(cells, IF null THEN SqlNull ELSE cell), << >>, FALSE,
                      IF sep = "\n" THEN TRUE ELSE FALSE))
<1> DEFINE s == PState(cells, cell, null, FALSE)
           t == PState(Append(cells, IF null THEN SqlNull ELSE cell), << >>, FALSE,
                       IF sep = "\n" THEN TRUE ELSE FALSE)
           steps == ServerSteps(C)
<1>1. s \in ParseStates(C) /\ sep \in C
  BY DEF PState, ParseStates
<1>2. ServerStep(s, sep) = t
  <2> DEFINE v == Append(cells, IF null THEN SqlNull ELSE cell)
             e == sep = "\n"
  <2>1. sep \in {"\t", "\n"} /\ sep # "\\"
    BY DEF Separators
  <2>2. e = IF e THEN TRUE ELSE FALSE
    OBVIOUS
  <2>3. s.null = null /\ s.cells = cells /\ s.cell = cell /\ s.done = FALSE /\ s.escape = FALSE
    BY DEF PState
  <2> HIDE DEF e
  <2>4. ServerStep(s, sep) = [s EXCEPT !.cells = v, !.cell = << >>, !.null = FALSE, !.done = e]
    <3> HIDE DEF s
    <3>1. CASE null = TRUE
      BY <2>1, <2>3, <3>1 DEF ServerStep, e
    <3>2. CASE null = FALSE
      BY <2>1, <2>3, <3>2 DEF ServerStep, e
    <3>3. QED BY <3>1, <3>2
  <2> HIDE DEF v
  <2>5. QED BY <2>2, <2>4 DEF PState, v, e
<1> HIDE DEF s, t
<1>3. << s, sep, t >> \in steps
  BY <1>1, <1>2 DEF ServerSteps
<1> HIDE DEF steps
<1>4. Leads(steps, s, << sep >>, t)
  BY <1>3, LeadsByOne
<1>5. QED BY <1>4 DEF s, t, steps

\* What the library writes for a character is stored as the character.
LEMMA ServerSpells ==
  ASSUME NEW C, Marks \subseteq C, NEW ch \in C
  PROVE  Escaped(ch) \in Seq(C) /\ Spells(ServerSteps(C), C, Escaped(ch), ch)
<1>1. "\\" \in C
  BY DEF Marks
<1>2. CASE ch \in Controls \cup {"\\"}
  <2>1. Escaped(ch) = << "\\", ch >>
    BY <1>2 DEF Escaped
  <2>2. << "\\", ch >> \in Seq(C)
    BY <1>1
  <2>3. Spells(ServerSteps(C), C, << "\\", ch >>, ch)
    BY <1>1, <1>2, ServerMoves DEF Spells
  <2>4. QED BY <2>1, <2>2, <2>3
<1>3. CASE ch \notin Controls \cup {"\\"}
  <2>1. Escaped(ch) = << ch >> /\ << ch >> \in Seq(C)
    BY <1>3 DEF Escaped
  <2>2. Spells(ServerSteps(C), C, << ch >>, ch)
    <3>1. ch \notin {"\\", "\t", "\n"}
      BY <1>3, LetterFacts
    <3>2. QED BY <1>1, <3>1, ServerMoves DEF Spells
  <2>3. QED BY <2>1, <2>2
<1>4. QED BY <1>2, <1>3

\* And what it writes for a value as the value, NULL as NULL.
LEMMA ServerReads ==
  ASSUME NEW C, Marks \subseteq C, NEW cell \in Seq(C)
  PROVE  CopyTo(cell) \in Seq(C) /\ Reads(ServerSteps(C), C, CopyTo(cell), cell)
<1> DEFINE steps == ServerSteps(C)
           none == << >>
<1>1. Separators \subseteq C /\ "\\" \in C /\ "N" \in C /\ none \in Seq(C) /\ SqlNull \in Seq(C)
  BY MarkFacts
<1>2. CASE cell = SqlNull
  <2> DEFINE text == << "\\", "N" >>
  <2>1. CopyTo(cell) = text /\ text \in Seq(C)
    BY <1>1, <1>2 DEF CopyTo
  <2> HIDE DEF text
  <2>2. ASSUME NEW cells \in Seq(Seq(C)), NEW sep \in Separators
        PROVE  Leads(steps, PState(cells, << >>, FALSE, FALSE), text \o << sep >>,
                     PState(Append(cells, cell), << >>, FALSE, IF sep = "\n" THEN TRUE ELSE FALSE))
    <3> DEFINE more == Append(cells, SqlNull)
               n == << "N" >>
               b == << sep >>
    <3>1. Leads(steps, PState(cells, none, FALSE, FALSE), text, PState(cells, n, TRUE, FALSE))
      <4> HIDE DEF steps
      <4>1. QED BY <1>1, ServerMoves DEF text, steps
    <3>2. n \in Seq(C) /\ b \in Seq(C)
      BY <1>1
    <3> HIDE DEF n
    <3>3. Leads(steps, PState(cells, n, TRUE, FALSE), b,
                PState(more, << >>, FALSE, IF sep = "\n" THEN TRUE ELSE FALSE))
      <4> DEFINE null == TRUE
      <4>1. Leads(ServerSteps(C), PState(cells, n, null, FALSE), << sep >>,
                  PState(Append(cells, IF null THEN SqlNull ELSE n), << >>, FALSE,
                         IF sep = "\n" THEN TRUE ELSE FALSE))
        <5>1. null \in BOOLEAN
          OBVIOUS
        <5> HIDE DEF null
        <5>2. QED BY <1>1, <3>2, <5>1, ServerEnds
      <4>2. QED BY <4>1
    <3> HIDE DEF b, steps, none, more
    <3>4. Leads(steps, PState(cells, none, FALSE, FALSE), text \o b,
                PState(more, << >>, FALSE, IF sep = "\n" THEN TRUE ELSE FALSE))
      BY <2>1, <3>1, <3>2, <3>3, LeadsOn
    <3>5. QED BY <1>2, <3>4 DEF b, more, none
  <2>3. QED BY <2>1, <2>2 DEF Reads
<1>3. CASE cell # SqlNull
  <2> DEFINE texts == [i \in DOMAIN cell |-> Escaped(cell[i])]
             text == FlattenSeq(texts)
  <2>1. CopyTo(cell) = text
    BY <1>3 DEF CopyTo, EscapeAll
  <2>2. texts \in Seq(Seq(C)) /\ Len(texts) = Len(cell)
    <3> DEFINE D == Seq(C)
    <3>1. \A i \in DOMAIN cell : Escaped(cell[i]) \in D
      BY ServerSpells
    <3> HIDE DEF D
    <3>2. QED BY <3>1 DEF D
  <2>3. \A i \in 1 .. Len(cell) : Spells(steps, C, texts[i], cell[i])
    BY ServerSpells
  <2> HIDE DEF texts
  <2>4. /\ text \in Seq(C)
        /\ \A cells \in Seq(Seq(C)) :
             Leads(steps, PState(cells, << >>, FALSE, FALSE), text, PState(cells, cell, FALSE, FALSE))
    BY <2>2, <2>3, ValueIsSpelled
  <2> HIDE DEF text
  <2>5. ASSUME NEW cells \in Seq(Seq(C)), NEW sep \in Separators
        PROVE  Leads(steps, PState(cells, << >>, FALSE, FALSE), text \o << sep >>,
                     PState(Append(cells, cell), << >>, FALSE, IF sep = "\n" THEN TRUE ELSE FALSE))
    <3> DEFINE b == << sep >>
    <3>1. b \in Seq(C)
      BY <1>1
    <3>2. Leads(steps, PState(cells, cell, FALSE, FALSE), b,
                PState(Append(cells, cell), << >>, FALSE, IF sep = "\n" THEN TRUE ELSE FALSE))
      <4> DEFINE null == FALSE
      <4>1. Leads(ServerSteps(C), PState(cells, cell, null, FALSE), << sep >>,
                  PState(Append(cells, IF null THEN SqlNull ELSE cell), << >>, FALSE,
                         IF sep = "\n" THEN TRUE ELSE FALSE))
        <5>1. null \in BOOLEAN
          OBVIOUS
        <5> HIDE DEF null
        <5>2. QED BY <1>1, <5>1, ServerEnds
      <4>2. QED BY <4>1
    <3> HIDE DEF b, steps
    <3>3. QED BY <2>4, <3>1, <3>2, LeadsOn DEF b
  <2>6. QED BY <2>1, <2>4, <2>5 DEF Reads
<1>4. QED BY <1>2, <1>3

\* What table_writer inserts is what the server has, for any row.
LEMMA StoredAsWritten ==
  ASSUME NEW C, Marks \subseteq C, NEW row \in Seq(Seq(C)), row # << >>
  PROVE  InsertText(row) \in Seq(C) /\ ServerRow(InsertText(row)) = row
<1> DEFINE texts == [i \in DOMAIN row |-> CopyTo(row[i])]
           ss == [i \in DOMAIN row |->
                    CopyTo(row[i]) \o << IF i = Len(row) THEN "\n" ELSE "\t" >>]
<1>1. texts \in Seq(Seq(C)) /\ Len(texts) = Len(row)
  <2> DEFINE D == Seq(C)
  <2>1. ASSUME NEW i \in DOMAIN row PROVE CopyTo(row[i]) \in D
    <3>1. row[i] \in Seq(C)
      OBVIOUS
    <3>2. QED BY <3>1, ServerReads
  <2> HIDE DEF D
  <2>2. texts \in Seq(D) /\ Len(texts) = Len(row)
    BY <2>1
  <2>3. QED BY <2>2 DEF D
<1>2. \A i \in 1 .. Len(row) : Reads(ServerSteps(C), C, texts[i], row[i])
  <2>1. ASSUME NEW i \in 1 .. Len(row) PROVE Reads(ServerSteps(C), C, texts[i], row[i])
    <3>1. row[i] \in Seq(C) /\ texts[i] = CopyTo(row[i])
      OBVIOUS
    <3> HIDE DEF texts
    <3>2. QED BY <3>1, ServerReads
  <2>2. QED BY <2>1
<1>3. ss = [i \in DOMAIN row |-> texts[i] \o << IF i = Len(row) THEN "\n" ELSE "\t" >>]
  OBVIOUS
<1>4. Separators \subseteq C
  BY DEF Separators, Marks
<1>5. FlattenSeq(ss) = InsertText(row)
  BY DEF InsertText
<1> HIDE DEF texts, ss
<1>6. /\ FlattenSeq(ss) \in Seq(C)
      /\ Leads(ServerSteps(C), ParseStart, FlattenSeq(ss), PState(row, << >>, FALSE, TRUE))
  BY <1>1, <1>2, <1>3, <1>4, RowIsRead
<1>7. ServerRow(InsertText(row)) = PState(row, << >>, FALSE, TRUE).cells
  BY <1>5, <1>6, ServerRuns
<1>8. QED BY <1>5, <1>6, <1>7 DEF PState

-----------------------------------------------------------------------------
(* The table                                                               *)

\* The characters of the program's values, and those the format uses
Characters == Marks \cup UNION { Range(c) : c \in Cells }

\* The rows of the program
Written == UNION { [1 .. n -> Cells] : n \in 1 .. MaxWidth }

\* Table and program have what was written.
CopyInv ==
  /\ written = Nothing \/ written \in Written
  /\ table = written
  /\ fetched = Nothing \/ fetched = written

LEMMA RowFacts ==
  ASSUME NEW row \in Written
  PROVE  /\ row # << >> /\ row \in Seq(Seq(Characters))
         /\ ServerRow(InsertText(row)) = row
         /\ ParseData(ServerText(row)) = row
<1>1. Marks \subseteq Characters
  BY DEF Characters
<1>2. Cells \subseteq Seq(Characters)
  <2>1. ASSUME NEW c \in Cells PROVE c \in Seq(Characters)
    <3>1. c \in Seq(Range(c)) /\ Range(c) \subseteq Characters
      BY CellsAssumption DEF Characters
    <3>2. QED BY <3>1
  <2>2. QED BY <2>1
<1>3. PICK n \in 1 .. MaxWidth : row \in [1 .. n -> Cells]
  BY DEF Written
<1> DEFINE D == Seq(Characters)
<1>4. n \in Nat \ {0} /\ row \in [1 .. n -> D]
  BY <1>2, <1>3
<1> HIDE DEF D
<1>5. row \in Seq(D) /\ row # << >>
  BY <1>4
<1>6. row # << >> /\ row \in Seq(Seq(Characters))
  BY <1>5 DEF D
<1>7. QED BY <1>1, <1>6, StoredAsWritten, FetchedAsStored

LEMMA CopyStep == CopyInv /\ [CopyNext]_copyVars => CopyInv'
<1> SUFFICES ASSUME CopyInv, [CopyNext]_copyVars PROVE CopyInv'
  OBVIOUS
<1>1. ASSUME NEW n \in 1 .. MaxWidth, NEW row \in [1 .. n -> Cells], CopyInsert(row)
      PROVE  CopyInv'
  <2>1. row \in Written
    BY DEF Written
  <2>2. ServerRow(InsertText(row)) = row
    BY <2>1, RowFacts
  <2>3. written' = row /\ table' = row /\ fetched' = Nothing
    BY <1>1, <2>2 DEF CopyInsert
  <2>4. QED BY <2>1, <2>3 DEF CopyInv
<1>2. ASSUME CopyFetch PROVE CopyInv'
  <2>1. table = written /\ table \in Written
    BY <1>2 DEF CopyInv, CopyFetch
  <2>2. fetched' = table /\ UNCHANGED << written, table >>
    BY <1>2, <2>1, RowFacts DEF CopyFetch
  <2>3. QED BY <2>1, <2>2 DEF CopyInv
<1>3. CASE UNCHANGED copyVars
  BY <1>3 DEF CopyInv, copyVars
<1>4. QED BY <1>1, <1>2, <1>3 DEF CopyNext

\* Any row of any width, of values of any length with any characters in them,
\* is stored by table_writer::insert() and read by table_reader as it was
\* written: no value ends early, spills over, or becomes or ceases to be NULL.
THEOREM RowsAlwaysRoundTrip == CopySpec => []RowsRoundTrip
<1>1. CopyInit => CopyInv
  BY DEF CopyInit, CopyInv
<1>2. CopyInv => RowsRoundTrip
  BY DEF CopyInv, RowsRoundTrip
<1>3. QED BY <1>1, <1>2, CopyStep, PTL DEF CopySpec

-----------------------------------------------------------------------------
(* Arrays.  The two machines that read the text of an array differ in what *)
(* they make of an element without quotes; what they have in common comes  *)
(* first.                                                                  *)

\* The state of either machine
AState(at, escape, element, elements) ==
  [at |-> at, escape |-> escape, element |-> element, elements |-> elements]

LEMMA Signs ==
  /\ Comma # RightBrace /\ Comma # LeftBrace /\ Comma # Quote /\ Comma # Semicolon
  /\ RightBrace # LeftBrace /\ RightBrace # Quote /\ RightBrace # Semicolon
  /\ LeftBrace # Quote /\ LeftBrace # Semicolon /\ Quote # Semicolon
  /\ "\\" \notin {Comma, Semicolon, LeftBrace, RightBrace, Quote}
  /\ Blanks \cap {Comma, Semicolon, LeftBrace, RightBrace, Quote, "\\"} = {}
<1>1. { Control(letter) : letter \in Letters \ {"b"} } = {"FF", "\n", "CR", "\t", "VT"}
  BY DEF Control, Letters
<1>2. Blanks = {Blank, "FF", "\n", "CR", "\t", "VT"}
  BY <1>1 DEF Blanks
<1>3. QED BY <1>2, Zenon DEF Comma, Semicolon, LeftBrace, RightBrace, Quote, Blank

\* Before an element
Fronts == {"first", "element"}
Delimiters == {Comma, RightBrace}
Behind(d) == IF d = Comma THEN "element" ELSE "done"

\* P are the characters that may be in an element without quotes.
ArrayMachine(steps, C, P) ==
  \A els \in Seq(Seq(C)), x \in Seq(C), ch \in C, at \in Fronts, d \in Delimiters :
    /\ << AState("open", FALSE, << >>, els), LeftBrace, AState("first", FALSE, << >>, els) >> \in steps
    /\ << AState("first", FALSE, << >>, els), RightBrace, AState("done", FALSE, << >>, els) >> \in steps
    /\ << AState(at, FALSE, << >>, els), Quote, AState("quoted", FALSE, << >>, els) >> \in steps
    /\ << AState("quoted", FALSE, x, els), "\\", AState("quoted", TRUE, x, els) >> \in steps
    /\ << AState("quoted", TRUE, x, els), ch, AState("quoted", FALSE, Append(x, ch), els) >> \in steps
    /\ ch \notin {Quote, "\\"} =>
         << AState("quoted", FALSE, x, els), ch, AState("quoted", FALSE, Append(x, ch), els) >> \in steps
    /\ << AState("quoted", FALSE, x, els), Quote, AState("after", FALSE, << >>, Append(els, x)) >> \in steps
    /\ << AState("after", FALSE, << >>, els), d, AState(Behind(d), FALSE, << >>, els) >> \in steps
    /\ ch \in P =>
         /\ << AState(at, FALSE, << >>, els), ch, AState("unquoted", FALSE, << ch >>, els) >> \in steps
         /\ << AState("unquoted", FALSE, x, els), ch, AState("unquoted", FALSE, Append(x, ch), els) >> \in steps

\* A text, with a delimiter behind it, is taken for a value.
Takes(steps, C, text, val) ==
  \A els \in Seq(Seq(C)), at \in Fronts, d \in Delimiters :
    Leads(steps, AState(at, FALSE, << >>, els), text \o << d >>,
          AState(Behind(d), FALSE, << >>, Append(els, val)))

\* Between quotes every value is taken for what it is.
LEMMA QuotedIsTaken ==
  ASSUME NEW steps, NEW C, NEW P, ArrayMachine(steps, C, P),
         {Quote, "\\"} \cup Delimiters \subseteq C, NEW e \in Seq(C)
  PROVE  Quoted(e) \in Seq(C) /\ Takes(steps, C, Quoted(e), e)
<1> DEFINE D == Seq(C)
           none == << >>
           q == << Quote >>
           ss == [i \in DOMAIN e |-> Backslashed(e[i])]
           body == FlattenSeq(ss)
           m == Len(e)
<1>1. none \in D /\ q \in D /\ m \in Nat /\ DOMAIN e = 1 .. m /\ \A i \in 1 .. m : e[i] \in C
  OBVIOUS
<1>2. Quoted(e) = q \o body \o q
  BY DEF Quoted
<1>3. ss \in Seq(D) /\ Len(ss) = m /\ \A i \in 1 .. m : ss[i] = Backslashed(e[i])
  <2>1. ASSUME NEW i \in 1 .. m PROVE Backslashed(e[i]) \in D
    <3>1. e[i] \in C /\ "\\" \in C
      BY <1>1
    <3>2. QED BY <3>1 DEF Backslashed
  <2> HIDE DEF D
  <2>2. QED BY <1>1, <2>1
<1>4. ASSUME NEW els \in Seq(Seq(C)), NEW x \in Seq(C), NEW ch \in C
      PROVE  Leads(steps, AState("quoted", FALSE, x, els), Backslashed(ch),
                   AState("quoted", FALSE, Append(x, ch), els))
  <2> DEFINE s == AState("quoted", FALSE, x, els)
             u == AState("quoted", TRUE, x, els)
             t == AState("quoted", FALSE, Append(x, ch), els)
  <2>1. CASE ch \notin {Quote, "\\"}
    <3>1. << s, ch, t >> \in steps
      BY <2>1 DEF ArrayMachine, Fronts, Delimiters
    <3>2. Backslashed(ch) = << ch >>
      BY <2>1 DEF Backslashed
    <3> HIDE DEF s, t
    <3>3. Leads(steps, s, << ch >>, t)
      BY <3>1, LeadsByOne
    <3>4. QED BY <3>2, <3>3 DEF s, t
  <2>2. CASE ch \in {Quote, "\\"}
    <3> DEFINE a == << "\\" >>
               b == << ch >>
    <3>1. << s, "\\", u >> \in steps /\ << u, ch, t >> \in steps
      BY DEF ArrayMachine, Fronts, Delimiters
    <3>2. Backslashed(ch) = a \o b
      BY <2>2, Two DEF Backslashed
    <3>3. a \in Seq(C) /\ b \in Seq(C)
      OBVIOUS
    <3> HIDE DEF s, u, t
    <3>4. Leads(steps, s, a, u) /\ Leads(steps, u, b, t)
      BY <3>1, LeadsByOne
    <3> HIDE DEF a, b
    <3>5. Leads(steps, s, a \o b, t)
      BY <3>3, <3>4, LeadsOn
    <3>6. QED BY <3>2, <3>5 DEF s, t
  <2>3. QED BY <2>1, <2>2
<1>5. ASSUME NEW els \in Seq(Seq(C))
      PROVE  /\ body \in Seq(C)
             /\ Leads(steps, AState("quoted", FALSE, << >>, els), body, AState("quoted", FALSE, e, els))
  <2> DEFINE st == [p \in Seq(C) \X Nat |-> AState("quoted", FALSE, p[1], els)]
  <2>1. \A x \in Seq(C), k \in Nat : st[<< x, k >>] = AState("quoted", FALSE, x, els)
    OBVIOUS
  <2> HIDE DEF st, none, ss
  <2>2. ASSUME NEW i \in 1 .. Len(e), NEW x \in Seq(C)
        PROVE  Leads(steps, st[<< x, Len(e) - i + 1 >>], ss[i], st[<< Append(x, e[i]), Len(e) - i >>])
    <3>1. m - i + 1 \in Nat /\ m - i \in Nat /\ Append(x, e[i]) \in Seq(C) /\ e[i] \in C
      BY <1>1
    <3>2. Leads(steps, AState("quoted", FALSE, x, els), ss[i],
                AState("quoted", FALSE, Append(x, e[i]), els))
      BY <1>3, <1>4, <3>1
    <3>3. QED BY <2>1, <3>1, <3>2
  <2>3. Gathers(steps, ss, e, C, st)
    BY <2>2 DEF Gathers
  <2>4. /\ FlattenSeq(ss) \in Seq(C)
        /\ Leads(steps, st[<< << >>, Len(e) >>], FlattenSeq(ss), st[<< e, 0 >>])
    BY <1>3, <2>3, Gathering
  <2>5. st[<< none, m >>] = AState("quoted", FALSE, none, els)
        /\ st[<< e, 0 >>] = AState("quoted", FALSE, e, els)
    BY <1>1, <2>1
  <2>6. QED BY <2>4, <2>5 DEF none
<1> HIDE DEF ss, body
<1>6. body \in Seq(C)
  <2>1. << >> \in Seq(Seq(C))
    OBVIOUS
  <2>2. QED BY <1>5, <2>1
<1> DEFINE qb == q \o body
           qbq == qb \o q
<1>7. qb \in D /\ qbq \in D
  <2> HIDE DEF q
  <2>1. qb \in D
    BY <1>1, <1>6, ConcatFacts
  <2> HIDE DEF qb
  <2>2. QED BY <1>1, <2>1, ConcatFacts
<1>8. ASSUME NEW els \in Seq(Seq(C)), NEW at \in Fronts, NEW d \in Delimiters
      PROVE  Leads(steps, AState(at, FALSE, << >>, els), qbq \o << d >>,
                   AState(Behind(d), FALSE, << >>, Append(els, e)))
  <2> DEFINE s == AState(at, FALSE, << >>, els)
             t == AState("quoted", FALSE, << >>, els)
             u == AState("quoted", FALSE, e, els)
             v == AState("after", FALSE, << >>, Append(els, e))
             w == AState(Behind(d), FALSE, << >>, Append(els, e))
             b == << d >>
  <2>1. Append(els, e) \in Seq(Seq(C)) /\ d \in C /\ Quote \in C
    OBVIOUS
  <2>2. << s, Quote, t >> \in steps /\ << u, Quote, v >> \in steps
    BY <2>1 DEF ArrayMachine
  <2>3. << v, d, w >> \in steps
    <3> DEFINE more == Append(els, e)
    <3>1. \A l \in Seq(Seq(C)) :
            << AState("after", FALSE, << >>, l), d, AState(Behind(d), FALSE, << >>, l) >> \in steps
      BY <2>1, <1>1 DEF ArrayMachine
    <3>2. more \in Seq(Seq(C))
      BY <2>1
    <3> HIDE DEF more
    <3>3. << AState("after", FALSE, << >>, more), d, AState(Behind(d), FALSE, << >>, more) >> \in steps
      BY <3>1, <3>2
    <3>4. QED BY <3>3 DEF more
  <2>4. Leads(steps, t, body, u)
    BY <1>5
  <2> HIDE DEF s, t, u, v, w
  <2>5. Leads(steps, s, q, t) /\ Leads(steps, u, q, v) /\ Leads(steps, v, b, w)
    BY <2>2, <2>3, LeadsByOne
  <2>6. b \in Seq(C)
    BY <2>1
  <2> HIDE DEF q, b, qb, qbq
  <2>7. Leads(steps, s, qb, u)
    BY <1>1, <1>6, <2>4, <2>5, LeadsOn DEF qb
  <2>8. Leads(steps, s, qbq, v)
    BY <1>1, <1>7, <2>5, <2>7, LeadsOn DEF qbq
  <2>9. Leads(steps, s, qbq \o b, w)
    BY <1>7, <2>5, <2>6, <2>8, LeadsOn
  <2>10. QED BY <2>9 DEF s, w, b
<1>9. Takes(steps, C, qbq, e)
  BY <1>8 DEF Takes
<1>10. QED BY <1>2, <1>7, <1>9 DEF qbq, qb

\* Without quotes the characters are gathered up to the delimiter.
Ends(steps, C, e, val) ==
  \A els \in Seq(Seq(C)), d \in Delimiters :
    << AState("unquoted", FALSE, e, els), d, AState(Behind(d), FALSE, << >>, Append(els, val)) >> \in steps

\* An element without quotes is gathered as it is.
LEMMA PlainIsGathered ==
  ASSUME NEW steps, NEW C, NEW P, ArrayMachine(steps, C, P), P \subseteq C,
         NEW e \in Seq(P), e # << >>, NEW els \in Seq(Seq(C)), NEW at \in Fronts
  PROVE  Leads(steps, AState(at, FALSE, << >>, els), e, AState("unquoted", FALSE, e, els))
<1> DEFINE m == Len(e)
           f == [n \in 0 .. m |-> IF n = 0 THEN AState(at, FALSE, << >>, els)
                                  ELSE AState("unquoted", FALSE, Prefix(e, n), els)]
<1>1. m \in Nat \ {0} /\ \A i \in 1 .. m : e[i] \in P
  OBVIOUS
<1>2. f[0] = AState(at, FALSE, << >>, els)
  BY <1>1
<1>3. \A n \in 1 .. m : f[n] = AState("unquoted", FALSE, Prefix(e, n), els)
  <2>1. ASSUME NEW n \in 1 .. m PROVE f[n] = AState("unquoted", FALSE, Prefix(e, n), els)
    <3>1. n \in 0 .. m /\ n # 0
      BY <1>1
    <3>2. QED BY <3>1
  <2>2. QED BY <2>1
<1>4. f[m] = AState("unquoted", FALSE, e, els)
  <2>1. m \in 1 .. m /\ Prefix(e, m) = e
    BY <1>1, PrefixFacts
  <2>2. QED BY <1>3, <2>1
<1> HIDE DEF f
<1>5. ASSUME NEW n \in 1 .. m PROVE << f[n - 1], e[n], f[n] >> \in steps
  <2> DEFINE x == Prefix(e, n - 1)
             ch == e[n]
             y == Prefix(e, n)
  <2>1. x \in Seq(P) /\ Append(x, ch) = y /\ ch \in P /\ ch \in C
    BY <1>1, PrefixFacts
  <2>2. x \in Seq(C)
    BY <2>1
  <2>3. CASE n = 1
    <3>1. n - 1 = 0 /\ x = << >>
      BY <2>3, PrefixFacts
    <3>2. y = << ch >>
      BY <2>1, <3>1
    <3> HIDE DEF x, y, ch
    <3>3. << AState(at, FALSE, << >>, els), ch, AState("unquoted", FALSE, << ch >>, els) >> \in steps
      <4>1. Comma \in Delimiters /\ << >> \in Seq(C)
        BY DEF Delimiters
      <4>2. QED BY <2>1, <4>1 DEF ArrayMachine
    <3>4. f[n - 1] = AState(at, FALSE, << >>, els) /\ f[n] = AState("unquoted", FALSE, << ch >>, els)
      BY <1>2, <1>3, <3>1, <3>2 DEF y
    <3>5. QED BY <3>3, <3>4 DEF ch
  <2>4. CASE n # 1
    <3>1. n - 1 \in 1 .. m
      BY <1>1, <2>4
    <3>2. f[n - 1] = AState("unquoted", FALSE, x, els) /\ f[n] = AState("unquoted", FALSE, y, els)
      BY <1>3, <3>1
    <3> HIDE DEF x, y, ch
    <3>3. << AState("unquoted", FALSE, x, els), ch, AState("unquoted", FALSE, Append(x, ch), els) >> \in steps
      <4>1. Comma \in Delimiters
        BY DEF Delimiters
      <4>2. QED BY <2>1, <2>2, <4>1 DEF ArrayMachine
    <3>4. QED BY <2>1, <3>2, <3>3 DEF ch
  <2>5. QED BY <2>3, <2>4
<1>6. QED BY <1>2, <1>4, <1>5 DEF Leads

\* It is taken for what the machine makes of it at the delimiter behind.
LEMMA PlainIsTaken ==
  ASSUME NEW steps, NEW C, NEW P, ArrayMachine(steps, C, P), P \subseteq C, Delimiters \subseteq C,
         NEW e \in Seq(P), e # << >>, NEW val, Ends(steps, C, e, val)
  PROVE  Takes(steps, C, e, val)
<1>1. ASSUME NEW els \in Seq(Seq(C)), NEW at \in Fronts, NEW d \in Delimiters
      PROVE  Leads(steps, AState(at, FALSE, << >>, els), e \o << d >>,
                   AState(Behind(d), FALSE, << >>, Append(els, val)))
  <2> DEFINE s == AState(at, FALSE, << >>, els)
             t == AState("unquoted", FALSE, e, els)
             u == AState(Behind(d), FALSE, << >>, Append(els, val))
             b == << d >>
  <2>1. Leads(steps, s, e, t)
    BY PlainIsGathered
  <2>2. << t, d, u >> \in steps
    BY DEF Ends
  <2>3. e \in Seq(C) /\ b \in Seq(C)
    OBVIOUS
  <2> HIDE DEF s, t, u
  <2>4. Leads(steps, t, b, u)
    BY <2>2, LeadsByOne
  <2> HIDE DEF b
  <2>5. Leads(steps, s, e \o b, u)
    BY <2>1, <2>3, <2>4, LeadsOn
  <2>6. QED BY <2>5 DEF s, u, b
<1>2. QED BY <1>1 DEF Takes

\* The machines never get back an element they have read, nor out of an error.
Spots == {"open", "first", "element", "quoted", "unquoted", "after", "done", "error"}

AStates(C) == [at : Spots, escape : BOOLEAN, element : Seq(C), elements : Seq(Seq(C))]

Lasting(steps, C) ==
  \A s \in AStates(C), ch \in C :
    /\ \E t \in AStates(C) : << s, ch, t >> \in steps
    /\ \A t : << s, ch, t >> \in steps =>
         /\ s.at = "error" => t.at = "error"
         /\ t.elements = s.elements \/ \E v : t.elements = Append(s.elements, v)

\* The array cannot be read any more as one that has e as its element k.
Wrong(s, k, e) == s.at = "error" \/ (k <= Len(s.elements) /\ s.elements[k] # e)

LEMMA WrongLasts ==
  ASSUME NEW steps, NEW C, Lasting(steps, C), NEW text \in Seq(C), NEW s \in AStates(C),
         NEW k \in Nat \ {0}, NEW e
  PROVE  \E t \in AStates(C) : Leads(steps, s, text, t) /\ (Wrong(s, k, e) => Wrong(t, k, e))
<1> DEFINE m == Len(text)
           A == AStates(C)
           Next1(x) == CHOOSE t : t \in A /\ << x[2], text[x[1]], t >> \in steps
           step == [x \in (1 .. m) \X A |-> Next1(x)]
<1>1. m \in Nat /\ \A n \in 1 .. m : text[n] \in C
  OBVIOUS
<1>2. \A n \in 1 .. m, a \in A : step[<< n, a >>] \in A /\ << a, text[n], step[<< n, a >>] >> \in steps
  <2>1. ASSUME NEW n \in 1 .. m, NEW a \in A
        PROVE  step[<< n, a >>] \in A /\ << a, text[n], step[<< n, a >>] >> \in steps
    <3>1. step[<< n, a >>] = CHOOSE t : t \in A /\ << a, text[n], t >> \in steps
      OBVIOUS
    <3>2. \E t \in A : << a, text[n], t >> \in steps
      BY <1>1 DEF Lasting
    <3> HIDE DEF step, A
    <3>3. QED BY <3>1, <3>2
  <2>2. QED BY <2>1
<1>3. step \in [(1 .. m) \X A -> A]
  <2>1. ASSUME NEW x \in (1 .. m) \X A PROVE step[x] \in A
    <3>1. x[1] \in 1 .. m /\ x[2] \in A /\ x = << x[1], x[2] >>
      OBVIOUS
    <3> HIDE DEF step, A
    <3>2. QED BY <1>2, <3>1
  <2> HIDE DEF Next1, A
  <2>2. step = [x \in (1 .. m) \X A |-> step[x]]
    OBVIOUS
  <2> HIDE DEF step
  <2>3. QED BY <2>1, <2>2
<1> HIDE DEF step, m
<1>4. PICK f \in [0 .. m -> A] : Follows(f, m, s, step)
  <2> HIDE DEF A
  <2>1. s \in A
    BY DEF A
  <2>2. QED BY <1>1, <1>3, <2>1, Recursion
<1>5. f[0] = s /\ \A n \in 1 .. m : << f[n - 1], text[n], f[n] >> \in steps
  <2>1. ASSUME NEW n \in 1 .. m PROVE << f[n - 1], text[n], f[n] >> \in steps
    <3>1. n - 1 \in 0 .. m
      BY <1>1
    <3>2. f[n - 1] \in A /\ f[n] = step[<< n, f[n - 1] >>]
      BY <1>4, <3>1 DEF Follows
    <3> HIDE DEF A
    <3>3. QED BY <1>2, <3>2
  <2>2. QED BY <1>4, <2>1 DEF Follows
<1> DEFINE W == { n \in 0 .. m : Wrong(s, k, e) => Wrong(f[n], k, e) }
<1>6. 0 \in W
  BY <1>1, <1>5
<1>7. ASSUME NEW n \in 1 .. m, n - 1 \in W PROVE n \in W
  <2> DEFINE a == f[n - 1]
             b == f[n]
  <2>1. n \in 0 .. m /\ n - 1 \in 0 .. m
    BY <1>1
  <2>2. a \in AStates(C) /\ text[n] \in C /\ << a, text[n], b >> \in steps
    BY <1>1, <1>4, <1>5, <2>1
  <2>3. Wrong(s, k, e) => Wrong(a, k, e)
    BY <1>7
  <2> HIDE DEF a, b
  <2>4. /\ a.at = "error" => b.at = "error"
        /\ b.elements = a.elements \/ \E v : b.elements = Append(a.elements, v)
    BY <2>2 DEF Lasting
  <2>5. ASSUME k <= Len(a.elements) /\ a.elements[k] # e
        PROVE  k <= Len(b.elements) /\ b.elements[k] # e
    <3>1. CASE b.elements = a.elements
      BY <2>5, <3>1
    <3>2. ASSUME NEW v, b.elements = Append(a.elements, v)
          PROVE  k <= Len(b.elements) /\ b.elements[k] # e
      <4>1. a.elements \in Seq(Seq(C))
        BY <2>2 DEF AStates
      <4> DEFINE l == a.elements
                 T == Seq(C)
      <4>2. l \in Seq(T) /\ k \in 1 .. Len(l)
        BY <2>5, <4>1
      <4> HIDE DEF l, T
      <4>3. Len(Append(l, v)) = Len(l) + 1 /\ Append(l, v)[k] = l[k] /\ Len(l) \in Nat
        BY <4>2
      <4>4. k <= Len(Append(l, v)) /\ Append(l, v)[k] # e
        BY <2>5, <4>2, <4>3 DEF l
      <4>5. QED BY <3>2, <4>4 DEF l
    <3>3. QED BY <2>4, <3>1, <3>2
  <2>6. Wrong(a, k, e) => Wrong(b, k, e)
    BY <2>4, <2>5 DEF Wrong
  <2>7. QED BY <2>1, <2>3, <2>6 DEF a, b
<1>8. m \in W
  <2> HIDE DEF W
  <2>1. \A n \in 0 .. m : n \in W
    BY <1>1, <1>6, <1>7, Upwards
  <2>2. QED BY <1>1, <2>1
<1>9. f[m] \in A
  <2> HIDE DEF A
  <2>1. QED BY <1>1, <1>4
<1>10. Leads(steps, s, text, f[m])
  BY <1>5 DEF Leads, m
<1>11. QED BY <1>8, <1>9, <1>10

\* A text, with a delimiter behind it, is taken for something else than e.
Spoils(steps, C, text, e) ==
  \A els \in Seq(Seq(C)), at \in Fronts, d \in Delimiters :
    \E t \in AStates(C) :
      Leads(steps, AState(at, FALSE, << >>, els), text \o << d >>, t) /\ Wrong(t, Len(els) + 1, e)

\* An array whose elements are taken for what they are is read; with a first
\* one that is not it is read as another, or not at all.
LEMMA ArrayIsRead ==
  ASSUME NEW steps, NEW C, NEW P, ArrayMachine(steps, C, P), Lasting(steps, C),
         {LeftBrace} \cup Delimiters \subseteq C,
         NEW xs \in Seq(Seq(C)), NEW texts \in Seq(Seq(C)), Len(texts) = Len(xs),
         NEW k \in 1 .. Len(xs) + 1,
         \A i \in 1 .. k - 1 : Takes(steps, C, texts[i], xs[i]),
         k <= Len(xs) => Spoils(steps, C, texts[k], xs[k])
  PROVE  /\ Braced(texts) \in Seq(C)
         /\ \E t \in AStates(C) :
              /\ Leads(steps, ParserStart, Braced(texts), t)
              /\ IF k = Len(xs) + 1 THEN t = AState("done", FALSE, << >>, xs) ELSE Wrong(t, k, xs[k])
<1> DEFINE m == Len(xs)
           none == << >>
           open == << LeftBrace >>
           first == AState("first", FALSE, none, none)
           Spot(n) == IF n = 0 THEN "first" ELSE IF n = m THEN "done" ELSE "element"
           Good(n) == AState(Spot(n), FALSE, none, Prefix(xs, n))
           SoFar(n, t) == IF n < k THEN t = Good(n) ELSE Wrong(t, k, xs[k])
           Sep(i) == IF i = m THEN RightBrace ELSE Comma
           ss == [i \in DOMAIN texts |-> texts[i] \o << IF i = Len(texts) THEN RightBrace ELSE Comma >>]
<1>1. m \in Nat /\ k \in Nat \ {0} /\ k <= m + 1
  OBVIOUS
<1>2. none \in Seq(C) /\ none \in Seq(Seq(C)) /\ open \in Seq(C)
  OBVIOUS
<1>3. first \in AStates(C) /\ ParserStart = AState("open", FALSE, none, none)
  BY <1>2 DEF AState, AStates, Spots, ParserStart
<1>4. Leads(steps, ParserStart, open, first)
  <2>1. << ParserStart, LeftBrace, first >> \in steps
    <3>1. "first" \in Fronts /\ Comma \in Delimiters /\ Comma \in C
      BY DEF Fronts, Delimiters
    <3> HIDE DEF none
    <3>2. << AState("open", FALSE, << >>, none), LeftBrace, AState("first", FALSE, << >>, none) >> \in steps
      BY <1>2, <3>1 DEF ArrayMachine
    <3>3. QED BY <1>3, <3>2 DEF none
  <2> HIDE DEF first
  <2>2. QED BY <2>1, LeadsByOne
<1>5. Prefix(xs, 0) = none /\ Prefix(xs, m) = xs
      /\ \A n \in 1 .. m : Prefix(xs, n - 1) \in Seq(Seq(C)) /\ Append(Prefix(xs, n - 1), xs[n]) = Prefix(xs, n)
  BY PrefixFacts
<1>6. CASE m = 0
  <2> DEFINE close == << RightBrace >>
             done == AState("done", FALSE, none, none)
  <2>1. xs = << >> /\ texts = << >> /\ k = m + 1
    BY <1>1, <1>6
  <2>2. Braced(texts) = open \o close
    BY <2>1, Two DEF Braced
  <2>3. close \in Seq(C) /\ done \in AStates(C)
    BY <1>2 DEF Delimiters, AState, AStates, Spots
  <2>4. << first, RightBrace, done >> \in steps
    <3>1. "first" \in Fronts /\ Comma \in Delimiters /\ Comma \in C
      BY DEF Fronts, Delimiters
    <3> HIDE DEF none
    <3>2. << AState("first", FALSE, << >>, none), RightBrace, AState("done", FALSE, << >>, none) >> \in steps
      BY <1>2, <3>1 DEF ArrayMachine
    <3>3. QED BY <3>2 DEF none
  <2> HIDE DEF first, done, open
  <2>5. Leads(steps, first, close, done)
    BY <2>4, LeadsByOne
  <2> HIDE DEF close
  <2>6. Leads(steps, ParserStart, open \o close, done) /\ open \o close \in Seq(C)
    BY <1>2, <1>4, <2>3, <2>5, LeadsOn, ConcatFacts
  <2>7. done = AState("done", FALSE, << >>, xs)
    BY <2>1 DEF done
  <2>8. QED BY <2>1, <2>2, <2>3, <2>6, <2>7
<1>7. CASE m # 0
  <2>1. texts # << >> /\ Braced(texts) = open \o FlattenSeq(ss) /\ DOMAIN texts = 1 .. m
    BY <1>7 DEF Braced
  <2>2. ASSUME NEW n \in 1 .. m
        PROVE  /\ Sep(n) \in Delimiters /\ Sep(n) \in C
               /\ ss[n] = texts[n] \o << Sep(n) >> /\ ss[n] \in Seq(C)
    <3>1. Sep(n) \in Delimiters /\ Sep(n) \in C
      BY DEF Delimiters
    <3>2. ss[n] = texts[n] \o << Sep(n) >>
      BY <2>1
    <3> DEFINE a == texts[n]
               b == << Sep(n) >>
    <3>3. a \in Seq(C)
      BY <2>1
    <3> HIDE DEF Sep
    <3>4. b \in Seq(C)
      BY <3>1
    <3> HIDE DEF a, b
    <3>5. a \o b \in Seq(C)
      BY <3>3, <3>4, ConcatFacts
    <3>6. QED BY <3>1, <3>2, <3>5 DEF a, b
  <2>3. ss \in Seq(Seq(C)) /\ Len(ss) = m /\ ss # << >>
    <3>1. ss = [i \in 1 .. m |-> ss[i]]
      BY <2>1
    <3>2. \A i \in 1 .. m : ss[i] \in Seq(C)
      BY <2>2
    <3> DEFINE D == Seq(C)
    <3> HIDE DEF D, ss
    <3>3. ss \in [1 .. m -> D]
      BY <3>1, <3>2 DEF D
    <3>4. ss \in Seq(D) /\ Len(ss) = m /\ ss # << >>
      <4>1. m \in Nat \ {0}
        BY <1>1, <1>7
      <4> HIDE DEF m
      <4>2. QED BY <3>3, <4>1
    <3>5. QED BY <3>4 DEF D
  <2> HIDE DEF ss
  <2>4. PICK F \in [1 .. Len(ss) -> Seq(C)] :
          /\ F[1] = ss[1] /\ FlattenSeq(ss) = F[Len(ss)]
          /\ \A n \in 2 .. Len(ss) : F[n] = F[n - 1] \o ss[n]
    BY <2>3, FlattenFacts
  <2>5. ASSUME NEW n \in 1 .. m, NEW u \in AStates(C), SoFar(n - 1, u)
        PROVE  \E t \in AStates(C) : Leads(steps, u, ss[n], t) /\ SoFar(n, t)
    <3> DEFINE els == Prefix(xs, n - 1)
               at == Spot(n - 1)
    <3>1. n - 1 \in Nat /\ n - 1 # m /\ n \in Nat \ {0}
      BY <1>1
    <3>2. at \in Fronts
      BY <3>1 DEF Fronts
    <3>3. els \in Seq(Seq(C)) /\ Len(els) = n - 1
      <4>1. els \in Seq(Seq(C))
        BY <1>5
      <4>2. Len(els) = n - 1
        BY <3>1 DEF Prefix
      <4>3. QED BY <4>1, <4>2
    <3>4. CASE n < k
      <4>1. n - 1 < k
        BY <1>1, <3>1, <3>4
      <4>2. u = AState(at, FALSE, << >>, els)
        <5> HIDE DEF Spot
        <5>1. QED BY <2>5, <4>1
      <4>3. Takes(steps, C, texts[n], xs[n])
        BY <1>1, <3>4
      <4> DEFINE t == AState(Behind(Sep(n)), FALSE, << >>, Append(els, xs[n]))
      <4>4. Leads(steps, u, ss[n], t)
        <5> HIDE DEF Sep, els, at
        <5>1. QED BY <2>2, <3>2, <3>3, <4>2, <4>3 DEF Takes
      <4>5. t = Good(n)
        <5>1. Behind(Sep(n)) = Spot(n)
          <6>1. Comma # RightBrace
            BY Signs
          <6>2. QED BY <3>1, <6>1 DEF Behind
        <5>2. Append(els, xs[n]) = Prefix(xs, n)
          BY <1>5
        <5> HIDE DEF Sep, At, els
        <5>3. QED BY <5>1, <5>2
      <4>6. Good(n) \in AStates(C)
        <5>1. Prefix(xs, n) \in Seq(Seq(C))
          <6> DEFINE T == Seq(C)
                     y == xs[n]
          <6>1. y \in T
            OBVIOUS
          <6>2. els \in Seq(T) /\ Append(els, y) = Prefix(xs, n)
            BY <1>5, <3>3
          <6> HIDE DEF T, y, els
          <6>3. Append(els, y) \in Seq(T)
            <7>1. \A l \in Seq(T), z \in T : Append(l, z) \in Seq(T)
              OBVIOUS
            <7>2. QED BY <6>1, <6>2, <7>1
          <6>4. QED BY <6>2, <6>3 DEF T
        <5>2. Spot(n) \in Spots
          BY DEF Spots
        <5> HIDE DEF At
        <5>3. QED BY <1>2, <5>1, <5>2 DEF AState, AStates
      <4> HIDE DEF t, Good
      <4>7. QED BY <3>4, <4>4, <4>5, <4>6
    <3>5. CASE n = k
      <4>1. n - 1 < k
        BY <1>1, <3>1, <3>5
      <4>2. u = AState(at, FALSE, << >>, els)
        <5> HIDE DEF Spot
        <5>1. QED BY <2>5, <4>1
      <4>3. Spoils(steps, C, texts[n], xs[n])
        BY <1>1, <3>5
      <4>4. \E t \in AStates(C) :
              Leads(steps, u, texts[n] \o << Sep(n) >>, t) /\ Wrong(t, Len(els) + 1, xs[n])
        <5> HIDE DEF Sep, els, at
        <5>1. QED BY <2>2, <3>2, <3>3, <4>2, <4>3 DEF Spoils
      <4>5. Len(els) + 1 = k /\ ~(n < k)
        BY <1>1, <3>1, <3>3, <3>5
      <4> HIDE DEF els, Sep
      <4>6. QED BY <2>2, <3>5, <4>4, <4>5
    <3>6. CASE n > k
      <4>1. ~(n - 1 < k) /\ ~(n < k)
        BY <1>1, <3>1, <3>6
      <4>2. Wrong(u, k, xs[k]) /\ ~(n < k)
        <5> HIDE DEF Good
        <5>1. QED BY <2>5, <4>1
      <4>3. \E t \in AStates(C) :
              Leads(steps, u, ss[n], t) /\ (Wrong(u, k, xs[k]) => Wrong(t, k, xs[k]))
        BY <1>1, <2>2, WrongLasts
      <4>4. QED BY <4>2, <4>3
    <3>7. n < k \/ n = k \/ n > k
      BY <1>1, <3>1
    <3> HIDE DEF SoFar
    <3>8. QED BY <3>4, <3>5, <3>6, <3>7
  <2>6. SoFar(0, first)
    <3>1. Spot(0) = "first" /\ 0 < k
      BY <1>1
    <3>2. QED BY <1>5, <3>1
  <2> HIDE DEF SoFar
  <2> DEFINE W == { n \in 0 .. m : n = 0 \/ \E t \in AStates(C) : Leads(steps, first, F[n], t) /\ SoFar(n, t) }
  <2>7. 0 \in W
    BY <1>1
  <2>8. ASSUME NEW n \in 1 .. m, n - 1 \in W PROVE n \in W
    <3>1. n \in 0 .. m
      BY <1>1
    <3>2. CASE n = 1
      <4>1. \E t \in AStates(C) : Leads(steps, first, ss[n], t) /\ SoFar(n, t)
        <5>1. n - 1 = 0
          BY <3>2
        <5> HIDE DEF first
        <5>2. SoFar(n - 1, first)
          BY <2>6, <5>1
        <5>3. QED BY <1>3, <2>5, <5>2
      <4>2. F[n] = ss[n]
        BY <2>4, <3>2
      <4>3. QED BY <3>1, <4>1, <4>2
    <3>3. CASE n # 1
      <4>1. n - 1 # 0 /\ n \in 2 .. m /\ n - 1 \in 1 .. m
        BY <1>1, <3>3
      <4>2. PICK u \in AStates(C) : Leads(steps, first, F[n - 1], u) /\ SoFar(n - 1, u)
        BY <2>8, <4>1
      <4>3. PICK t \in AStates(C) : Leads(steps, u, ss[n], t) /\ SoFar(n, t)
        BY <2>5, <4>2
      <4>4. F[n] = F[n - 1] \o ss[n] /\ F[n - 1] \in Seq(C) /\ ss[n] \in Seq(C)
        BY <2>2, <2>3, <2>4, <4>1
      <4> HIDE DEF first
      <4>5. Leads(steps, first, F[n - 1] \o ss[n], t)
        BY <4>2, <4>3, <4>4, LeadsOn
      <4>6. Leads(steps, first, F[n], t)
        BY <4>4, <4>5
      <4>7. QED BY <3>1, <4>3, <4>6
    <3>4. QED BY <3>2, <3>3
  <2>9. m \in W
    <3> HIDE DEF W
    <3>1. \A n \in 0 .. m : n \in W
      BY <1>1, <2>7, <2>8, Upwards
    <3>2. QED BY <1>1, <3>1
  <2>10. PICK t \in AStates(C) : Leads(steps, first, F[m], t) /\ SoFar(m, t)
    BY <1>7, <2>9
  <2> HIDE DEF first, open
  <2>11. F[m] \in Seq(C) /\ FlattenSeq(ss) = F[m]
    BY <1>1, <1>7, <2>3, <2>4
  <2>12. Leads(steps, ParserStart, open \o F[m], t) /\ open \o F[m] \in Seq(C)
    BY <1>2, <1>4, <2>10, <2>11, LeadsOn, ConcatFacts
  <2>13. IF k = Len(xs) + 1 THEN t = AState("done", FALSE, << >>, xs) ELSE Wrong(t, k, xs[k])
    <3>1. CASE k = m + 1
      <4>1. m < k /\ Spot(m) = "done"
        BY <1>1, <1>7, <3>1
      <4>2. t = Good(m)
        BY <2>10, <4>1 DEF SoFar
      <4>3. QED BY <1>5, <3>1, <4>1, <4>2
    <3>2. CASE k # m + 1
      <4>1. ~(m < k)
        BY <1>1, <3>2
      <4>2. QED BY <2>10, <3>2, <4>1 DEF SoFar
    <3>3. QED BY <3>1, <3>2
  <2>14. QED BY <2>1, <2>11, <2>12, <2>13
<1>8. QED BY <1>6, <1>7

-----------------------------------------------------------------------------
(* The two machines for arrays                                             *)

\* Between quotes the two machines take the same steps.
QuotedMoves(x, els, ch) ==
  /\ QuotedStep(AState("quoted", TRUE, x, els), ch) = AState("quoted", FALSE, Append(x, ch), els)
  /\ QuotedStep(AState("quoted", FALSE, x, els), "\\") = AState("quoted", TRUE, x, els)
  /\ QuotedStep(AState("quoted", FALSE, x, els), Quote) = AState("after", FALSE, << >>, Append(els, x))
  /\ ch \notin {Quote, "\\"} =>
       QuotedStep(AState("quoted", FALSE, x, els), ch) = AState("quoted", FALSE, Append(x, ch), els)

LEMMA QuotedDoes ==
  ASSUME NEW x, NEW els, NEW ch
  PROVE  QuotedMoves(x, els, ch)
<1> DEFINE yes == TRUE
           no == FALSE
           s == AState("quoted", no, x, els)
           u == AState("quoted", yes, x, els)
           y == Append(x, ch)
<1>1. u.escape = TRUE /\ u.element = x /\ s.escape = FALSE /\ s.element = x
  BY DEF AState
<1>2. [u EXCEPT !.escape = no, !.element = y] = AState("quoted", no, y, els)
  <2> HIDE DEF yes, no, y
  <2>1. PICK t : t = [u EXCEPT !.escape = no, !.element = y]
    OBVIOUS
  <2>2. t = AState("quoted", no, y, els)
    BY <2>1 DEF AState
  <2>3. QED BY <2>1, <2>2
<1>3. [s EXCEPT !.escape = yes] = u
  <2> HIDE DEF yes, no
  <2>1. QED BY DEF AState
<1>4. [s EXCEPT !.element = y] = AState("quoted", no, y, els)
  <2> HIDE DEF no, y
  <2>1. QED BY DEF AState
<1>5. [Close(s, x) EXCEPT !.at = "after"] = AState("after", no, << >>, Append(els, x))
  <2> DEFINE more == Append(els, x)
             none == << >>
  <2> HIDE DEF no, none
  <2>1. PICK c : c = [s EXCEPT !.elements = Append(@, x), !.element = none]
    OBVIOUS
  <2>2. Close(s, x) = c
    BY <2>1 DEF Close, none
  <2>3. c = AState("quoted", no, none, more)
    BY <2>1 DEF AState
  <2> HIDE DEF more
  <2>4. [c EXCEPT !.at = "after"] = AState("after", no, none, more)
    BY <2>3 DEF AState
  <2>5. QED BY <2>2, <2>4 DEF none, more
<1> HIDE DEF s, u
<1>6. QuotedStep(u, ch) = [u EXCEPT !.escape = FALSE, !.element = Append(@, ch)]
  BY <1>1 DEF QuotedStep
<1>7. QuotedStep(s, "\\") = [s EXCEPT !.escape = TRUE]
  BY <1>1, Signs DEF QuotedStep
<1>8. QuotedStep(s, Quote) = [Close(s, x) EXCEPT !.at = "after"]
  BY <1>1, Signs DEF QuotedStep
<1>9. ch \notin {Quote, "\\"} => QuotedStep(s, ch) = [s EXCEPT !.element = Append(@, ch)]
  BY <1>1 DEF QuotedStep
<1>10. QED BY <1>1, <1>2, <1>3, <1>4, <1>5, <1>6, <1>7, <1>8, <1>9 DEF QuotedMoves, s, u

\* What a delimiter does behind an element
LEMMA DelimitFacts ==
  ASSUME NEW at, NEW escape, NEW x, NEW els, NEW d \in Delimiters \cup {Semicolon}
  PROVE  Delimit(AState(at, escape, x, els), d)
           = AState(IF d = RightBrace THEN "done" ELSE "element", escape, x, els)
<1> DEFINE s == AState(at, escape, x, els)
           v == IF d = RightBrace THEN "done" ELSE "element"
<1>1. Delimit(s, d) = [s EXCEPT !.at = v]
  <2> HIDE DEF s
  <2>1. QED BY Signs DEF Delimit, Delimiters
<1> HIDE DEF v
<1>2. [s EXCEPT !.at = v] = AState(v, escape, x, els)
  BY DEF AState
<1>3. QED BY <1>1, <1>2 DEF v

LEMMA ClosedAndDelimited ==
  ASSUME NEW at, NEW escape, NEW x, NEW els, NEW d \in Delimiters \cup {Semicolon}, NEW val
  PROVE  Delimit(Close(AState(at, escape, x, els), val), d)
           = AState(IF d = RightBrace THEN "done" ELSE "element", escape, << >>, Append(els, val))
<1> DEFINE s == AState(at, escape, x, els)
           none == << >>
           more == Append(els, val)
           c == AState(at, escape, none, more)
<1>1. Close(s, val) = c
  <2> HIDE DEF none
  <2>1. PICK t : t = [s EXCEPT !.elements = Append(@, val), !.element = none]
    OBVIOUS
  <2>2. t = AState(at, escape, none, more)
    BY <2>1 DEF AState
  <2>3. QED BY <2>1, <2>2 DEF Close, none
<1> HIDE DEF none, more
<1>2. Delimit(c, d) = AState(IF d = RightBrace THEN "done" ELSE "element", escape, none, more)
  BY DelimitFacts
<1>3. QED BY <1>1, <1>2 DEF none, more

\* The steps of the parser of the library
LibraryMoves(x, els, ch, at, d) ==
  /\ ParserStep(AState("open", FALSE, x, els), LeftBrace) = AState("first", FALSE, x, els)
  /\ ParserStep(AState("first", FALSE, x, els), RightBrace) = AState("done", FALSE, x, els)
  /\ at # "unquoted" =>
       ParserStep(AState(at, FALSE, x, els), Quote) = AState("quoted", FALSE, x, els)
  /\ ParserStep(AState("quoted", FALSE, x, els), ch) = QuotedStep(AState("quoted", FALSE, x, els), ch)
  /\ ParserStep(AState("quoted", TRUE, x, els), ch) = QuotedStep(AState("quoted", TRUE, x, els), ch)
  /\ ParserStep(AState("after", FALSE, x, els), d) = AState(Behind(d), FALSE, x, els)
  /\ ch \notin {Comma, Semicolon, RightBrace, Quote} =>
       ParserStep(AState(at, FALSE, x, els), ch) = AState("unquoted", FALSE, Append(x, ch), els)
  /\ LET val == IF x = << "NULL" >> THEN SqlNull ELSE x
     IN  /\ ~(at = "first" /\ d = RightBrace) =>
              ParserStep(AState(at, FALSE, x, els), d)
                = AState(Behind(d), FALSE, << >>, Append(els, val))
         /\ ParserStep(AState(at, FALSE, x, els), Semicolon)
              = AState("element", FALSE, << >>, Append(els, val))

LEMMA LibraryDoes ==
  ASSUME NEW x, NEW els, NEW ch, NEW at \in Fronts \cup {"unquoted"}, NEW d \in Delimiters
  PROVE  LibraryMoves(x, els, ch, at, d)
<1> DEFINE no == FALSE
           val == IF x = << "NULL" >> THEN SqlNull ELSE x
           S(a) == AState(a, no, x, els)
           y == Append(x, ch)
<1>1. \A a : S(a).at = a /\ S(a).element = x
  BY DEF AState
<1>2. Fronts = {"first", "element"}
  BY DEF Fronts
<1>3. [S("open") EXCEPT !.at = "first"] = S("first")
  <2> HIDE DEF no
  <2>1. QED BY DEF AState
<1>4. [S("first") EXCEPT !.at = "done"] = S("done")
  <2> HIDE DEF no
  <2>1. QED BY DEF AState
<1>5. [S(at) EXCEPT !.at = "quoted"] = S("quoted")
  <2> HIDE DEF no
  <2>1. QED BY DEF AState
<1>6. [S(at) EXCEPT !.at = "unquoted", !.element = y] = AState("unquoted", no, y, els)
  <2> HIDE DEF no, y
  <2>1. PICK t : t = [S(at) EXCEPT !.at = "unquoted", !.element = y]
    OBVIOUS
  <2>2. t = AState("unquoted", no, y, els)
    BY <2>1 DEF AState
  <2>3. QED BY <2>1, <2>2
<1>7. AState("quoted", FALSE, x, els).at = "quoted" /\ AState("quoted", TRUE, x, els).at = "quoted"
  BY DEF AState
<1> HIDE DEF no, S
<1>8. ParserStep(S("open"), LeftBrace) = S("first")
  BY <1>1, <1>3 DEF ParserStep
<1>9. ParserStep(S("first"), RightBrace) = S("done")
  BY <1>1, <1>4, Signs DEF ParserStep
<1>10. at # "unquoted" => ParserStep(S(at), Quote) = S("quoted")
  BY <1>1, <1>2, <1>5, Signs DEF ParserStep
<1>11. /\ ParserStep(AState("quoted", FALSE, x, els), ch) = QuotedStep(AState("quoted", FALSE, x, els), ch)
       /\ ParserStep(AState("quoted", TRUE, x, els), ch) = QuotedStep(AState("quoted", TRUE, x, els), ch)
  BY <1>7 DEF ParserStep
<1>12. ParserStep(S("after"), d) = AState(Behind(d), no, x, els)
  <2>1. ParserStep(S("after"), d) = Delimit(S("after"), d)
    BY <1>1 DEF ParserStep
  <2>2. Delimit(S("after"), d) = AState(Behind(d), no, x, els)
    BY DelimitFacts, Signs DEF S, Behind, Delimiters
  <2>3. QED BY <2>1, <2>2
<1>13. ch \notin {Comma, Semicolon, RightBrace, Quote} =>
         ParserStep(S(at), ch) = AState("unquoted", no, y, els)
  <2> SUFFICES ASSUME ch \notin {Comma, Semicolon, RightBrace, Quote}
               PROVE  ParserStep(S(at), ch) = AState("unquoted", no, y, els)
    OBVIOUS
  <2>1. ParserStep(S(at), ch) = UnquotedStep(S(at), ch)
    BY <1>1, <1>2 DEF ParserStep
  <2>2. UnquotedStep(S(at), ch) = [S(at) EXCEPT !.at = "unquoted", !.element = Append(@, ch)]
    BY DEF UnquotedStep
  <2>3. QED BY <1>1, <1>6, <2>1, <2>2
<1>14. ASSUME NEW c \in Delimiters \cup {Semicolon}, ~(at = "first" /\ c = RightBrace)
       PROVE  ParserStep(S(at), c)
                = AState(IF c = RightBrace THEN "done" ELSE "element", no, << >>, Append(els, val))
  <2>1. ParserStep(S(at), c) = UnquotedStep(S(at), c)
    BY <1>1, <1>2, <1>14, Signs DEF ParserStep, Delimiters
  <2>2. UnquotedStep(S(at), c) = Delimit(Close(S(at), val), c)
    BY <1>1 DEF UnquotedStep, Delimiters
  <2> HIDE DEF val
  <2>3. Delimit(Close(S(at), val), c)
          = AState(IF c = RightBrace THEN "done" ELSE "element", no, << >>, Append(els, val))
    BY ClosedAndDelimited DEF S
  <2>4. QED BY <2>1, <2>2, <2>3
<1>15. ~(at = "first" /\ d = RightBrace) =>
         ParserStep(S(at), d) = AState(Behind(d), no, << >>, Append(els, val))
  BY <1>14, Signs DEF Behind, Delimiters
<1>16. ParserStep(S(at), Semicolon) = AState("element", no, << >>, Append(els, val))
  BY <1>14, Signs
<1>17. QED BY <1>8, <1>9, <1>10, <1>11, <1>12, <1>13, <1>15, <1>16 DEF LibraryMoves, no, S

\* The steps of the server
ServerArrayMoves(x, els, ch, at, d) ==
  /\ ServerStepArray(AState("open", FALSE, x, els), LeftBrace) = AState("first", FALSE, x, els)
  /\ ServerStepArray(AState("first", FALSE, x, els), RightBrace) = AState("done", FALSE, x, els)
  /\ at # "unquoted" =>
       ServerStepArray(AState(at, FALSE, x, els), Quote) = AState("quoted", FALSE, x, els)
  /\ ServerStepArray(AState("quoted", FALSE, x, els), ch) = QuotedStep(AState("quoted", FALSE, x, els), ch)
  /\ ServerStepArray(AState("quoted", TRUE, x, els), ch) = QuotedStep(AState("quoted", TRUE, x, els), ch)
  /\ ServerStepArray(AState("after", FALSE, x, els), d) = AState(Behind(d), FALSE, x, els)
  /\ ch \notin {Comma, RightBrace, LeftBrace, Quote, "\\"} =>
       ServerStepArray(AState(at, FALSE, x, els), ch)
         = AState("unquoted", FALSE, Append(x, ch), els)
  /\ ~(at = "first" /\ d = RightBrace) =>
       ServerStepArray(AState(at, FALSE, x, els), d)
         = IF Trimmed(x) = << >> THEN AState("error", FALSE, x, els)
           ELSE AState(Behind(d), FALSE, << >>, Append(els, ServerElement(x)))

LEMMA ServerDoes ==
  ASSUME NEW x, NEW els, NEW ch, NEW at \in Fronts \cup {"unquoted"}, NEW d \in Delimiters
  PROVE  ServerArrayMoves(x, els, ch, at, d)
<1> DEFINE no == FALSE
           S(a) == AState(a, no, x, els)
           y == Append(x, ch)
<1>1. \A a : S(a).at = a /\ S(a).element = x
  BY DEF AState
<1>2. Fronts = {"first", "element"}
  BY DEF Fronts
<1>3. [S("open") EXCEPT !.at = "first"] = S("first")
  <2> HIDE DEF no
  <2>1. QED BY DEF AState
<1>4. [S("first") EXCEPT !.at = "done"] = S("done")
  <2> HIDE DEF no
  <2>1. QED BY DEF AState
<1>5. [S(at) EXCEPT !.at = "quoted"] = S("quoted") /\ [S(at) EXCEPT !.at = "error"] = S("error")
  <2> HIDE DEF no
  <2>1. QED BY DEF AState
<1>6. [S(at) EXCEPT !.at = "unquoted", !.element = y] = AState("unquoted", no, y, els)
  <2> HIDE DEF no, y
  <2>1. PICK t : t = [S(at) EXCEPT !.at = "unquoted", !.element = y]
    OBVIOUS
  <2>2. t = AState("unquoted", no, y, els)
    BY <2>1 DEF AState
  <2>3. QED BY <2>1, <2>2
<1>7. AState("quoted", FALSE, x, els).at = "quoted" /\ AState("quoted", TRUE, x, els).at = "quoted"
  BY DEF AState
<1> HIDE DEF no, S
<1>8. ServerStepArray(S("open"), LeftBrace) = S("first")
  BY <1>1, <1>3 DEF ServerStepArray
<1>9. ServerStepArray(S("first"), RightBrace) = S("done")
  <2>1. ServerStepArray(S("first"), RightBrace) = [S("first") EXCEPT !.at = "done"]
    BY <1>1, Signs DEF ServerStepArray
  <2>2. QED BY <1>4, <2>1
<1>10. at # "unquoted" => ServerStepArray(S(at), Quote) = S("quoted")
  <2>1. at # "unquoted" => ServerStepArray(S(at), Quote) = [S(at) EXCEPT !.at = "quoted"]
    BY <1>1, <1>2, Signs DEF ServerStepArray
  <2>2. QED BY <1>5, <2>1
<1>11. /\ ServerStepArray(AState("quoted", FALSE, x, els), ch) = QuotedStep(AState("quoted", FALSE, x, els), ch)
       /\ ServerStepArray(AState("quoted", TRUE, x, els), ch) = QuotedStep(AState("quoted", TRUE, x, els), ch)
  BY <1>7 DEF ServerStepArray
<1>12. ServerStepArray(S("after"), d) = AState(Behind(d), no, x, els)
  <2>1. ServerStepArray(S("after"), d) = Delimit(S("after"), d)
    BY <1>1 DEF ServerStepArray, Delimiters
  <2>2. Delimit(S("after"), d) = AState(Behind(d), no, x, els)
    BY DelimitFacts, Signs DEF S, Behind, Delimiters
  <2>3. QED BY <2>1, <2>2
<1>13. ch \notin {Comma, RightBrace, LeftBrace, Quote, "\\"} =>
         ServerStepArray(S(at), ch) = AState("unquoted", no, y, els)
  <2> SUFFICES ASSUME ch \notin {Comma, RightBrace, LeftBrace, Quote, "\\"}
               PROVE  ServerStepArray(S(at), ch) = AState("unquoted", no, y, els)
    OBVIOUS
  <2>1. ServerStepArray(S(at), ch) = [S(at) EXCEPT !.at = "unquoted", !.element = Append(@, ch)]
    BY <1>1, <1>2 DEF ServerStepArray
  <2>2. QED BY <1>1, <1>6, <2>1
<1>14. ASSUME ~(at = "first" /\ d = RightBrace)
       PROVE  ServerStepArray(S(at), d)
                = IF Trimmed(x) = << >> THEN S("error")
                  ELSE AState(Behind(d), no, << >>, Append(els, ServerElement(x)))
  <2>1. ServerStepArray(S(at), d)
          = IF Trimmed(x) = << >> THEN [S(at) EXCEPT !.at = "error"]
            ELSE Delimit(Close(S(at), ServerElement(x)), d)
    BY <1>1, <1>2, <1>14, Signs DEF ServerStepArray, Delimiters
  <2>2. Delimit(Close(S(at), ServerElement(x)), d)
          = AState(Behind(d), no, << >>, Append(els, ServerElement(x)))
    BY ClosedAndDelimited, Signs DEF S, Behind, Delimiters
  <2>3. QED BY <1>5, <2>1, <2>2
<1>15. QED BY <1>8, <1>9, <1>10, <1>11, <1>12, <1>13, <1>14 DEF ServerArrayMoves, no, S

\* No step takes back an element, and none leaves the states.
Onward(C, s, t) ==
  /\ t \in AStates(C)
  /\ s.at = "error" => t.at = "error"
  /\ t.elements = s.elements \/ \E v : t.elements = Append(s.elements, v)

LEMMA StateFacts ==
  ASSUME NEW C, NEW at \in Spots, NEW escape \in BOOLEAN, NEW x \in Seq(C), NEW els \in Seq(Seq(C))
  PROVE  /\ AState(at, escape, x, els) \in AStates(C)
         /\ AState(at, escape, x, els).at = at
         /\ AState(at, escape, x, els).element = x
         /\ AState(at, escape, x, els).elements = els
  BY DEF AState, AStates

LEMMA StateParts ==
  ASSUME NEW C, NEW s \in AStates(C)
  PROVE  /\ s.at \in Spots /\ s.escape \in BOOLEAN /\ s.element \in Seq(C) /\ s.elements \in Seq(Seq(C))
         /\ s = AState(s.at, s.escape, s.element, s.elements)
  BY DEF AState, AStates

OnwardMoves(C, s, ch, v, e) ==
  /\ s.at # "error" \/ v = "error" => Onward(C, s, [s EXCEPT !.at = v])
  /\ s.at # "error" =>
       /\ Onward(C, s, [s EXCEPT !.at = "unquoted", !.element = Append(@, ch)])
       /\ Onward(C, s, Delimit(s, ch))
       /\ Onward(C, s, Delimit(Close(s, e), ch))
       /\ Onward(C, s, QuotedStep(s, ch))

LEMMA OnwardDoes ==
  ASSUME NEW C, NEW s \in AStates(C), NEW ch \in C, NEW v \in Spots, NEW e \in Seq(C)
  PROVE  OnwardMoves(C, s, ch, v, e)
<1>1. ASSUME NEW w \in Spots, s.at # "error" \/ w = "error"
      PROVE  Onward(C, s, [s EXCEPT !.at = w])
  <2>1. [s EXCEPT !.at = w] \in AStates(C)
    BY DEF AStates
  <2>2. [s EXCEPT !.at = w].at = w /\ [s EXCEPT !.at = w].elements = s.elements
    BY DEF AStates
  <2>3. QED BY <1>1, <2>1, <2>2 DEF Onward
<1>2. {"element", "done", "error", "unquoted", "after"} \subseteq Spots
  BY DEF Spots
<1>3. ASSUME s.at # "error" PROVE Onward(C, s, [s EXCEPT !.at = "unquoted", !.element = Append(@, ch)])
  <2> DEFINE y == Append(s.element, ch)
  <2>1. PICK t : t = [s EXCEPT !.at = "unquoted", !.element = y]
    OBVIOUS
  <2>2. y \in Seq(C)
    BY StateParts
  <2> HIDE DEF y
  <2>3. t \in AStates(C) /\ t.elements = s.elements
    BY <1>2, <2>1, <2>2 DEF AStates
  <2>4. QED BY <1>3, <2>1, <2>3 DEF Onward, y
<1>4. ASSUME s.at # "error" PROVE Onward(C, s, Delimit(s, ch))
  <2>1. \E w \in Spots : Delimit(s, ch) = [s EXCEPT !.at = w]
    BY <1>2 DEF Delimit
  <2>2. QED BY <1>1, <1>4, <2>1
<1>5. ASSUME NEW f \in Seq(C), NEW w \in Spots, s.at # "error"
      PROVE  Onward(C, s, [Close(s, f) EXCEPT !.at = w])
  <2> DEFINE none == << >>
             more == Append(s.elements, f)
  <2>1. PICK c : c = Close(s, f)
    OBVIOUS
  <2>2. none \in Seq(C) /\ more \in Seq(Seq(C))
    BY StateParts
  <2>3. c = [s EXCEPT !.elements = more, !.element = none]
    BY <2>1 DEF Close
  <2> HIDE DEF none, more
  <2>4. c \in AStates(C) /\ c.elements = more
    BY <2>2, <2>3 DEF AStates
  <2>5. PICK t : t = [c EXCEPT !.at = w]
    OBVIOUS
  <2>6. t \in AStates(C) /\ t.elements = c.elements
    BY <2>4, <2>5 DEF AStates
  <2>7. QED BY <1>5, <2>1, <2>4, <2>5, <2>6 DEF Onward, more
<1>6. ASSUME s.at # "error" PROVE Onward(C, s, Delimit(Close(s, e), ch))
  <2>1. PICK c : c = Close(s, e)
    OBVIOUS
  <2>2. \E w \in Spots : Delimit(c, ch) = [c EXCEPT !.at = w]
    BY <1>2 DEF Delimit
  <2>3. QED BY <1>5, <1>6, <2>1, <2>2
<1>7. ASSUME s.at # "error" PROVE Onward(C, s, QuotedStep(s, ch))
  <2> DEFINE y == Append(s.element, ch)
  <2>1. y \in Seq(C) /\ s.element \in Seq(C)
    BY StateParts
  <2>2. \/ QuotedStep(s, ch) = [s EXCEPT !.escape = FALSE, !.element = y]
        \/ QuotedStep(s, ch) = [s EXCEPT !.escape = TRUE]
        \/ QuotedStep(s, ch) = [Close(s, s.element) EXCEPT !.at = "after"]
        \/ QuotedStep(s, ch) = [s EXCEPT !.element = y]
    BY StateParts DEF QuotedStep
  <2> HIDE DEF y
  <2>3. CASE QuotedStep(s, ch) = [s EXCEPT !.escape = FALSE, !.element = y]
    <3>1. PICK t : t = [s EXCEPT !.escape = FALSE, !.element = y]
      OBVIOUS
    <3>2. t \in AStates(C) /\ t.elements = s.elements
      BY <2>1, <3>1 DEF AStates
    <3>3. QED BY <1>7, <2>3, <3>1, <3>2 DEF Onward
  <2>4. CASE QuotedStep(s, ch) = [s EXCEPT !.escape = TRUE]
    <3>1. PICK t : t = [s EXCEPT !.escape = TRUE]
      OBVIOUS
    <3>2. t \in AStates(C) /\ t.elements = s.elements
      BY <3>1 DEF AStates
    <3>3. QED BY <1>7, <2>4, <3>1, <3>2 DEF Onward
  <2>5. CASE QuotedStep(s, ch) = [Close(s, s.element) EXCEPT !.at = "after"]
    BY <1>2, <1>5, <1>7, <2>1, <2>5
  <2>6. CASE QuotedStep(s, ch) = [s EXCEPT !.element = y]
    <3>1. PICK t : t = [s EXCEPT !.element = y]
      OBVIOUS
    <3>2. t \in AStates(C) /\ t.elements = s.elements
      BY <2>1, <3>1 DEF AStates
    <3>3. QED BY <1>7, <2>6, <3>1, <3>2 DEF Onward
  <2>7. QED BY <2>2, <2>3, <2>4, <2>5, <2>6
<1>8. QED BY <1>1, <1>3, <1>4, <1>6, <1>7 DEF OnwardMoves

-----------------------------------------------------------------------------
(* The parser of the library                                               *)

LibrarySteps(C) == { << s, ch, ParserStep(s, ch) >> : s \in AStates(C), ch \in C }

\* Where the steps lead is what parse() returns.
LEMMA LibraryRuns ==
  ASSUME NEW C, NEW text \in Seq(C), NEW t, Leads(LibrarySteps(C), ParserStart, text, t)
  PROVE  Parse(text) = IF t.at = "done" THEN Array(t.elements) ELSE Refused
<1> DEFINE m == Len(text)
           Run(g) == [n \in 0 .. m |-> IF n = 0 THEN ParserStart ELSE ParserStep(g[n - 1], text[n])]
           h == CHOOSE g : g = Run(g)
<1>1. PICK f : /\ f[0] = ParserStart /\ f[m] = t
               /\ \A n \in 1 .. m : << f[n - 1], text[n], f[n] >> \in LibrarySteps(C)
  BY DEF Leads
<1>2. Parse(text) = IF h[m].at = "done" THEN Array(h[m].elements) ELSE Refused
  BY DEF Parse, After
<1>3. m \in Nat
  OBVIOUS
<1> HIDE DEF m
<1>4. \A n \in 1 .. m : f[n] = ParserStep(f[n - 1], text[n])
  BY <1>1 DEF LibrarySteps
<1> DEFINE e == [n \in 0 .. m |-> f[n]]
<1>5. e = Run(e)
  <2>1. ASSUME NEW n \in 0 .. m PROVE e[n] = Run(e)[n]
    <3>1. CASE n = 0
      BY <1>1, <3>1
    <3>2. CASE n # 0
      <4>1. n \in 1 .. m /\ n - 1 \in 0 .. m
        BY <1>3, <3>2
      <4>2. QED BY <1>4, <3>2, <4>1
    <3>3. QED BY <3>1, <3>2
  <2>2. QED BY <2>1
<1>6. h = Run(h)
  <2> HIDE DEF Run
  <2>1. QED BY <1>5
<1> HIDE DEF h, e
<1>7. h[0] = ParserStart /\ \A n \in 1 .. m : h[n] = ParserStep(h[n - 1], text[n])
  <2>1. 0 \in 0 .. m /\ \A n \in 1 .. m : n \in 0 .. m /\ n # 0
    BY <1>3
  <2>2. QED BY <1>6, <2>1
<1> DEFINE W == { n \in 0 .. m : h[n] = f[n] }
<1>8. 0 \in W
  BY <1>1, <1>3, <1>7
<1>9. ASSUME NEW n \in 1 .. m, n - 1 \in W PROVE n \in W
  <2>1. n \in 0 .. m /\ h[n - 1] = f[n - 1]
    BY <1>3, <1>9
  <2>2. QED BY <1>4, <1>7, <2>1
<1>10. \A n \in 0 .. m : n \in W
  <2> HIDE DEF W
  <2>1. QED BY <1>3, <1>8, <1>9, Upwards
<1>11. m \in W
  BY <1>3, <1>10
<1>12. QED BY <1>1, <1>2, <1>11

\* The characters the formats use
ArrayMarks == Marks \cup {Comma, Semicolon, LeftBrace, RightBrace, Quote, "NULL"}

\* What may be in an element without quotes, for the library
PlainForLibrary(C) == C \ {Comma, Semicolon, RightBrace, Quote}

LEMMA LibraryIsMachine ==
  ASSUME NEW C, ArrayMarks \subseteq C
  PROVE  ArrayMachine(LibrarySteps(C), C, PlainForLibrary(C))
<1> DEFINE steps == LibrarySteps(C)
           none == << >>
<1>1. ASSUME NEW s \in AStates(C), NEW c \in C, NEW t, ParserStep(s, c) = t
      PROVE  << s, c, t >> \in steps
  BY <1>1 DEF LibrarySteps
<1>2. /\ LeftBrace \in C /\ RightBrace \in C /\ Quote \in C /\ "\\" \in C /\ Delimiters \subseteq C
      /\ none \in Seq(C) /\ Fronts \subseteq Spots
      /\ {"open", "first", "quoted", "unquoted", "after"} \subseteq Spots
  <2>1. /\ LeftBrace \in C /\ RightBrace \in C /\ Quote \in C /\ "\\" \in C /\ Delimiters \subseteq C
    BY DEF ArrayMarks, Marks, Delimiters
  <2>2. Fronts \subseteq Spots /\ {"open", "first", "quoted", "unquoted", "after"} \subseteq Spots
    BY DEF Fronts, Spots
  <2>3. QED BY <2>1, <2>2
<1> HIDE DEF steps, none
<1>3. ASSUME NEW els \in Seq(Seq(C)), NEW x \in Seq(C), NEW ch \in C, NEW at \in Fronts, NEW d \in Delimiters
      PROVE  /\ << AState("open", FALSE, << >>, els), LeftBrace, AState("first", FALSE, << >>, els) >> \in steps
             /\ << AState("first", FALSE, << >>, els), RightBrace, AState("done", FALSE, << >>, els) >> \in steps
             /\ << AState(at, FALSE, << >>, els), Quote, AState("quoted", FALSE, << >>, els) >> \in steps
             /\ << AState("quoted", FALSE, x, els), "\\", AState("quoted", TRUE, x, els) >> \in steps
             /\ << AState("quoted", TRUE, x, els), ch, AState("quoted", FALSE, Append(x, ch), els) >> \in steps
             /\ ch \notin {Quote, "\\"} =>
                  << AState("quoted", FALSE, x, els), ch, AState("quoted", FALSE, Append(x, ch), els) >> \in steps
             /\ << AState("quoted", FALSE, x, els), Quote, AState("after", FALSE, << >>, Append(els, x)) >> \in steps
             /\ << AState("after", FALSE, << >>, els), d, AState(Behind(d), FALSE, << >>, els) >> \in steps
             /\ ch \in PlainForLibrary(C) =>
                  /\ << AState(at, FALSE, << >>, els), ch, AState("unquoted", FALSE, << ch >>, els) >> \in steps
                  /\ << AState("unquoted", FALSE, x, els), ch, AState("unquoted", FALSE, Append(x, ch), els) >> \in steps
  <2>1. ASSUME NEW a \in Spots, NEW b \in BOOLEAN
        PROVE  AState(a, b, none, els) \in AStates(C) /\ AState(a, b, x, els) \in AStates(C)
    BY <1>2, StateFacts
  <2>2. /\ ParserStep(AState("open", FALSE, none, els), LeftBrace) = AState("first", FALSE, none, els)
        /\ ParserStep(AState("first", FALSE, none, els), RightBrace) = AState("done", FALSE, none, els)
        /\ ParserStep(AState(at, FALSE, none, els), Quote) = AState("quoted", FALSE, none, els)
        /\ ParserStep(AState("after", FALSE, none, els), d) = AState(Behind(d), FALSE, none, els)
    <3>1. LibraryMoves(none, els, ch, at, d)
      BY LibraryDoes
    <3>2. at # "unquoted"
      BY DEF Fronts
    <3>3. QED BY <3>1, <3>2 DEF LibraryMoves
  <2>3. /\ ParserStep(AState("quoted", FALSE, x, els), "\\") = AState("quoted", TRUE, x, els)
        /\ ParserStep(AState("quoted", TRUE, x, els), ch) = AState("quoted", FALSE, Append(x, ch), els)
        /\ ch \notin {Quote, "\\"} =>
             ParserStep(AState("quoted", FALSE, x, els), ch) = AState("quoted", FALSE, Append(x, ch), els)
        /\ ParserStep(AState("quoted", FALSE, x, els), Quote) = AState("after", FALSE, << >>, Append(els, x))
    <3>1. LibraryMoves(x, els, ch, at, d) /\ LibraryMoves(x, els, "\\", at, d)
          /\ LibraryMoves(x, els, Quote, at, d)
      BY LibraryDoes
    <3>2. QuotedMoves(x, els, ch)
      BY QuotedDoes
    <3>3. QED BY <3>1, <3>2 DEF LibraryMoves, QuotedMoves
  <2>4. ch \in PlainForLibrary(C) =>
          /\ ParserStep(AState(at, FALSE, none, els), ch) = AState("unquoted", FALSE, Append(none, ch), els)
          /\ ParserStep(AState("unquoted", FALSE, x, els), ch) = AState("unquoted", FALSE, Append(x, ch), els)
    <3>1. LibraryMoves(none, els, ch, at, d) /\ LibraryMoves(x, els, ch, "unquoted", d)
      BY LibraryDoes
    <3>2. QED BY <3>1 DEF LibraryMoves, PlainForLibrary
  <2>5. /\ << AState("open", FALSE, none, els), LeftBrace, AState("first", FALSE, none, els) >> \in steps
        /\ << AState("first", FALSE, none, els), RightBrace, AState("done", FALSE, none, els) >> \in steps
        /\ << AState(at, FALSE, none, els), Quote, AState("quoted", FALSE, none, els) >> \in steps
        /\ << AState("after", FALSE, none, els), d, AState(Behind(d), FALSE, none, els) >> \in steps
    BY <1>1, <1>2, <2>1, <2>2
  <2>6. ch \in PlainForLibrary(C) =>
          << AState(at, FALSE, none, els), ch, AState("unquoted", FALSE, << ch >>, els) >> \in steps
    <3>1. Append(none, ch) = << ch >>
      BY DEF none
    <3>2. QED BY <1>1, <1>2, <2>1, <2>4, <3>1
  <2>7. /\ << AState("quoted", FALSE, x, els), "\\", AState("quoted", TRUE, x, els) >> \in steps
        /\ << AState("quoted", TRUE, x, els), ch, AState("quoted", FALSE, Append(x, ch), els) >> \in steps
        /\ ch \notin {Quote, "\\"} =>
             << AState("quoted", FALSE, x, els), ch, AState("quoted", FALSE, Append(x, ch), els) >> \in steps
        /\ << AState("quoted", FALSE, x, els), Quote, AState("after", FALSE, << >>, Append(els, x)) >> \in steps
        /\ ch \in PlainForLibrary(C) =>
             << AState("unquoted", FALSE, x, els), ch, AState("unquoted", FALSE, Append(x, ch), els) >> \in steps
    BY <1>1, <1>2, <2>1, <2>3, <2>4
  <2>8. QED BY <2>5, <2>6, <2>7 DEF none
<1>4. QED BY <1>3 DEF ArrayMachine, steps

LEMMA LibraryLasts ==
  ASSUME NEW C, ArrayMarks \subseteq C
  PROVE  Lasting(LibrarySteps(C), C)
<1>1. SqlNull \in Seq(C)
  BY MarkFacts DEF ArrayMarks
<1>2. ASSUME NEW s \in AStates(C), NEW ch \in C PROVE Onward(C, s, ParserStep(s, ch))
  <2>1. {"first", "done", "quoted", "error"} \subseteq Spots
    BY DEF Spots
  <2> DEFINE e == IF s.element = << "NULL" >> THEN SqlNull ELSE s.element
  <2>2. e \in Seq(C)
    BY <1>1, StateParts
  <2>3. \/ \E v \in {"first", "done", "quoted", "error"} :
             (s.at # "error" \/ v = "error") /\ ParserStep(s, ch) = [s EXCEPT !.at = v]
        \/ /\ s.at # "error"
           /\ \/ ParserStep(s, ch) = QuotedStep(s, ch)
              \/ ParserStep(s, ch) = Delimit(s, ch)
              \/ ParserStep(s, ch) = UnquotedStep(s, ch)
    BY StateParts DEF ParserStep, Spots
  <2>4. \/ UnquotedStep(s, ch) = Delimit(Close(s, e), ch)
        \/ UnquotedStep(s, ch) = [s EXCEPT !.at = "unquoted", !.element = Append(@, ch)]
    BY DEF UnquotedStep
  <2> HIDE DEF e
  <2>5. OnwardMoves(C, s, ch, "error", e)
    BY <2>1, <2>2, OnwardDoes
  <2>6. CASE \E v \in {"first", "done", "quoted", "error"} :
               (s.at # "error" \/ v = "error") /\ ParserStep(s, ch) = [s EXCEPT !.at = v]
    <3>1. PICK v \in {"first", "done", "quoted", "error"} :
            (s.at # "error" \/ v = "error") /\ ParserStep(s, ch) = [s EXCEPT !.at = v]
      BY <2>6
    <3>2. v \in Spots
      BY <2>1
    <3>3. OnwardMoves(C, s, ch, v, e)
      BY <2>2, <3>2, OnwardDoes
    <3>4. Onward(C, s, [s EXCEPT !.at = v])
      BY <3>1, <3>3 DEF OnwardMoves
    <3>5. QED BY <3>1, <3>4
  <2>7. CASE s.at # "error" /\ ParserStep(s, ch) = QuotedStep(s, ch)
    BY <2>7, <2>5 DEF OnwardMoves
  <2>8. CASE s.at # "error" /\ ParserStep(s, ch) = Delimit(s, ch)
    BY <2>8, <2>5 DEF OnwardMoves
  <2>9. CASE s.at # "error" /\ ParserStep(s, ch) = UnquotedStep(s, ch)
    BY <2>4, <2>9, <2>5 DEF OnwardMoves
  <2>10. QED BY <2>3, <2>6, <2>7, <2>8, <2>9
<1>3. \A s \in AStates(C), ch \in C :
        /\ << s, ch, ParserStep(s, ch) >> \in LibrarySteps(C)
        /\ \A t : << s, ch, t >> \in LibrarySteps(C) => t = ParserStep(s, ch)
  BY DEF LibrarySteps
<1>4. ASSUME NEW s \in AStates(C), NEW ch \in C
      PROVE  /\ \E t \in AStates(C) : << s, ch, t >> \in LibrarySteps(C)
             /\ \A t : << s, ch, t >> \in LibrarySteps(C) =>
                  /\ s.at = "error" => t.at = "error"
                  /\ t.elements = s.elements \/ \E v : t.elements = Append(s.elements, v)
  <2>1. PICK u : u = ParserStep(s, ch)
    OBVIOUS
  <2>2. /\ u \in AStates(C)
        /\ s.at = "error" => u.at = "error"
        /\ u.elements = s.elements \/ \E v : u.elements = Append(s.elements, v)
    BY <1>2, <2>1 DEF Onward
  <2>3. << s, ch, u >> \in LibrarySteps(C) /\ \A t : << s, ch, t >> \in LibrarySteps(C) => t = u
    BY <1>3, <2>1
  <2>4. QED BY <2>2, <2>3
<1>5. QED BY <1>4 DEF Lasting

-----------------------------------------------------------------------------
(* The server                                                              *)

\* A text without blanks at its ends is left as it is, and only such a text.
LEMMA TrimmedFacts ==
  ASSUME NEW C, NEW e \in Seq(C)
  PROVE  /\ Trimmed(e) \in Seq(C)
         /\ e # << >> =>
              (Trimmed(e) = e <=> e[1] \notin Blanks /\ e[Len(e)] \notin Blanks)
<1> DEFINE n == Len(e)
           kept == { i \in DOMAIN e : e[i] \notin Blanks }
           lo == CHOOSE i \in kept : \A j \in kept : i <= j
           hi == CHOOSE i \in kept : \A j \in kept : j <= i
<1>1. n \in Nat /\ DOMAIN e = 1 .. n /\ kept \subseteq 1 .. n
  OBVIOUS
<1>2. CASE kept = {}
  <2>1. Trimmed(e) = << >>
    BY <1>2 DEF Trimmed
  <2>2. e # << >> => e[1] \in Blanks
    BY <1>1, <1>2
  <2>3. << >> \in Seq(C)
    OBVIOUS
  <2>4. QED BY <2>1, <2>2, <2>3
<1>3. CASE kept # {}
  <2>1. lo \in kept /\ \A j \in kept : lo <= j
    <3>1. \E i \in kept : \A j \in kept : i <= j
      <4>1. kept \subseteq Nat
        BY <1>1
      <4> HIDE DEF kept
      <4>2. QED BY <1>3, <4>1, LeastNumber
    <3> HIDE DEF kept
    <3>2. QED BY <3>1
  <2>2. hi \in kept /\ \A j \in kept : j <= hi
    <3> DEFINE back == { n - i : i \in kept }
    <3>1. back \subseteq Nat /\ back # {}
      BY <1>1, <1>3
    <3>2. PICK b \in back : \A c \in back : b <= c
      <4> HIDE DEF back
      <4>1. QED BY <3>1, LeastNumber
    <3>3. PICK i \in kept : b = n - i
      BY <3>2
    <3>4. \A j \in kept : j <= i
      <4>1. ASSUME NEW j \in kept PROVE j <= i
        <5>1. n - j \in back /\ n - i <= n - j
          BY <3>2, <3>3
        <5> HIDE DEF back
        <5>2. i \in 1 .. n /\ j \in 1 .. n
          BY <1>1
        <5>3. QED BY <1>1, <5>1, <5>2
      <4>2. QED BY <4>1
    <3>5. \E x \in kept : \A j \in kept : j <= x
      BY <3>4
    <3> HIDE DEF kept
    <3>6. QED BY <3>5
  <2>3. Trimmed(e) = SubSeq(e, lo, hi)
    BY <1>3 DEF Trimmed
  <2>4. /\ lo \in 1 .. n /\ hi \in 1 .. n /\ lo <= hi
        /\ (lo = 1 <=> 1 \in kept) /\ (hi = n <=> n \in kept)
    BY <1>1, <2>1, <2>2
  <2>5. e # << >> /\ (1 \in kept <=> e[1] \notin Blanks) /\ (n \in kept <=> e[n] \notin Blanks)
    BY <1>1, <2>4
  <2> HIDE DEF kept, lo, hi
  <2>6. SubSeq(e, lo, hi) \in Seq(C) /\ Len(SubSeq(e, lo, hi)) = hi - lo + 1
    <3>1. lo \in Nat /\ hi \in Nat /\ 1 <= lo /\ lo <= hi /\ hi <= Len(e)
      <4> HIDE DEF n
      <4>1. n \in Nat /\ lo \in 1 .. n /\ hi \in 1 .. n /\ lo <= hi
        BY <1>1, <2>4
      <4>2. lo \in Nat /\ hi \in Nat /\ 1 <= lo /\ lo <= hi /\ hi <= n
        BY <4>1
      <4>3. QED BY <4>2 DEF n
    <3>2. SubSeq(e, lo, hi) \in Seq(C)
      BY <3>1
    <3>3. Len(SubSeq(e, lo, hi)) = hi - lo + 1
      BY <3>1
    <3>4. QED BY <3>2, <3>3
  <2>7. lo = 1 /\ hi = n => SubSeq(e, lo, hi) = e
    <3> SUFFICES ASSUME lo = 1, hi = n PROVE SubSeq(e, 1, n) = e
      OBVIOUS
    <3>1. QED BY <1>1
  <2>8. ~(lo = 1 /\ hi = n) => SubSeq(e, lo, hi) # e
    <3>1. ~(lo = 1 /\ hi = n) => hi - lo + 1 # n
      <4> HIDE DEF n
      <4>1. n \in Nat /\ lo \in 1 .. n /\ hi \in 1 .. n
        BY <1>1, <2>4
      <4>2. QED BY <4>1
    <3>2. QED BY <2>6, <3>1
  <2>9. QED BY <2>3, <2>4, <2>5, <2>6, <2>7, <2>8
<1>4. QED BY <1>2, <1>3

LEMMA ElementIsText ==
  ASSUME NEW C, SqlNull \in Seq(C), NEW e \in Seq(C)
  PROVE  ServerElement(e) \in Seq(C)
  BY TrimmedFacts DEF ServerElement

ServerArraySteps(C) == { << s, ch, ServerStepArray(s, ch) >> : s \in AStates(C), ch \in C }

\* Where the steps lead is what the server has for an array.
LEMMA ServerArrayRuns ==
  ASSUME NEW C, NEW text \in Seq(C), NEW t, Leads(ServerArraySteps(C), ParserStart, text, t)
  PROVE  ServerParse(text) = IF t.at = "done" THEN Array(t.elements) ELSE Refused
<1> DEFINE m == Len(text)
           Run(g) == [n \in 0 .. m |-> IF n = 0 THEN ParserStart ELSE ServerStepArray(g[n - 1], text[n])]
           h == CHOOSE g : g = Run(g)
<1>1. PICK f : /\ f[0] = ParserStart /\ f[m] = t
               /\ \A n \in 1 .. m : << f[n - 1], text[n], f[n] >> \in ServerArraySteps(C)
  BY DEF Leads
<1>2. ServerParse(text) = IF h[m].at = "done" THEN Array(h[m].elements) ELSE Refused
  BY DEF ServerParse, After
<1>3. m \in Nat
  OBVIOUS
<1> HIDE DEF m
<1>4. \A n \in 1 .. m : f[n] = ServerStepArray(f[n - 1], text[n])
  BY <1>1 DEF ServerArraySteps
<1> DEFINE e == [n \in 0 .. m |-> f[n]]
<1>5. e = Run(e)
  <2>1. ASSUME NEW n \in 0 .. m PROVE e[n] = Run(e)[n]
    <3>1. CASE n = 0
      BY <1>1, <3>1
    <3>2. CASE n # 0
      <4>1. n \in 1 .. m /\ n - 1 \in 0 .. m
        BY <1>3, <3>2
      <4>2. QED BY <1>4, <3>2, <4>1
    <3>3. QED BY <3>1, <3>2
  <2>2. QED BY <2>1
<1>6. h = Run(h)
  <2> HIDE DEF Run
  <2>1. QED BY <1>5
<1> HIDE DEF h, e
<1>7. h[0] = ParserStart /\ \A n \in 1 .. m : h[n] = ServerStepArray(h[n - 1], text[n])
  <2>1. 0 \in 0 .. m /\ \A n \in 1 .. m : n \in 0 .. m /\ n # 0
    BY <1>3
  <2>2. QED BY <1>6, <2>1
<1> DEFINE W == { n \in 0 .. m : h[n] = f[n] }
<1>8. 0 \in W
  BY <1>1, <1>3, <1>7
<1>9. ASSUME NEW n \in 1 .. m, n - 1 \in W PROVE n \in W
  <2>1. n \in 0 .. m /\ h[n - 1] = f[n - 1]
    BY <1>3, <1>9
  <2>2. QED BY <1>4, <1>7, <2>1
<1>10. \A n \in 0 .. m : n \in W
  <2> HIDE DEF W
  <2>1. QED BY <1>3, <1>8, <1>9, Upwards
<1>11. m \in W
  BY <1>3, <1>10
<1>12. QED BY <1>1, <1>2, <1>11

\* What may be in an element without quotes, for the server
PlainForServer(C) == C \ {Comma, RightBrace, LeftBrace, Quote, "\\"}

LEMMA ServerIsMachine ==
  ASSUME NEW C, ArrayMarks \subseteq C
  PROVE  ArrayMachine(ServerArraySteps(C), C, PlainForServer(C))
<1> DEFINE steps == ServerArraySteps(C)
           none == << >>
<1>1. ASSUME NEW s \in AStates(C), NEW c \in C, NEW t, ServerStepArray(s, c) = t
      PROVE  << s, c, t >> \in steps
  BY <1>1 DEF ServerArraySteps
<1>2. /\ LeftBrace \in C /\ RightBrace \in C /\ Quote \in C /\ "\\" \in C /\ Delimiters \subseteq C
      /\ none \in Seq(C) /\ Fronts \subseteq Spots
      /\ {"open", "first", "quoted", "unquoted", "after"} \subseteq Spots
  <2>1. /\ LeftBrace \in C /\ RightBrace \in C /\ Quote \in C /\ "\\" \in C /\ Delimiters \subseteq C
    BY DEF ArrayMarks, Marks, Delimiters
  <2>2. Fronts \subseteq Spots /\ {"open", "first", "quoted", "unquoted", "after"} \subseteq Spots
    BY DEF Fronts, Spots
  <2>3. QED BY <2>1, <2>2
<1> HIDE DEF steps, none
<1>3. ASSUME NEW els \in Seq(Seq(C)), NEW x \in Seq(C), NEW ch \in C, NEW at \in Fronts, NEW d \in Delimiters
      PROVE  /\ << AState("open", FALSE, << >>, els), LeftBrace, AState("first", FALSE, << >>, els) >> \in steps
             /\ << AState("first", FALSE, << >>, els), RightBrace, AState("done", FALSE, << >>, els) >> \in steps
             /\ << AState(at, FALSE, << >>, els), Quote, AState("quoted", FALSE, << >>, els) >> \in steps
             /\ << AState("quoted", FALSE, x, els), "\\", AState("quoted", TRUE, x, els) >> \in steps
             /\ << AState("quoted", TRUE, x, els), ch, AState("quoted", FALSE, Append(x, ch), els) >> \in steps
             /\ ch \notin {Quote, "\\"} =>
                  << AState("quoted", FALSE, x, els), ch, AState("quoted", FALSE, Append(x, ch), els) >> \in steps
             /\ << AState("quoted", FALSE, x, els), Quote, AState("after", FALSE, << >>, Append(els, x)) >> \in steps
             /\ << AState("after", FALSE, << >>, els), d, AState(Behind(d), FALSE, << >>, els) >> \in steps
             /\ ch \in PlainForServer(C) =>
                  /\ << AState(at, FALSE, << >>, els), ch, AState("unquoted", FALSE, << ch >>, els) >> \in steps
                  /\ << AState("unquoted", FALSE, x, els), ch, AState("unquoted", FALSE, Append(x, ch), els) >> \in steps
  <2>1. ASSUME NEW a \in Spots, NEW b \in BOOLEAN
        PROVE  AState(a, b, none, els) \in AStates(C) /\ AState(a, b, x, els) \in AStates(C)
    BY <1>2, StateFacts
  <2>2. /\ ServerStepArray(AState("open", FALSE, none, els), LeftBrace) = AState("first", FALSE, none, els)
        /\ ServerStepArray(AState("first", FALSE, none, els), RightBrace) = AState("done", FALSE, none, els)
        /\ ServerStepArray(AState(at, FALSE, none, els), Quote) = AState("quoted", FALSE, none, els)
        /\ ServerStepArray(AState("after", FALSE, none, els), d) = AState(Behind(d), FALSE, none, els)
    <3>1. ServerArrayMoves(none, els, ch, at, d)
      BY ServerDoes
    <3>2. at # "unquoted"
      BY DEF Fronts
    <3>3. QED BY <3>1, <3>2 DEF ServerArrayMoves
  <2>3. /\ ServerStepArray(AState("quoted", FALSE, x, els), "\\") = AState("quoted", TRUE, x, els)
        /\ ServerStepArray(AState("quoted", TRUE, x, els), ch) = AState("quoted", FALSE, Append(x, ch), els)
        /\ ch \notin {Quote, "\\"} =>
             ServerStepArray(AState("quoted", FALSE, x, els), ch) = AState("quoted", FALSE, Append(x, ch), els)
        /\ ServerStepArray(AState("quoted", FALSE, x, els), Quote) = AState("after", FALSE, << >>, Append(els, x))
    <3>1. ServerArrayMoves(x, els, ch, at, d) /\ ServerArrayMoves(x, els, "\\", at, d)
          /\ ServerArrayMoves(x, els, Quote, at, d)
      BY ServerDoes
    <3>2. QuotedMoves(x, els, ch)
      BY QuotedDoes
    <3>3. QED BY <3>1, <3>2 DEF ServerArrayMoves, QuotedMoves
  <2>4. ch \in PlainForServer(C) =>
          /\ ServerStepArray(AState(at, FALSE, none, els), ch) = AState("unquoted", FALSE, Append(none, ch), els)
          /\ ServerStepArray(AState("unquoted", FALSE, x, els), ch) = AState("unquoted", FALSE, Append(x, ch), els)
    <3>1. ServerArrayMoves(none, els, ch, at, d) /\ ServerArrayMoves(x, els, ch, "unquoted", d)
      BY ServerDoes
    <3>2. QED BY <3>1 DEF ServerArrayMoves, PlainForServer
  <2>5. /\ << AState("open", FALSE, none, els), LeftBrace, AState("first", FALSE, none, els) >> \in steps
        /\ << AState("first", FALSE, none, els), RightBrace, AState("done", FALSE, none, els) >> \in steps
        /\ << AState(at, FALSE, none, els), Quote, AState("quoted", FALSE, none, els) >> \in steps
        /\ << AState("after", FALSE, none, els), d, AState(Behind(d), FALSE, none, els) >> \in steps
    BY <1>1, <1>2, <2>1, <2>2
  <2>6. ch \in PlainForServer(C) =>
          << AState(at, FALSE, none, els), ch, AState("unquoted", FALSE, << ch >>, els) >> \in steps
    <3>1. Append(none, ch) = << ch >>
      BY DEF none
    <3>2. QED BY <1>1, <1>2, <2>1, <2>4, <3>1
  <2>7. /\ << AState("quoted", FALSE, x, els), "\\", AState("quoted", TRUE, x, els) >> \in steps
        /\ << AState("quoted", TRUE, x, els), ch, AState("quoted", FALSE, Append(x, ch), els) >> \in steps
        /\ ch \notin {Quote, "\\"} =>
             << AState("quoted", FALSE, x, els), ch, AState("quoted", FALSE, Append(x, ch), els) >> \in steps
        /\ << AState("quoted", FALSE, x, els), Quote, AState("after", FALSE, << >>, Append(els, x)) >> \in steps
        /\ ch \in PlainForServer(C) =>
             << AState("unquoted", FALSE, x, els), ch, AState("unquoted", FALSE, Append(x, ch), els) >> \in steps
    BY <1>1, <1>2, <2>1, <2>3, <2>4
  <2>8. QED BY <2>5, <2>6, <2>7 DEF none
<1>4. QED BY <1>3 DEF ArrayMachine, steps

LEMMA ServerLasts ==
  ASSUME NEW C, ArrayMarks \subseteq C
  PROVE  Lasting(ServerArraySteps(C), C)
<1>1. SqlNull \in Seq(C)
  BY MarkFacts DEF ArrayMarks
<1>2. ASSUME NEW s \in AStates(C), NEW ch \in C PROVE Onward(C, s, ServerStepArray(s, ch))
  <2>1. {"first", "done", "quoted", "error"} \subseteq Spots
    BY DEF Spots
  <2> DEFINE e == ServerElement(s.element)
  <2>2. e \in Seq(C)
    BY <1>1, StateParts, ElementIsText
  <2>3. \/ \E v \in {"first", "done", "quoted", "error"} :
             (s.at # "error" \/ v = "error") /\ ServerStepArray(s, ch) = [s EXCEPT !.at = v]
        \/ /\ s.at # "error"
           /\ \/ ServerStepArray(s, ch) = QuotedStep(s, ch)
              \/ ServerStepArray(s, ch) = Delimit(s, ch)
              \/ ServerStepArray(s, ch) = Delimit(Close(s, e), ch)
              \/ ServerStepArray(s, ch) = [s EXCEPT !.at = "unquoted", !.element = Append(@, ch)]
    BY StateParts DEF ServerStepArray, Spots
  <2> HIDE DEF e
  <2>4. OnwardMoves(C, s, ch, "error", e)
    BY <2>1, <2>2, OnwardDoes
  <2>5. CASE \E v \in {"first", "done", "quoted", "error"} :
               (s.at # "error" \/ v = "error") /\ ServerStepArray(s, ch) = [s EXCEPT !.at = v]
    <3>1. PICK v \in {"first", "done", "quoted", "error"} :
            (s.at # "error" \/ v = "error") /\ ServerStepArray(s, ch) = [s EXCEPT !.at = v]
      BY <2>5
    <3>2. v \in Spots
      BY <2>1
    <3>3. OnwardMoves(C, s, ch, v, e)
      BY <2>2, <3>2, OnwardDoes
    <3>4. Onward(C, s, [s EXCEPT !.at = v])
      BY <3>1, <3>3 DEF OnwardMoves
    <3>5. QED BY <3>1, <3>4
  <2>6. CASE s.at # "error" /\ ServerStepArray(s, ch) = QuotedStep(s, ch)
    BY <2>6, <2>4 DEF OnwardMoves
  <2>7. CASE s.at # "error" /\ ServerStepArray(s, ch) = Delimit(s, ch)
    BY <2>7, <2>4 DEF OnwardMoves
  <2>8. CASE s.at # "error" /\ ServerStepArray(s, ch) = Delimit(Close(s, e), ch)
    BY <2>8, <2>4 DEF OnwardMoves
  <2>9. CASE /\ s.at # "error"
             /\ ServerStepArray(s, ch) = [s EXCEPT !.at = "unquoted", !.element = Append(@, ch)]
    BY <2>9, <2>4 DEF OnwardMoves
  <2>10. QED BY <2>3, <2>9, <2>5, <2>6, <2>7, <2>8
<1>3. \A s \in AStates(C), ch \in C :
        /\ << s, ch, ServerStepArray(s, ch) >> \in ServerArraySteps(C)
        /\ \A t : << s, ch, t >> \in ServerArraySteps(C) => t = ServerStepArray(s, ch)
  BY DEF ServerArraySteps
<1>4. ASSUME NEW s \in AStates(C), NEW ch \in C
      PROVE  /\ \E t \in AStates(C) : << s, ch, t >> \in ServerArraySteps(C)
             /\ \A t : << s, ch, t >> \in ServerArraySteps(C) =>
                  /\ s.at = "error" => t.at = "error"
                  /\ t.elements = s.elements \/ \E v : t.elements = Append(s.elements, v)
  <2>1. PICK u : u = ServerStepArray(s, ch)
    OBVIOUS
  <2>2. /\ u \in AStates(C)
        /\ s.at = "error" => u.at = "error"
        /\ u.elements = s.elements \/ \E v : u.elements = Append(s.elements, v)
    BY <1>2, <2>1 DEF Onward
  <2>3. << s, ch, u >> \in ServerArraySteps(C) /\ \A t : << s, ch, t >> \in ServerArraySteps(C) => t = u
    BY <1>3, <2>1
  <2>4. QED BY <2>2, <2>3
<1>5. QED BY <1>4 DEF Lasting

\* An element that the server would not take for itself without quotes
Misread(e) == e # SqlNull /\ UnquotedForServer(e)

\* What the library leaves without quotes, the server may trim or refuse.
LEMMA ServerPlain ==
  ASSUME NEW C, ArrayMarks \subseteq C, NEW e \in Seq(C), e # SqlNull, ~NeedsQuotes(e)
  PROVE  /\ e # << >> /\ e # << "NULL" >> /\ e \in Seq(PlainForServer(C))
         /\ UnquotedForServer(e) <=> (Trimmed(e) = << >> \/ ServerElement(e) # e)
<1>1. /\ e # << >> /\ e # << "NULL" >>
      /\ Range(e) \cap {"\\", Quote, LeftBrace, RightBrace, Comma, Semicolon, Blank, "\t"} = {}
  BY DEF NeedsQuotes
<1>2. DOMAIN e = 1 .. Len(e) /\ Len(e) \in Nat \ {0} /\ \A i \in 1 .. Len(e) : e[i] \in C
  BY <1>1
<1>3. \A i \in 1 .. Len(e) :
        e[i] \notin {"\\", Quote, LeftBrace, RightBrace, Comma, Semicolon, Blank, "\t"}
  BY <1>1, <1>2 DEF Range
<1>4. e \in Seq(PlainForServer(C))
  <2>1. \A i \in 1 .. Len(e) : e[i] \in PlainForServer(C)
    BY <1>2, <1>3 DEF PlainForServer
  <2>2. QED BY <1>2, <2>1
<1>5. 1 \in 1 .. Len(e) /\ Len(e) \in 1 .. Len(e)
  BY <1>2
<1>6. Trimmed(e) = e <=> ~(e[1] \in Blanks \/ e[Len(e)] \in Blanks)
  BY <1>1, TrimmedFacts
<1>7. CASE Trimmed(e) = e
  <2>1. ServerElement(e) = IF e = << "null" >> THEN SqlNull ELSE e
    BY <1>1, <1>7 DEF ServerElement
  <2>2. ServerElement(e) # e <=> e = << "null" >>
    BY <2>1
  <2>3. UnquotedForServer(e) <=> e = << "null" >>
    BY <1>6, <1>7 DEF UnquotedForServer
  <2>4. QED BY <1>1, <1>4, <1>7, <2>2, <2>3
<1>8. CASE Trimmed(e) # e
  <2>1. ServerElement(e) # e
    BY <1>8 DEF ServerElement
  <2>2. UnquotedForServer(e)
    BY <1>6, <1>8 DEF UnquotedForServer
  <2>3. QED BY <1>1, <1>4, <2>1, <2>2
<1>9. QED BY <1>7, <1>8

\* What the server makes of an element without quotes
LEMMA ServerDelimits ==
  ASSUME NEW C, ArrayMarks \subseteq C, NEW e \in Seq(C), NEW els \in Seq(Seq(C)), NEW d \in Delimiters
  PROVE  /\ Trimmed(e) = << >> =>
              << AState("unquoted", FALSE, e, els), d, AState("error", FALSE, e, els) >>
                \in ServerArraySteps(C)
         /\ Trimmed(e) # << >> =>
              << AState("unquoted", FALSE, e, els), d,
                 AState(Behind(d), FALSE, << >>, Append(els, ServerElement(e))) >>
                \in ServerArraySteps(C)
<1> DEFINE s == AState("unquoted", FALSE, e, els)
<1>1. d \in C /\ "unquoted" \in Spots
  BY DEF ArrayMarks, Delimiters, Spots
<1>2. s \in AStates(C)
  BY <1>1, StateFacts
<1>3. ServerArrayMoves(e, els, d, "unquoted", d)
  BY ServerDoes
<1>4. ServerStepArray(s, d) = IF Trimmed(e) = << >> THEN AState("error", FALSE, e, els)
                              ELSE AState(Behind(d), FALSE, << >>, Append(els, ServerElement(e)))
  BY <1>3 DEF ServerArrayMoves
<1>5. << s, d, ServerStepArray(s, d) >> \in ServerArraySteps(C)
  <2> HIDE DEF s
  <2>1. QED BY <1>1, <1>2 DEF ServerArraySteps
<1> HIDE DEF s
<1>6. QED BY <1>4, <1>5 DEF s

LEMMA NullIsTrimmed ==
  /\ Trimmed(<< "NULL" >>) = << "NULL" >> /\ << "NULL" >> # << >>
  /\ ServerElement(<< "NULL" >>) = SqlNull
<1> DEFINE e == << "NULL" >>
           D == {"NULL"}
<1>1. e \in Seq(D) /\ e # << >> /\ Len(e) = 1 /\ e[1] = "NULL"
  OBVIOUS
<1>2. "NULL" \notin Blanks
  BY Zenon DEF Blanks, Blank, Control, Letters
<1> HIDE DEF D
<1>3. Trimmed(e) = e
  <2> HIDE DEF e
  <2>1. QED BY <1>1, <1>2, TrimmedFacts
<1>4. QED BY <1>1, <1>3 DEF ServerElement

\* NULL is written and read without quotes.
LEMMA NullIsText ==
  ASSUME NEW C, ArrayMarks \subseteq C
  PROVE  /\ << "NULL" >> \in Seq(C)
         /\ << "NULL" >> \in Seq(PlainForServer(C)) /\ << "NULL" >> \in Seq(PlainForLibrary(C))
<1>1. "NULL" \in PlainForServer(C) /\ "NULL" \in PlainForLibrary(C) /\ "NULL" \in C
  <2>1. "NULL" \in C
    BY DEF ArrayMarks
  <2>2. "NULL" \notin {Comma, Semicolon, LeftBrace, RightBrace, Quote, "\\"}
    BY Zenon DEF Comma, Semicolon, LeftBrace, RightBrace, Quote
  <2>3. QED BY <2>1, <2>2 DEF PlainForServer, PlainForLibrary
<1> DEFINE q == "NULL"
<1> HIDE DEF q
<1>2. << q >> \in Seq(C) /\ << q >> \in Seq(PlainForServer(C)) /\ << q >> \in Seq(PlainForLibrary(C))
  <2> DEFINE D == PlainForServer(C)
             F == PlainForLibrary(C)
  <2>1. q \in D /\ q \in F /\ q \in C
    BY <1>1 DEF q
  <2> HIDE DEF D, F
  <2>2. << q >> \in Seq(C) /\ << q >> \in Seq(D) /\ << q >> \in Seq(F)
    BY <2>1
  <2>3. QED BY <2>2 DEF D, F
<1>3. QED BY <1>2 DEF q

\* What the server makes of an element of the library
LEMMA ServerTakes ==
  ASSUME NEW C, ArrayMarks \subseteq C, NEW e \in Seq(C)
  PROVE  /\ ElementText(e) \in Seq(C)
         /\ ~Misread(e) => Takes(ServerArraySteps(C), C, ElementText(e), e)
         /\ Misread(e) => Spoils(ServerArraySteps(C), C, ElementText(e), e)
<1> DEFINE steps == ServerArraySteps(C)
           P == PlainForServer(C)
<1>1. ArrayMachine(steps, C, P) /\ P \subseteq C
  BY ServerIsMachine DEF PlainForServer
<1>2. {Quote, "\\"} \cup Delimiters \subseteq C
  BY DEF ArrayMarks, Marks, Delimiters
<1>3. CASE e = SqlNull
  <2> DEFINE text == << "NULL" >>
  <2>1. ElementText(e) = text /\ ~Misread(e)
    BY <1>3 DEF ElementText, Misread
  <2>2. text \in Seq(C) /\ text \in Seq(P) /\ text # << >>
    BY NullIsText, NullIsTrimmed
  <2>3. Trimmed(text) # << >> /\ ServerElement(text) = SqlNull
    BY NullIsTrimmed
  <2> HIDE DEF text
  <2>4. Ends(steps, C, text, SqlNull)
    BY <2>2, <2>3, ServerDelimits DEF Ends
  <2> HIDE DEF steps, P
  <2>5. Takes(steps, C, text, SqlNull)
    BY <1>1, <1>2, <2>2, <2>4, PlainIsTaken
  <2>6. QED BY <1>3, <2>1, <2>2, <2>5 DEF steps
<1>4. CASE e # SqlNull /\ NeedsQuotes(e)
  <2>1. ElementText(e) = Quoted(e) /\ ~Misread(e)
    BY <1>4 DEF ElementText, Misread, UnquotedForServer
  <2> HIDE DEF steps, P
  <2>2. Quoted(e) \in Seq(C) /\ Takes(steps, C, Quoted(e), e)
    BY <1>1, <1>2, QuotedIsTaken
  <2>3. QED BY <2>1, <2>2 DEF steps
<1>5. CASE e # SqlNull /\ ~NeedsQuotes(e)
  <2>1. ElementText(e) = e
    BY <1>5 DEF ElementText
  <2>2. /\ e # << >> /\ e \in Seq(P)
        /\ UnquotedForServer(e) <=> (Trimmed(e) = << >> \/ ServerElement(e) # e)
    BY <1>5, ServerPlain
  <2>3. CASE ~Misread(e)
    <3>1. Trimmed(e) # << >> /\ ServerElement(e) = e
      BY <1>5, <2>2, <2>3 DEF Misread
    <3>2. Ends(steps, C, e, e)
      BY <3>1, ServerDelimits DEF Ends
    <3> HIDE DEF steps, P
    <3>3. Takes(steps, C, e, e)
      BY <1>1, <1>2, <2>2, <3>2, PlainIsTaken
    <3>4. QED BY <2>1, <2>3, <3>3 DEF steps
  <2>4. CASE Misread(e)
    <3>1. Trimmed(e) = << >> \/ ServerElement(e) # e
      BY <2>2, <2>4 DEF Misread
    <3>2. ASSUME NEW els \in Seq(Seq(C)), NEW at \in Fronts, NEW d \in Delimiters
          PROVE  \E t \in AStates(C) :
                   /\ Leads(steps, AState(at, FALSE, << >>, els), e \o << d >>, t)
                   /\ Wrong(t, Len(els) + 1, e)
      <4> DEFINE s == AState(at, FALSE, << >>, els)
                 u == AState("unquoted", FALSE, e, els)
                 b == << d >>
                 more == Append(els, ServerElement(e))
                 none == << >>
      <4>1. Leads(steps, s, e, u)
        <5> HIDE DEF steps, P
        <5>1. QED BY <1>1, <2>2, PlainIsGathered
      <4>2. b \in Seq(C) /\ d \in C
        BY <1>2
      <4>3. PICK t \in AStates(C) : << u, d, t >> \in steps /\ Wrong(t, Len(els) + 1, e)
        <5>1. CASE Trimmed(e) = << >>
          <6> DEFINE t == AState("error", FALSE, e, els)
          <6>1. t \in AStates(C) /\ t.at = "error"
            <7>1. "error" \in Spots /\ FALSE \in BOOLEAN
              BY DEF Spots
            <7> DEFINE no == FALSE
            <7> HIDE DEF no
            <7>2. AState("error", no, e, els) \in AStates(C) /\ AState("error", no, e, els).at = "error"
              <8>1. no \in BOOLEAN
                BY <7>1 DEF no
              <8>2. QED BY <7>1, <8>1, StateFacts
            <7>3. QED BY <7>2 DEF no
          <6>2. << u, d, t >> \in steps
            BY <5>1, ServerDelimits
          <6> HIDE DEF t, u, steps
          <6>3. QED BY <6>1, <6>2 DEF Wrong
        <5>2. CASE Trimmed(e) # << >>
          <6> DEFINE t == AState(Behind(d), FALSE, none, more)
          <6>1. more \in Seq(Seq(C)) /\ Behind(d) \in Spots /\ none \in Seq(C)
            <7>1. SqlNull \in Seq(C)
              BY MarkFacts DEF ArrayMarks
            <7>2. ServerElement(e) \in Seq(C)
              BY <7>1, ElementIsText
            <7>3. QED BY <7>2 DEF Behind, Spots
          <6>2. Len(els) + 1 <= Len(more) /\ more[Len(els) + 1] = ServerElement(e)
            OBVIOUS
          <6>3. << u, d, t >> \in steps
            BY <5>2, ServerDelimits
          <6> HIDE DEF more, none
          <6>4. t \in AStates(C) /\ t.elements = more
            <7> DEFINE no == FALSE
                       a == Behind(d)
            <7>1. no \in BOOLEAN /\ a \in Spots
              BY <6>1
            <7>2. more \in Seq(Seq(C)) /\ none \in Seq(C)
              BY <6>1
            <7> HIDE DEF no, a, s, u, b, t, steps, P
            <7>3. AState(a, no, none, more) \in AStates(C)
              BY <7>1, <7>2 DEF AState, AStates
            <7>4. AState(a, no, none, more).elements = more
              BY DEF AState
            <7>5. QED BY <7>3, <7>4 DEF no, a, t
          <6> HIDE DEF t, u, steps
          <6>5. QED BY <3>1, <5>2, <6>2, <6>3, <6>4 DEF Wrong
        <5>3. QED BY <5>1, <5>2
      <4> HIDE DEF s, u, steps, P
      <4>4. Leads(steps, u, b, t)
        BY <4>3, LeadsByOne
      <4> HIDE DEF b
      <4>5. Leads(steps, s, e \o b, t)
        BY <4>1, <4>2, <4>4, LeadsOn
      <4>6. QED BY <4>3, <4>5 DEF s, b
    <3>3. Spoils(steps, C, e, e)
      BY <3>2 DEF Spoils
    <3>4. QED BY <2>1, <2>4, <3>3
  <2>5. QED BY <2>3, <2>4
<1>6. QED BY <1>3, <1>4, <1>5

-----------------------------------------------------------------------------
(* Elements of the server in the library                                   *)

LEMMA SplitFacts ==
  ASSUME NEW C, NEW e \in Seq(C), NEW k \in 1 .. Len(e)
  PROVE  /\ Prefix(e, k - 1) \in Seq(C) /\ Len(Prefix(e, k - 1)) = k - 1
         /\ \E rest \in Seq(C) : e = (Prefix(e, k - 1) \o << e[k] >>) \o rest
<1> DEFINE n == Len(e)
           p == Prefix(e, k - 1)
           b == << e[k] >>
           rest == [i \in 1 .. n - k |-> e[k + i]]
           pb == p \o b
           w == pb \o rest
<1>1. n \in Nat /\ k \in Nat /\ 1 <= k /\ k <= n /\ k - 1 \in Nat /\ n - k \in Nat
  OBVIOUS
<1>2. \A i \in 1 .. n : e[i] \in C
  OBVIOUS
<1>3. p \in Seq(C) /\ Len(p) = k - 1 /\ \A i \in 1 .. k - 1 : p[i] = e[i]
  <2>1. p \in Seq(C)
    BY PrefixFacts
  <2>2. Len(p) = k - 1 /\ \A i \in 1 .. k - 1 : p[i] = e[i]
    <3> HIDE DEF n
    <3>1. QED BY <1>1 DEF Prefix
  <2>3. QED BY <2>1, <2>2
<1>4. b \in Seq(C) /\ Len(b) = 1 /\ b[1] = e[k]
  <2>1. e[k] \in C
    BY <1>2
  <2>2. QED BY <2>1
<1>5. rest \in Seq(C) /\ Len(rest) = n - k /\ \A i \in 1 .. n - k : rest[i] = e[k + i]
  <2>1. \A i \in 1 .. n - k : k + i \in 1 .. n
    <3> HIDE DEF n
    <3>1. QED BY <1>1
  <2> HIDE DEF n
  <2>2. \A i \in 1 .. n - k : e[k + i] \in C
    BY <1>2, <2>1
  <2>3. QED BY <1>1, <2>2
<1> HIDE DEF p, b, rest
<1>6. /\ pb \in Seq(C) /\ Len(pb) = k
      /\ \A i \in 1 .. k - 1 : pb[i] = e[i]
      /\ pb[k] = e[k]
  <2>1. /\ pb \in Seq(C) /\ Len(pb) = Len(p) + Len(b)
        /\ \A i \in 1 .. Len(p) : pb[i] = p[i]
        /\ \A i \in 1 .. Len(b) : pb[Len(p) + i] = b[i]
    <3>1. p \in Seq(C) /\ b \in Seq(C)
      BY <1>3, <1>4
    <3> HIDE DEF w, n
    <3>2. QED BY <3>1, ConcatFacts
  <2> HIDE DEF pb
  <2>2. (k - 1) + 1 = k /\ 1 \in 1 .. 1
    BY <1>1
  <2>3. Len(pb) = k /\ \A i \in 1 .. k - 1 : pb[i] = e[i]
    BY <1>1, <1>3, <1>4, <2>1
  <2>4. pb[(k - 1) + 1] = b[1]
    BY <1>3, <1>4, <2>1, <2>2
  <2>5. QED BY <1>4, <2>1, <2>2, <2>3, <2>4
<1> HIDE DEF pb
<1>7. /\ w \in Seq(C) /\ Len(w) = n
      /\ \A i \in 1 .. k : w[i] = pb[i]
      /\ \A i \in 1 .. n - k : w[k + i] = e[k + i]
  <2>1. /\ w \in Seq(C) /\ Len(w) = Len(pb) + Len(rest)
        /\ \A i \in 1 .. Len(pb) : w[i] = pb[i]
        /\ \A i \in 1 .. Len(rest) : w[Len(pb) + i] = rest[i]
    <3>1. pb \in Seq(C) /\ rest \in Seq(C)
      BY <1>5, <1>6
    <3> HIDE DEF n
    <3>2. QED BY <3>1, ConcatFacts
  <2> HIDE DEF w, n
  <2>2. k + (n - k) = n
    BY <1>1
  <2>3. QED BY <1>5, <1>6, <2>1, <2>2
<1> HIDE DEF w
<1>8. ASSUME NEW i \in 1 .. n PROVE w[i] = e[i]
  <2> HIDE DEF n
  <2>1. CASE i < k
    <3>1. i \in 1 .. k /\ i \in 1 .. k - 1
      BY <1>1, <2>1
    <3>2. QED BY <1>6, <1>7, <3>1
  <2>2. CASE i = k
    <3>1. k \in 1 .. k
      BY <1>1
    <3>2. QED BY <1>6, <1>7, <2>2, <3>1
  <2>3. CASE i > k
    <3>1. i - k \in 1 .. n - k /\ k + (i - k) = i
      BY <1>1, <2>3
    <3>2. QED BY <1>7, <3>1
  <2>4. QED BY <1>1, <2>1, <2>2, <2>3
<1>9. w = e
  <2>1. w = [i \in 1 .. n |-> w[i]] /\ e = [i \in 1 .. n |-> e[i]]
    BY <1>7
  <2>2. QED BY <1>8, <2>1
<1>10. QED BY <1>3, <1>5, <1>9 DEF w, pb, b, p

\* What the library makes of an element without quotes
WordOf(e) == IF e = << "NULL" >> THEN SqlNull ELSE e

LEMMA LibraryDelimits ==
  ASSUME NEW C, ArrayMarks \subseteq C, NEW e \in Seq(C), NEW els \in Seq(Seq(C)),
         NEW at \in Fronts \cup {"unquoted"}
  PROVE  /\ << AState(at, FALSE, e, els), Semicolon,
               AState("element", FALSE, << >>, Append(els, WordOf(e))) >> \in LibrarySteps(C)
         /\ at = "unquoted" =>
              \A d \in Delimiters :
                << AState(at, FALSE, e, els), d,
                   AState(Behind(d), FALSE, << >>, Append(els, WordOf(e))) >> \in LibrarySteps(C)
<1> DEFINE s == AState(at, FALSE, e, els)
<1>1. Delimiters \subseteq C /\ Semicolon \in C /\ at \in Spots
  BY DEF ArrayMarks, Delimiters, Spots, Fronts
<1>2. s \in AStates(C)
  BY <1>1, StateFacts
<1>3. ASSUME NEW d \in Delimiters
      PROVE  /\ at = "unquoted" =>
                  ParserStep(s, d) = AState(Behind(d), FALSE, << >>, Append(els, WordOf(e)))
             /\ ParserStep(s, Semicolon) = AState("element", FALSE, << >>, Append(els, WordOf(e)))
  <2>1. LibraryMoves(e, els, d, at, d)
    BY LibraryDoes
  <2>2. QED BY <2>1 DEF LibraryMoves, WordOf
<1>4. \A ch \in C : << s, ch, ParserStep(s, ch) >> \in LibrarySteps(C)
  <2> HIDE DEF s
  <2>1. QED BY <1>2 DEF LibrarySteps
<1>5. Comma \in Delimiters
  BY DEF Delimiters
<1> HIDE DEF s
<1>6. QED BY <1>1, <1>3, <1>4, <1>5 DEF s

\* An element that the library would not take for itself without quotes
Missplit(e) == e # SqlNull /\ UnquotedForLibrary(e)

\* What the server leaves without quotes, the library may split.
LEMMA LibraryPlain ==
  ASSUME NEW C, ArrayMarks \subseteq C, NEW e \in Seq(C), e # SqlNull, ~ServerNeedsQuotes(e)
  PROVE  /\ e # << >> /\ e # << "NULL" >>
         /\ \A i \in 1 .. Len(e) : e[i] # Semicolon => e[i] \in PlainForLibrary(C)
         /\ Missplit(e) <=> \E i \in 1 .. Len(e) : e[i] = Semicolon
<1>1. /\ e # << >> /\ e # << "NULL" >>
      /\ Range(e) \cap {"\\", Quote, LeftBrace, RightBrace, Comma} = {}
  BY DEF ServerNeedsQuotes
<1>2. DOMAIN e = 1 .. Len(e) /\ \A i \in 1 .. Len(e) : e[i] \in C
  OBVIOUS
<1>3. \A i \in 1 .. Len(e) : e[i] \notin {Quote, RightBrace, Comma}
  BY <1>1, <1>2 DEF Range
<1>4. \A i \in 1 .. Len(e) : e[i] # Semicolon => e[i] \in PlainForLibrary(C)
  BY <1>2, <1>3 DEF PlainForLibrary
<1>5. Missplit(e) <=> Semicolon \in Range(e)
  BY DEF Missplit, UnquotedForLibrary
<1>6. Semicolon \in Range(e) <=> \E i \in 1 .. Len(e) : e[i] = Semicolon
  BY <1>2 DEF Range
<1>7. QED BY <1>1, <1>4, <1>5, <1>6

\* An element that is split is not read as it is, whatever follows.
LEMMA SemicolonSpoils ==
  ASSUME NEW C, ArrayMarks \subseteq C, NEW e \in Seq(C), e # SqlNull, ~ServerNeedsQuotes(e),
         \E i \in 1 .. Len(e) : e[i] = Semicolon
  PROVE  Spoils(LibrarySteps(C), C, e, e)
<1> DEFINE steps == LibrarySteps(C)
           P == PlainForLibrary(C)
           S == { i \in 1 .. Len(e) : e[i] = Semicolon }
<1>1. ArrayMachine(steps, C, P) /\ P \subseteq C /\ Lasting(steps, C)
  BY LibraryIsMachine, LibraryLasts DEF PlainForLibrary
<1>2. PICK k \in S : \A j \in S : k <= j
  <2>1. S \subseteq Nat /\ S # {}
    OBVIOUS
  <2> HIDE DEF S
  <2>2. QED BY <2>1, LeastNumber
<1>3. k \in 1 .. Len(e) /\ e[k] = Semicolon
  OBVIOUS
<1> DEFINE p == Prefix(e, k - 1)
           b == << Semicolon >>
           pb == p \o b
<1>4. PICK rest \in Seq(C) : e = pb \o rest
  <2>1. \E rest \in Seq(C) : e = (Prefix(e, k - 1) \o << e[k] >>) \o rest
    <3>1. k \in 1 .. Len(e)
      BY <1>3
    <3> HIDE DEF S
    <3>2. QED BY <3>1, SplitFacts
  <2>2. << e[k] >> = b
    BY <1>3
  <2> HIDE DEF b
  <2>3. QED BY <2>1, <2>2
<1>5. p \in Seq(C) /\ Len(p) = k - 1
  BY <1>3, SplitFacts
<1>6. p \in Seq(P)
  <2>1. Len(e) \in Nat /\ k \in Nat
    OBVIOUS
  <2>2. ASSUME NEW i \in 1 .. k - 1 PROVE p[i] \in P
    <3>1. i \in 1 .. Len(e) /\ ~(k <= i)
      BY <1>3, <2>1
    <3>2. e[i] # Semicolon
      BY <1>2, <3>1
    <3>3. e[i] \in P
      BY <3>1, <3>2, LibraryPlain
    <3>4. p[i] = e[i]
      BY DEF Prefix
    <3>5. QED BY <3>3, <3>4
  <2> HIDE DEF P, p
  <2>3. QED BY <1>5, <2>2
<1>7. b \in Seq(C) /\ Semicolon \in C /\ Delimiters \subseteq C /\ SqlNull \in Seq(C)
  BY MarkFacts DEF ArrayMarks, Delimiters
<1>8. pb \in Seq(C)
  <2> HIDE DEF p, b
  <2>1. QED BY <1>5, <1>7, ConcatFacts
<1>9. WordOf(p) # e /\ WordOf(p) \in Seq(C)
  <2>1. p # e
    BY <1>3, <1>5
  <2> HIDE DEF p
  <2>2. QED BY <1>5, <1>7, <2>1 DEF WordOf
<1>10. ASSUME NEW els \in Seq(Seq(C)), NEW at \in Fronts, NEW d \in Delimiters
       PROVE  \E t \in AStates(C) :
                Leads(steps, AState(at, FALSE, << >>, els), e \o << d >>, t) /\ Wrong(t, Len(els) + 1, e)
  <2> DEFINE s == AState(at, FALSE, << >>, els)
             more == Append(els, WordOf(p))
             u == AState("element", FALSE, << >>, more)
  <2>1. Leads(steps, s, pb, u)
    <3> DEFINE a == IF p = << >> THEN at ELSE "unquoted"
               q == AState(a, FALSE, p, els)
    <3>1. a \in Fronts \cup {"unquoted"}
      OBVIOUS
    <3>2. Leads(steps, s, p, q)
      <4>1. CASE p = << >>
        <5>1. q = s
          BY <4>1
        <5> HIDE DEF s, q, steps
        <5>2. QED BY <4>1, <5>1, LeadsNowhere
      <4>2. CASE p # << >>
        <5>1. q = AState("unquoted", FALSE, p, els)
          BY <4>2
        <5> HIDE DEF q, steps, P, p
        <5>2. QED BY <1>1, <1>6, <4>2, <5>1, PlainIsGathered
      <4>3. QED BY <4>1, <4>2
    <3>3. << q, Semicolon, u >> \in steps
      <4> HIDE DEF a, p
      <4>1. QED BY <1>5, <3>1, LibraryDelimits
    <3> HIDE DEF q, u, s, steps, p
    <3>4. Leads(steps, q, b, u)
      BY <3>3, LeadsByOne
    <3> HIDE DEF b
    <3>5. QED BY <1>5, <1>7, <3>2, <3>4, LeadsOn
  <2>2. u \in AStates(C) /\ u.elements = more
    <3> DEFINE no == FALSE
               none == << >>
    <3>1. no \in BOOLEAN /\ none \in Seq(C) /\ "element" \in Spots
      BY DEF Spots
    <3>2. more \in Seq(Seq(C))
      BY <1>9
    <3> HIDE DEF no, none, more
    <3>3. AState("element", no, none, more) \in AStates(C)
      BY <3>1, <3>2 DEF AState, AStates
    <3>4. AState("element", no, none, more).elements = more
      BY DEF AState
    <3>5. QED BY <3>3, <3>4 DEF no, none
  <2>3. Len(els) + 1 <= Len(more) /\ more[Len(els) + 1] = WordOf(p) /\ Len(els) + 1 \in Nat \ {0}
    <3> HIDE DEF p
    <3>1. QED OBVIOUS
  <2> HIDE DEF s, u, more, steps, p
  <2>4. Wrong(u, Len(els) + 1, e)
    BY <1>9, <2>2, <2>3 DEF Wrong
  <2> DEFINE c == << d >>
             n == Len(els) + 1
  <2>5. c \in Seq(C) /\ n \in Nat \ {0}
    BY <1>7, <2>3
  <2> HIDE DEF c, n, pb
  <2>6. PICK v \in AStates(C) : Leads(steps, u, rest, v) /\ (Wrong(u, n, e) => Wrong(v, n, e))
    BY <1>1, <2>2, <2>5, WrongLasts
  <2>7. PICK t \in AStates(C) : Leads(steps, v, c, t) /\ (Wrong(v, n, e) => Wrong(t, n, e))
    BY <1>1, <2>5, WrongLasts
  <2>8. Leads(steps, s, e, v)
    BY <1>4, <1>8, <2>1, <2>6, LeadsOn
  <2>9. Leads(steps, s, e \o c, t)
    BY <2>5, <2>7, <2>8, LeadsOn
  <2>10. Wrong(t, n, e)
    BY <2>4, <2>6, <2>7 DEF n
  <2>11. QED BY <2>9, <2>10 DEF s, c, n
<1>11. QED BY <1>10 DEF Spoils

\* What the library makes of an element of the server
LEMMA LibraryTakes ==
  ASSUME NEW C, ArrayMarks \subseteq C, NEW e \in Seq(C)
  PROVE  /\ ServerElementText(e) \in Seq(C)
         /\ ~Missplit(e) => Takes(LibrarySteps(C), C, ServerElementText(e), e)
         /\ Missplit(e) => Spoils(LibrarySteps(C), C, ServerElementText(e), e)
<1> DEFINE steps == LibrarySteps(C)
           P == PlainForLibrary(C)
<1>1. ArrayMachine(steps, C, P) /\ P \subseteq C
  BY LibraryIsMachine DEF PlainForLibrary
<1>2. {Quote, "\\"} \cup Delimiters \subseteq C
  BY DEF ArrayMarks, Marks, Delimiters
<1>3. ASSUME NEW x \in Seq(C) PROVE Ends(steps, C, x, WordOf(x))
  BY LibraryDelimits DEF Ends
<1>4. CASE e = SqlNull
  <2> DEFINE text == << "NULL" >>
  <2>1. ServerElementText(e) = text /\ ~Missplit(e) /\ WordOf(text) = e
    BY <1>4 DEF ServerElementText, Missplit, WordOf
  <2>2. text \in Seq(C) /\ text \in Seq(P) /\ text # << >>
    BY NullIsText, NullIsTrimmed
  <2> HIDE DEF text, steps, P
  <2>3. Ends(steps, C, text, e)
    BY <1>3, <2>1, <2>2
  <2>4. Takes(steps, C, text, e)
    BY <1>1, <1>2, <2>2, <2>3, PlainIsTaken
  <2>5. QED BY <2>1, <2>2, <2>4 DEF steps
<1>5. CASE e # SqlNull /\ ServerNeedsQuotes(e)
  <2>1. ServerElementText(e) = Quoted(e) /\ ~Missplit(e)
    BY <1>5 DEF ServerElementText, Missplit, UnquotedForLibrary
  <2> HIDE DEF steps, P
  <2>2. Quoted(e) \in Seq(C) /\ Takes(steps, C, Quoted(e), e)
    BY <1>1, <1>2, QuotedIsTaken
  <2>3. QED BY <2>1, <2>2 DEF steps
<1>6. CASE e # SqlNull /\ ~ServerNeedsQuotes(e)
  <2>1. ServerElementText(e) = e
    BY <1>6 DEF ServerElementText
  <2>2. /\ e # << >> /\ e # << "NULL" >>
        /\ \A i \in 1 .. Len(e) : e[i] # Semicolon => e[i] \in P
        /\ Missplit(e) <=> \E i \in 1 .. Len(e) : e[i] = Semicolon
    BY <1>6, LibraryPlain
  <2>3. CASE ~Missplit(e)
    <3>1. e \in Seq(P)
      <4>1. \A i \in 1 .. Len(e) : e[i] \in P
        BY <2>2, <2>3
      <4> HIDE DEF P
      <4>2. QED BY <4>1
    <3>2. WordOf(e) = e
      BY <2>2 DEF WordOf
    <3> HIDE DEF steps, P
    <3>3. Takes(steps, C, e, e)
      BY <1>1, <1>2, <1>3, <2>2, <3>1, <3>2, PlainIsTaken
    <3>4. QED BY <2>1, <2>3, <3>3 DEF steps
  <2>4. CASE Missplit(e)
    BY <1>6, <2>1, <2>2, <2>4, SemicolonSpoils
  <2>5. QED BY <2>3, <2>4
<1>7. QED BY <1>4, <1>5, <1>6

-----------------------------------------------------------------------------
(* Whole arrays                                                            *)

\* The text of the array es leads to the array unless some of its elements are bad.
ReadOrSpoilt(steps, C, texts, es, Bad) ==
  /\ Braced(texts) \in Seq(C)
  /\ \E t \in AStates(C) :
       /\ Leads(steps, ParserStart, Braced(texts), t)
       /\ t.at = "done" /\ t.elements = es <=> Bad = {}

\* An array is read as it is exactly when none of its elements is bad.
LEMMA ArrayIsReadOrSpoilt ==
  ASSUME NEW steps, NEW C, NEW P, ArrayMachine(steps, C, P), Lasting(steps, C),
         {LeftBrace} \cup Delimiters \subseteq C,
         NEW es \in Seq(Seq(C)), NEW texts \in Seq(Seq(C)), Len(texts) = Len(es),
         NEW Bad \in SUBSET (1 .. Len(es)),
         \A i \in 1 .. Len(es) : i \notin Bad => Takes(steps, C, texts[i], es[i]),
         \A i \in Bad : Spoils(steps, C, texts[i], es[i])
  PROVE  ReadOrSpoilt(steps, C, texts, es, Bad)
<1>1. Len(es) \in Nat
  OBVIOUS
<1>2. CASE Bad = {}
  <2> DEFINE k == Len(es) + 1
  <2>1. k \in 1 .. Len(es) + 1 /\ ~(k <= Len(es)) /\ k - 1 = Len(es)
    BY <1>1
  <2>2. \A i \in 1 .. Len(es) : Takes(steps, C, texts[i], es[i])
    BY <1>2
  <2>3. \A i \in 1 .. k - 1 : Takes(steps, C, texts[i], es[i])
    BY <2>1, <2>2
  <2>4. k <= Len(es) => Spoils(steps, C, texts[k], es[k])
    BY <2>1
  <2>5. k = Len(es) + 1
    OBVIOUS
  <2> HIDE DEF k
  <2>6. /\ Braced(texts) \in Seq(C)
        /\ \E t \in AStates(C) :
             /\ Leads(steps, ParserStart, Braced(texts), t)
             /\ IF k = Len(es) + 1 THEN t = AState("done", FALSE, << >>, es) ELSE Wrong(t, k, es[k])
    BY <2>1, <2>3, <2>4, ArrayIsRead
  <2>7. QED BY <1>2, <2>5, <2>6 DEF AState, ReadOrSpoilt
<1>3. CASE Bad # {}
  <2>1. Bad \subseteq Nat
    OBVIOUS
  <2>2. PICK k \in Bad : \A j \in Bad : k <= j
    BY <1>3, <2>1, LeastNumber
  <2>3. /\ k \in 1 .. Len(es) + 1 /\ k # Len(es) + 1
        /\ \A i \in 1 .. k - 1 : i \in 1 .. Len(es) /\ ~(k <= i)
    BY <1>1
  <2>4. \A i \in 1 .. k - 1 : Takes(steps, C, texts[i], es[i])
    BY <2>2, <2>3
  <2>5. k <= Len(es) => Spoils(steps, C, texts[k], es[k])
    BY <2>2
  <2>6. /\ Braced(texts) \in Seq(C)
        /\ \E t \in AStates(C) :
             /\ Leads(steps, ParserStart, Braced(texts), t)
             /\ IF k = Len(es) + 1 THEN t = AState("done", FALSE, << >>, es) ELSE Wrong(t, k, es[k])
    BY <2>3, <2>4, <2>5, ArrayIsRead
  <2>7. PICK t \in AStates(C) : Leads(steps, ParserStart, Braced(texts), t) /\ Wrong(t, k, es[k])
    BY <2>3, <2>6
  <2>8. ~(t.at = "done" /\ t.elements = es)
    BY <2>7 DEF Wrong
  <2>9. QED BY <1>3, <2>6, <2>7, <2>8 DEF ReadOrSpoilt
<1>4. QED BY <1>2, <1>3

\* What the server has of an array of the library
LEMMA ArrayArrives ==
  ASSUME NEW C, ArrayMarks \subseteq C, NEW es \in Seq(Seq(C))
  PROVE  /\ ToArray(es) \in Seq(C)
         /\ ServerParse(ToArray(es)) \in {Refused} \cup { Array(xs) : xs \in Seq(Seq(C)) }
         /\ ServerParse(ToArray(es)) = Array(es) <=> ~\E i \in DOMAIN es : Misread(es[i])
<1> DEFINE steps == ServerArraySteps(C)
           P == PlainForServer(C)
           D == Seq(C)
           text(e) == ElementText(e)
           texts == [i \in DOMAIN es |-> text(es[i])]
           Bad == { i \in 1 .. Len(es) : Misread(es[i]) }
<1>1. ArrayMachine(steps, C, P) /\ Lasting(steps, C)
  BY ServerIsMachine, ServerLasts
<1>2. {LeftBrace} \cup Delimiters \subseteq C
  BY DEF ArrayMarks, Delimiters
<1>3. \A e \in D : text(e) \in D
  BY ServerTakes
<1>4. \A e \in D : /\ ~Misread(e) => Takes(steps, C, text(e), e)
                   /\ Misread(e) => Spoils(steps, C, text(e), e)
  BY ServerTakes
<1>5. ToArray(es) = Braced(texts)
  BY DEF ToArray
<1> HIDE DEF D, text, steps, P
<1>6. texts \in Seq(D) /\ Len(texts) = Len(es)
  <2>1. Len(es) \in Nat /\ DOMAIN es = 1 .. Len(es) /\ \A i \in 1 .. Len(es) : es[i] \in D
    BY DEF D
  <2>2. texts \in [1 .. Len(es) -> D]
    BY <1>3, <2>1
  <2> DEFINE n == Len(es)
  <2>3. n \in Nat /\ texts \in [1 .. n -> D]
    BY <2>1, <2>2
  <2> HIDE DEF texts, n
  <2>4. texts \in Seq(D) /\ Len(texts) = n
    BY <2>3
  <2>5. QED BY <2>4 DEF n
<1>7. \A i \in 1 .. Len(es) : texts[i] = text(es[i]) /\ es[i] \in D
  BY DEF D
<1> HIDE DEF texts
<1>8. Bad \in SUBSET (1 .. Len(es))
  OBVIOUS
<1>9. \A i \in 1 .. Len(es) : i \notin Bad => Takes(steps, C, texts[i], es[i])
  BY <1>4, <1>7
<1>10. \A i \in Bad : Spoils(steps, C, texts[i], es[i])
  BY <1>4, <1>7
<1>11. Bad = {} <=> ~\E i \in DOMAIN es : Misread(es[i])
  <2>1. DOMAIN es = 1 .. Len(es)
    OBVIOUS
  <2>2. \A i : i \in Bad <=> i \in 1 .. Len(es) /\ Misread(es[i])
    OBVIOUS
  <2> HIDE DEF Bad
  <2>3. QED BY <2>1, <2>2
<1> HIDE DEF Bad
<1>12. /\ Braced(texts) \in Seq(C)
       /\ \E t \in AStates(C) :
            /\ Leads(steps, ParserStart, Braced(texts), t)
            /\ t.at = "done" /\ t.elements = es <=> Bad = {}
  <2>1. texts \in Seq(Seq(C))
    BY <1>6 DEF D
  <2>2. ReadOrSpoilt(steps, C, texts, es, Bad)
    BY <1>1, <1>2, <1>6, <1>8, <1>9, <1>10, <2>1, ArrayIsReadOrSpoilt
  <2>3. QED BY <2>2 DEF ReadOrSpoilt
<1>13. PICK t \in AStates(C) :
         /\ Leads(steps, ParserStart, Braced(texts), t)
         /\ t.at = "done" /\ t.elements = es <=> Bad = {}
  BY <1>12
<1>14. ServerParse(ToArray(es)) = IF t.at = "done" THEN Array(t.elements) ELSE Refused
  BY <1>5, <1>12, <1>13, ServerArrayRuns DEF steps
<1>15. t.elements \in Seq(Seq(C))
  BY StateParts
<1>16. \A xs : /\ Array(xs).kind = "array" /\ Array(xs).elements = xs
               /\ Refused.kind = "refused" /\ Array(xs) # Refused
  BY DEF Array, Refused
<1>17. ServerParse(ToArray(es)) = Array(es) <=> (t.at = "done" /\ t.elements = es)
  BY <1>14, <1>16
<1>18. QED BY <1>5, <1>11, <1>12, <1>13, <1>14, <1>15, <1>17

\* What the library has of an array of the server
LEMMA ArrayReturns ==
  ASSUME NEW C, ArrayMarks \subseteq C, NEW es \in Seq(Seq(C))
  PROVE  /\ ServerToArray(es) \in Seq(C)
         /\ Parse(ServerToArray(es)) \in {Refused} \cup { Array(xs) : xs \in Seq(Seq(C)) }
         /\ Parse(ServerToArray(es)) = Array(es) <=> ~\E i \in DOMAIN es : Missplit(es[i])
<1> DEFINE steps == LibrarySteps(C)
           P == PlainForLibrary(C)
           D == Seq(C)
           text(e) == ServerElementText(e)
           texts == [i \in DOMAIN es |-> text(es[i])]
           Bad == { i \in 1 .. Len(es) : Missplit(es[i]) }
<1>1. ArrayMachine(steps, C, P) /\ Lasting(steps, C)
  BY LibraryIsMachine, LibraryLasts
<1>2. {LeftBrace} \cup Delimiters \subseteq C
  BY DEF ArrayMarks, Delimiters
<1>3. \A e \in D : text(e) \in D
  BY LibraryTakes
<1>4. \A e \in D : /\ ~Missplit(e) => Takes(steps, C, text(e), e)
                   /\ Missplit(e) => Spoils(steps, C, text(e), e)
  BY LibraryTakes
<1>5. ServerToArray(es) = Braced(texts)
  BY DEF ServerToArray
<1> HIDE DEF D, text, steps, P
<1>6. texts \in Seq(D) /\ Len(texts) = Len(es)
  <2>1. Len(es) \in Nat /\ DOMAIN es = 1 .. Len(es) /\ \A i \in 1 .. Len(es) : es[i] \in D
    BY DEF D
  <2>2. texts \in [1 .. Len(es) -> D]
    BY <1>3, <2>1
  <2> DEFINE n == Len(es)
  <2>3. n \in Nat /\ texts \in [1 .. n -> D]
    BY <2>1, <2>2
  <2> HIDE DEF texts, n
  <2>4. texts \in Seq(D) /\ Len(texts) = n
    BY <2>3
  <2>5. QED BY <2>4 DEF n
<1>7. \A i \in 1 .. Len(es) : texts[i] = text(es[i]) /\ es[i] \in D
  BY DEF D
<1> HIDE DEF texts
<1>8. Bad \in SUBSET (1 .. Len(es))
  OBVIOUS
<1>9. \A i \in 1 .. Len(es) : i \notin Bad => Takes(steps, C, texts[i], es[i])
  BY <1>4, <1>7
<1>10. \A i \in Bad : Spoils(steps, C, texts[i], es[i])
  BY <1>4, <1>7
<1>11. Bad = {} <=> ~\E i \in DOMAIN es : Missplit(es[i])
  <2>1. DOMAIN es = 1 .. Len(es)
    OBVIOUS
  <2>2. \A i : i \in Bad <=> i \in 1 .. Len(es) /\ Missplit(es[i])
    OBVIOUS
  <2> HIDE DEF Bad
  <2>3. QED BY <2>1, <2>2
<1> HIDE DEF Bad
<1>12. /\ Braced(texts) \in Seq(C)
       /\ \E t \in AStates(C) :
            /\ Leads(steps, ParserStart, Braced(texts), t)
            /\ t.at = "done" /\ t.elements = es <=> Bad = {}
  <2>1. texts \in Seq(Seq(C))
    BY <1>6 DEF D
  <2>2. ReadOrSpoilt(steps, C, texts, es, Bad)
    BY <1>1, <1>2, <1>6, <1>8, <1>9, <1>10, <2>1, ArrayIsReadOrSpoilt
  <2>3. QED BY <2>2 DEF ReadOrSpoilt
<1>13. PICK t \in AStates(C) :
         /\ Leads(steps, ParserStart, Braced(texts), t)
         /\ t.at = "done" /\ t.elements = es <=> Bad = {}
  BY <1>12
<1>14. Parse(ServerToArray(es)) = IF t.at = "done" THEN Array(t.elements) ELSE Refused
  BY <1>5, <1>12, <1>13, LibraryRuns DEF steps
<1>15. t.elements \in Seq(Seq(C))
  BY StateParts
<1>16. \A xs : /\ Array(xs).kind = "array" /\ Array(xs).elements = xs
               /\ Refused.kind = "refused" /\ Array(xs) # Refused
  BY DEF Array, Refused
<1>17. Parse(ServerToArray(es)) = Array(es) <=> (t.at = "done" /\ t.elements = es)
  BY <1>14, <1>16
<1>18. QED BY <1>5, <1>11, <1>12, <1>13, <1>14, <1>15, <1>17

-----------------------------------------------------------------------------
(* The program, the server and their arrays                                *)

\* The characters of the program's elements, and those the formats use
ArrayCharacters == ArrayMarks \cup UNION { Range(e) : e \in UNION { Range(es) : es \in Arrays } }

\* Arrays of such elements
Texts == Seq(Seq(ArrayCharacters))

\* The server has what it reads, the program what it parses of that.
ArrayInv ==
  \/ sent = NoArray /\ stored = NoArray /\ received = NoArray
  \/ \E es \in Texts :
       /\ sent = Array(es) /\ stored = ServerParse(ToArray(es))
       /\ \/ received = NoArray
          \/ stored.kind = "array" /\ received = Parse(ServerToArray(stored.elements))

LEMMA ArraysAreTexts == Arrays \subseteq Texts
<1>1. ASSUME NEW es \in Arrays PROVE es \in Texts
  <2>1. es \in Seq(Range(es)) /\ \A e \in Range(es) : e \in Seq(Range(e))
    BY ArraysAssumption
  <2>2. \A e \in Range(es) : Range(e) \subseteq ArrayCharacters
    BY DEF ArrayCharacters
  <2>3. \A e \in Range(es) : e \in Seq(ArrayCharacters)
    BY <2>1, <2>2
  <2> DEFINE D == Seq(ArrayCharacters)
  <2>4. Range(es) \subseteq D
    BY <2>3
  <2> HIDE DEF D
  <2>5. es \in Seq(D)
    BY <2>1, <2>4
  <2>6. QED BY <2>5 DEF D, Texts
<1>2. QED BY <1>1

\* A COPY delivers a text as it is: the array is the same as in a statement.
LEMMA CopyDelivers ==
  ASSUME NEW C, ArrayMarks \subseteq C, NEW text \in Seq(C)
  PROVE  /\ ServerRow(InsertText(<< text >>))[1] = text
         /\ ParseData(ServerText(<< text >>))[1] = text
<1> DEFINE D == Seq(C)
           row == << text >>
<1>1. Marks \subseteq C
  BY DEF ArrayMarks
<1>2. row \in Seq(D) /\ row # << >> /\ row[1] = text
  <2>1. text \in D
    OBVIOUS
  <2> HIDE DEF D
  <2>2. QED BY <2>1
<1> HIDE DEF row
<1>3. row \in Seq(Seq(C))
  BY <1>2
<1>4. ServerRow(InsertText(row)) = row /\ ParseData(ServerText(row)) = row
  BY <1>1, <1>2, <1>3, StoredAsWritten, FetchedAsStored
<1>5. QED BY <1>2, <1>4 DEF row

\* What an array of the program, or of the server, becomes
LEMMA ArrayFacts ==
  ASSUME NEW es \in Texts
  PROVE  /\ ServerRow(InsertText(<< ToArray(es) >>))[1] = ToArray(es)
         /\ ParseData(ServerText(<< ServerToArray(es) >>))[1] = ServerToArray(es)
         /\ ServerParse(ToArray(es)) \in {Refused} \cup { Array(xs) : xs \in Texts }
         /\ Parse(ServerToArray(es)) \in {Refused} \cup { Array(xs) : xs \in Texts }
         /\ ServerParse(ToArray(es)) = Array(es) <=> ~\E i \in DOMAIN es : Misread(es[i])
         /\ Parse(ServerToArray(es)) = Array(es) <=> ~\E i \in DOMAIN es : Missplit(es[i])
<1>1. ArrayMarks \subseteq ArrayCharacters /\ es \in Seq(Seq(ArrayCharacters))
  BY DEF ArrayCharacters, Texts
<1>2. ToArray(es) \in Seq(ArrayCharacters) /\ ServerToArray(es) \in Seq(ArrayCharacters)
  BY <1>1, ArrayArrives, ArrayReturns
<1>3. /\ ServerRow(InsertText(<< ToArray(es) >>))[1] = ToArray(es)
      /\ ParseData(ServerText(<< ServerToArray(es) >>))[1] = ServerToArray(es)
  BY <1>1, <1>2, CopyDelivers
<1>4. /\ ServerParse(ToArray(es)) \in {Refused} \cup { Array(xs) : xs \in Texts }
      /\ ServerParse(ToArray(es)) = Array(es) <=> ~\E i \in DOMAIN es : Misread(es[i])
  BY <1>1, ArrayArrives DEF Texts
<1>5. /\ Parse(ServerToArray(es)) \in {Refused} \cup { Array(xs) : xs \in Texts }
      /\ Parse(ServerToArray(es)) = Array(es) <=> ~\E i \in DOMAIN es : Missplit(es[i])
  BY <1>1, ArrayReturns DEF Texts
<1>6. QED BY <1>3, <1>4, <1>5

LEMMA ArrayStep == ArrayInv /\ [ArrayNext]_arrayVars => ArrayInv'
<1> SUFFICES ASSUME ArrayInv, [ArrayNext]_arrayVars PROVE ArrayInv'
  OBVIOUS
<1>1. /\ \A es : Array(es).kind = "array" /\ Array(es).elements = es
      /\ NoArray.kind = "none" /\ Refused.kind = "refused"
  BY DEF Array, NoArray, Refused
<1>2. ASSUME NEW es \in Arrays, SendArray(es) \/ CopyArray(es) PROVE ArrayInv'
  <2>1. es \in Texts
    BY ArraysAreTexts
  <2>2. sent' = Array(es) /\ stored' = ServerParse(ToArray(es)) /\ UNCHANGED received
    BY <1>2, <2>1, ArrayFacts DEF SendArray, CopyArray
  <2>3. received = NoArray
    BY <1>1, <1>2 DEF ArrayInv, SendArray, CopyArray
  <2>4. QED BY <2>1, <2>2, <2>3 DEF ArrayInv
<1>3. ASSUME ReceiveArray \/ FetchArray PROVE ArrayInv'
  <2>1. stored.kind = "array" /\ UNCHANGED << sent, stored >>
    BY <1>3 DEF ReceiveArray, FetchArray
  <2>2. PICK es \in Texts : sent = Array(es) /\ stored = ServerParse(ToArray(es))
    BY <1>1, <2>1 DEF ArrayInv
  <2>3. stored.elements \in Texts
    <3>1. stored \in {Refused} \cup { Array(xs) : xs \in Texts }
      BY <2>2, ArrayFacts
    <3>2. PICK xs \in Texts : stored = Array(xs)
      BY <1>1, <2>1, <3>1
    <3>3. QED BY <1>1, <3>2
  <2>4. received' = Parse(ServerToArray(stored.elements))
    BY <1>3, <2>3, ArrayFacts DEF ReceiveArray, FetchArray
  <2>5. QED BY <2>1, <2>2, <2>4 DEF ArrayInv
<1>4. CASE UNCHANGED arrayVars
  BY <1>4 DEF ArrayInv, arrayVars
<1>5. QED BY <1>2, <1>3, <1>4 DEF ArrayNext

LEMMA ArrayStart == ArrayInit => ArrayInv
  BY DEF ArrayInit, ArrayInv

LEMMA ArrayParts ==
  ASSUME ArrayInv
  PROVE  ArraysArrive /\ ArraysReturn
<1>1. /\ \A es : Array(es).kind = "array" /\ Array(es).elements = es
      /\ NoArray.kind = "none" /\ Refused.kind = "refused"
  BY DEF Array, NoArray, Refused
<1>2. CASE sent = NoArray /\ stored = NoArray /\ received = NoArray
  BY <1>2 DEF ArraysArrive, ArraysReturn
<1>3. ASSUME NEW es \in Texts, sent = Array(es), stored = ServerParse(ToArray(es)),
             \/ received = NoArray
             \/ stored.kind = "array" /\ received = Parse(ServerToArray(stored.elements))
      PROVE  ArraysArrive /\ ArraysReturn
  <2>1. sent.elements = es
    BY <1>1, <1>3
  <2>2. stored = sent <=> ~\E i \in DOMAIN es : Misread(es[i])
    BY <1>3, ArrayFacts
  <2>3. ArraysArrive
    BY <2>1, <2>2 DEF ArraysArrive, Misread
  <2>4. CASE received = NoArray
    BY <2>3, <2>4 DEF ArraysReturn
  <2>5. CASE stored.kind = "array" /\ received = Parse(ServerToArray(stored.elements))
    <3>1. PICK xs \in Texts : stored = Array(xs)
      BY <1>1, <1>3, <2>5, ArrayFacts
    <3>2. stored.elements = xs
      BY <1>1, <3>1
    <3>3. received = stored <=> ~\E i \in DOMAIN xs : Missplit(xs[i])
      BY <2>5, <3>1, <3>2, ArrayFacts
    <3>4. ArraysReturn
      BY <3>2, <3>3 DEF ArraysReturn, Missplit
    <3>5. QED BY <2>3, <3>4
  <2>6. QED BY <1>3, <2>3, <2>4, <2>5
<1>4. QED BY <1>2, <1>3 DEF ArrayInv

\* Any array of any length, of elements of any length with any characters in
\* them, as a parameter or in a COPY, is on the server exactly as it was sent
\* unless one of its elements is of the two kinds that to_array() leaves
\* without quotes and the server reads differently; and if there is such an
\* element the array is never what was sent, wherever the element stands.
THEOREM ArraysAlwaysArrive == ArraySpec => []ArraysArrive
<1>1. ArrayInv => ArraysArrive
  BY ArrayParts
<1>2. QED BY <1>1, ArrayStart, ArrayStep, PTL DEF ArraySpec

\* Any array of the server, in a result or in a COPY, is parsed as it is
\* exactly when no element that the server leaves without quotes has a
\* semicolon in it.
THEOREM ArraysAlwaysReturn == ArraySpec => []ArraysReturn
<1>1. ArrayInv => ArraysReturn
  BY ArrayParts
<1>2. QED BY <1>1, ArrayStart, ArrayStep, PTL DEF ArraySpec
=============================================================================
