---------------------------- MODULE LaunchProofs ----------------------------
(* Theorems of LaunchCommand, for texts and entries of any length.  The    *)
(* scanners are runs of a step over a text, so what they make of a text is *)
(* proved by induction over its prefixes.                                  *)
EXTENDS Integers, LaunchCommand, WellFoundedInduction, TLAPS

-----------------------------------------------------------------------------
(* Induction and recursion.  The library states both with an operator parameter, *)
(* which the provers cannot instantiate; here they are about sets.         *)

\* Induction, with the property as a set.
LEMMA SetInduction ==
    ASSUME NEW S, 0 \in S, \A n \in Nat : n \in S => n + 1 \in S
    PROVE  Nat \subseteq S
<1> DEFINE R == OpToRel(<, Nat)
           T == Nat \ S
<1>1. \A x, y \in Nat : <<x, y>> \in R <=> x < y
  BY DEF OpToRel
<1>2. IsWellFoundedOn(R, Nat)
  BY NatLessThanWellFounded
<1>3. SUFFICES ASSUME T # {} PROVE FALSE
  OBVIOUS
<1> HIDE DEF R
<1>4. PICK x \in T : \A y \in T : ~ (<<y, x>> \in R)
  BY <1>2, <1>3, WFMin
<1>5. x \in Nat /\ x # 0 /\ x - 1 \in Nat /\ x - 1 < x
  OBVIOUS
<1>6. x - 1 \in S
  BY <1>1, <1>4, <1>5
<1> QED BY <1>5, <1>6

\* Induction up to n.
LEMMA UpTo ==
    ASSUME NEW n \in Nat, NEW S, 0 \in S, \A i \in 0..(n - 1) : i \in S => i + 1 \in S
    PROVE  0..n \subseteq S
<1> DEFINE T == {i \in Nat : i <= n => i \in S}
<1>1. 0 \in T
  OBVIOUS
<1>2. \A i \in Nat : i \in T => i + 1 \in T
  OBVIOUS
<1> HIDE DEF T
<1>3. Nat \subseteq T
  BY <1>1, <1>2, SetInduction
<1> QED BY <1>3 DEF T

\* What the first has and every step hands on, all have.
LEMMA HandedOn ==
    ASSUME NEW n \in Nat, NEW f, NEW T, f[0] \in T,
           \A i \in 1..n : f[i - 1] \in T => f[i] \in T
    PROVE  \A i \in 0..n : f[i] \in T
<1> DEFINE S == {i \in 0..n : f[i] \in T}
<1>1. 0 \in S
  OBVIOUS
<1>2. ASSUME NEW i \in 0..(n - 1), i \in S PROVE i + 1 \in S
  <2>1. i + 1 \in 1..n /\ (i + 1) - 1 = i /\ i + 1 \in 0..n
    OBVIOUS
  <2> QED BY <1>2, <2>1
<1> HIDE DEF S
<1>3. 0..n \subseteq S
  BY <1>1, <1>2, UpTo
<1> QED BY <1>3 DEF S

\* A recursion over 0..n that starts with a and steps with F has a solution.
Solvable(St, a, n, F) ==
    \E g \in [0..n -> St] : g[0] = a /\ \A i \in 1..n : g[i] = F[i][g[i - 1]]

LEMMA Recursion ==
    ASSUME NEW St, NEW a \in St, NEW n \in Nat, NEW F \in [1..n -> [St -> St]]
    PROVE  Solvable(St, a, n, F)
<1> DEFINE Solves(g, k) == g[0] = a /\ \A i \in 1..k : g[i] = F[i][g[i - 1]]
           S == {k \in 0..n : \E g \in [0..k -> St] : Solves(g, k)}
<1>1. 0 \in S
  <2> DEFINE g0 == [i \in 0..0 |-> a]
  <2>1. g0 \in [0..0 -> St] /\ Solves(g0, 0)
    OBVIOUS
  <2>2. 0 \in 0..n
    OBVIOUS
  <2> HIDE DEF g0, Solves
  <2> QED BY <2>1, <2>2
<1>2. ASSUME NEW k \in 0..(n - 1), k \in S PROVE k + 1 \in S
  <2>1. PICK g \in [0..k -> St] : Solves(g, k)
    BY <1>2
  <2> DEFINE h == [i \in 0..(k + 1) |-> IF i <= k THEN g[i] ELSE F[k + 1][g[k]]]
  <2>2. h \in [0..(k + 1) -> St]
    <3>1. F[k + 1][g[k]] \in St
      <4>1. k \in 0..k /\ k + 1 \in 1..n
        OBVIOUS
      <4> QED BY <4>1
    <3>2. ASSUME NEW i \in 0..(k + 1)
          PROVE  (IF i <= k THEN g[i] ELSE F[k + 1][g[k]]) \in St
      BY <3>1
    <3> QED BY <3>2
  <2>3. \A i \in 0..k : h[i] = g[i]
    OBVIOUS
  <2>4. h[k + 1] = F[k + 1][h[k]]
    OBVIOUS
  <2> HIDE DEF h
  <2>5. ASSUME NEW i \in 1..(k + 1) PROVE h[i] = F[i][h[i - 1]]
    <3>1. CASE i = k + 1
      <4>1. i - 1 = k
        BY <3>1
      <4> QED BY <2>4, <3>1, <4>1
    <3>2. CASE i \in 1..k
      <4>1. g[i] = F[i][g[i - 1]] /\ i \in 0..k /\ i - 1 \in 0..k
        BY <2>1, <3>2
      <4>2. h[i] = g[i] /\ h[i - 1] = g[i - 1]
        BY <2>3, <4>1
      <4> QED BY <4>1, <4>2
    <3> QED BY <3>1, <3>2
  <2>6. Solves(h, k + 1) /\ k + 1 \in 0..n
    BY <2>1, <2>3, <2>5
  <2> QED BY <2>2, <2>6
<1> HIDE DEF S
<1>3. 0..n \subseteq S
  BY <1>1, <1>2, UpTo
<1> QED BY <1>3 DEF S, Solvable

-----------------------------------------------------------------------------
(* Sequences.                                                              *)

\* Sequences over a set are sequences over a larger one.
LEMMA Wider ==
    ASSUME NEW S, NEW T, S \subseteq T
    PROVE  Seq(S) \subseteq Seq(T)
OBVIOUS

\* What a concatenation is made of.
LEMMA Concatenated ==
    ASSUME NEW Sym, NEW s \in Seq(Sym), NEW t \in Seq(Sym)
    PROVE  /\ s \o t \in Seq(Sym)
           /\ Len(s \o t) = Len(s) + Len(t)
           /\ \A i \in 1..Len(s) : (s \o t)[i] = s[i]
           /\ \A i \in 1..Len(t) : (s \o t)[Len(s) + i] = t[i]
           /\ Len(s) \in Nat /\ Len(t) \in Nat
OBVIOUS

\* Concatenation is associative and keeps the type.
LEMMA Joined ==
    ASSUME NEW S, NEW a \in Seq(S), NEW b \in Seq(S), NEW c \in Seq(S)
    PROVE  /\ (a \o b) \o c = a \o (b \o c)
           /\ a \o b \in Seq(S)
           /\ a # <<>> => a \o b # <<>>
OBVIOUS

\* Two pairs make four.
LEMMA TwoPairs ==
    ASSUME NEW S, NEW w \in S, NEW x \in S, NEW y \in S, NEW z \in S
    PROVE  /\ <<w, x>> \o <<y, z>> = <<w, x, y, z>>
           /\ <<w, x>> \in Seq(S) /\ <<y, z>> \in Seq(S)
<1> DEFINE p == <<w, x>>
           q == <<y, z>>
           r == <<w, x, y, z>>
<1>1. p \in Seq(S) /\ Len(p) = 2 /\ p[1] = w /\ p[2] = x
  OBVIOUS
<1>2. q \in Seq(S) /\ Len(q) = 2 /\ q[1] = y /\ q[2] = z
  OBVIOUS
<1>3. r \in Seq(S) /\ Len(r) = 4 /\ r[1] = w /\ r[2] = x /\ r[3] = y /\ r[4] = z
  OBVIOUS
<1> HIDE DEF p, q, r
<1>4. /\ p \o q \in Seq(S) /\ Len(p \o q) = Len(p) + Len(q)
      /\ \A i \in 1..Len(p) : (p \o q)[i] = p[i]
      /\ \A i \in 1..Len(q) : (p \o q)[Len(p) + i] = q[i]
  <2>1. p \in Seq(S)
    BY <1>1
  <2>2. q \in Seq(S)
    BY <1>2
  <2> QED BY <2>1, <2>2, Concatenated
<1> DEFINE c == p \o q
<1> HIDE DEF c
<1>5. c \in Seq(S) /\ Len(c) = 4
  BY <1>1, <1>2, <1>4 DEF c
<1>6. c[1] = w /\ c[2] = x
  BY <1>1, <1>4 DEF c
<1>7. c[3] = y /\ c[4] = z
  <2>1. 1 \in 1..Len(q) /\ 2 \in 1..Len(q) /\ Len(p) + 1 = 3 /\ Len(p) + 2 = 4
    BY <1>1, <1>2
  <2>2. c[Len(p) + 1] = q[1] /\ c[Len(p) + 2] = q[2]
    BY <1>4, <2>1 DEF c
  <2> QED BY <1>2, <2>1, <2>2
<1>8. \A i \in 1..4 : i = 1 \/ i = 2 \/ i = 3 \/ i = 4
  OBVIOUS
<1>9. \A i \in 1..4 : c[i] = r[i]
  BY <1>3, <1>6, <1>7, <1>8
<1>10. c = r
  <2>1. ASSUME NEW u \in Seq(S), NEW v \in Seq(S), Len(u) = Len(v),
               \A i \in 1..Len(u) : u[i] = v[i]
        PROVE  u = v
    BY <2>1
  <2>2. Len(c) = Len(r) /\ \A i \in 1..Len(c) : c[i] = r[i]
    BY <1>3, <1>5, <1>9
  <2> QED BY <1>3, <1>5, <2>1, <2>2
<1> QED BY <1>1, <1>2, <1>10 DEF p, q, r, c

\* A prefix is the one before it and one element more.
LEMMA PrefixGrows ==
    ASSUME NEW Sym, NEW w \in Seq(Sym), NEW i \in 1..Len(w)
    PROVE  /\ SubSeq(w, 1, i) = Append(SubSeq(w, 1, i - 1), w[i])
           /\ SubSeq(w, 1, i) \in Seq(Sym) /\ SubSeq(w, 1, i - 1) \in Seq(Sym)
OBVIOUS

\* FlattenSeq appends the sequences one by one.
LEMMA Flattened ==
    ASSUME NEW Sym, NEW q \in Seq(Seq(Sym)), q # <<>>
    PROVE  \E f \in [1..Len(q) -> Seq(Sym)] :
              /\ FlattenSeq(q) = f[Len(q)] /\ f[1] = q[1]
              /\ \A i \in 2..Len(q) : f[i] = f[i - 1] \o q[i]
<1> DEFINE n == Len(q)
           St == Seq(Sym)
           Solves(g) == g = [i \in 1..n |-> IF i = 1 THEN q[i] ELSE g[i - 1] \o q[i]]
           F == [i \in 1..n |-> [x \in St |-> x \o q[i]]]
<1>1. n \in Nat \ {0} /\ n \in Nat /\ \A i \in 1..n : q[i] \in St
  OBVIOUS
<1>2. F \in [1..n -> [St -> St]]
  BY <1>1
<1>3. /\ \A i \in 1..n, x \in St : F[i][x] = x \o q[i]
      /\ <<>> \in St /\ \A x \in St : <<>> \o x = x
  OBVIOUS
<1> HIDE DEF F, St, n
<1>4. PICK g \in [0..n -> St] : g[0] = <<>> /\ \A i \in 1..n : g[i] = F[i][g[i - 1]]
  <2>1. Solvable(St, <<>>, n, F)
    BY <1>1, <1>2, <1>3, Recursion
  <2> QED BY <2>1 DEF Solvable
<1> DEFINE h == [i \in 1..n |-> g[i]]
<1>5. h \in [1..n -> St] /\ \A i \in 1..n : h[i] = g[i]
  BY <1>1
<1> HIDE DEF h
<1>6. Solves(h)
  <2>0. h = [i \in 1..n |-> h[i]]
    BY <1>5
  <2>1. ASSUME NEW i \in 1..n
        PROVE  h[i] = IF i = 1 THEN q[i] ELSE h[i - 1] \o q[i]
    <3>1. g[i] = g[i - 1] \o q[i]
      <4>1. i - 1 \in 0..n
        BY <1>1
      <4> QED BY <1>3, <1>4, <4>1
    <3>2. CASE i = 1
      <4>1. g[0] = g[i - 1] /\ q[i] \in St
        BY <1>1, <3>2
      <4>2. g[i - 1] = <<>> /\ <<>> \o q[i] = q[i] /\ h[i] = g[i]
        BY <1>3, <1>4, <1>5, <4>1
      <4> QED BY <3>1, <3>2, <4>2
    <3>3. CASE i # 1
      <4>1. i - 1 \in 1..n
        BY <1>1, <3>3
      <4>2. h[i] = g[i] /\ h[i - 1] = g[i - 1]
        BY <1>5, <4>1
      <4> QED BY <3>1, <3>3, <4>2
    <3> QED BY <3>2, <3>3
  <2> QED BY <2>0, <2>1
<1> DEFINE f == CHOOSE e : Solves(e)
<1>7. Solves(f)
  <2> HIDE DEF Solves
  <2> QED BY <1>6, Zenon
<1>8. FlattenSeq(q) = f[n]
  BY <1>1, Zenon DEF FlattenSeq, n
<1> HIDE DEF f
<1>9. f[1] = q[1] /\ \A i \in 2..n : f[i] = f[i - 1] \o q[i]
  <2>1. \A i \in 1..n : f[i] = IF i = 1 THEN q[i] ELSE f[i - 1] \o q[i]
    BY <1>7
  <2>2. ASSUME NEW i \in 2..n PROVE i \in 1..n /\ i # 1
    BY <1>1
  <2>3. 1 \in 1..n
    BY <1>1
  <2> HIDE DEF Solves
  <2>4. f[1] = q[1]
    BY <2>1, <2>3
  <2> QED BY <2>1, <2>2, <2>4, Zenon
<1>10. \A i \in 1..n : f[i] \in St
  <2> DEFINE S == {i \in 0..n : i # 0 => f[i] \in St}
  <2>1. 0 \in S
    BY <1>1
  <2>2. ASSUME NEW i \in 0..(n - 1), i \in S PROVE i + 1 \in S
    <3>1. i + 1 \in 1..n /\ i + 1 \in 0..n /\ (i + 1) - 1 = i
      BY <1>1
    <3>2. CASE i = 0
      BY <1>1, <1>9, <3>1, <3>2
    <3>3. CASE i # 0
      <4>1. i + 1 \in 2..n /\ f[i] \in St /\ q[i + 1] \in St
        BY <1>1, <2>2, <3>1, <3>3
      <4>2. f[i + 1] = f[i] \o q[i + 1]
        BY <1>9, <3>1, <4>1
      <4>3. f[i + 1] \in St
        BY <4>1, <4>2 DEF St
      <4> QED BY <3>1, <4>3
    <3> QED BY <3>2, <3>3
  <2> HIDE DEF S
  <2>3. 0..n \subseteq S
    BY <1>1, <2>1, <2>2, UpTo
  <2> QED BY <2>3 DEF S
<1>11. f \in [1..n -> St]
  BY <1>7, <1>10
<1> QED BY <1>8, <1>9, <1>11 DEF n, St

\* Nothing flattened is nothing.
LEMMA FlattenNothing == FlattenSeq(<<>>) = <<>>
<1>1. Len(<<>>) = 0
  OBVIOUS
<1> QED BY <1>1, Zenon DEF FlattenSeq

-----------------------------------------------------------------------------
(* Symbols.                                                                *)

\* The other quote.
DoubleQuote == "\""

\* The symbols that the scanners tell apart are different.
LEMMA Distinct ==
    /\ Quotes = {Apostrophe, DoubleQuote}
    /\ NoQuote \notin {Apostrophe, DoubleQuote, Blank, Backslash}
    /\ Blank \notin {Apostrophe, DoubleQuote, Backslash}
    /\ Backslash \notin {Apostrophe, DoubleQuote}
    /\ Apostrophe # Newline
<1>1. Quotes = {Apostrophe, DoubleQuote}
  BY DEF Quotes, DoubleQuote
<1>2. NoQuote # Apostrophe /\ NoQuote # DoubleQuote /\ NoQuote # Blank /\ NoQuote # Backslash
  BY Zenon DEF NoQuote, Empty, Apostrophe, DoubleQuote, Blank, Backslash
<1>3. Blank # Apostrophe /\ Blank # DoubleQuote /\ Blank # Backslash
  BY Zenon DEF Apostrophe, DoubleQuote, Blank, Backslash
<1>4. Backslash # Apostrophe /\ Backslash # DoubleQuote /\ Apostrophe # Newline
  BY Zenon DEF Apostrophe, DoubleQuote, Backslash, Newline
<1> QED BY <1>1, <1>2, <1>3, <1>4

\* No scanner takes an option apart, and the shell does nothing on account of the
\* first word being gamescope.
LEMMA LiteralsPlain == Literals \subseteq Plain /\ "gamescope" \notin Leading
<1>1. ASSUME NEW x \in Literals PROVE x \notin Special
  <2>1. x # Apostrophe /\ x # DoubleQuote /\ x # Blank /\ x # Tab /\ x # Newline
    BY Zenon DEF Literals, Apostrophe, DoubleQuote, Blank, Tab, Newline
  <2>2. x # Backslash /\ x # Comment
    BY Zenon DEF Literals, Backslash, Comment
  <2>3. x \notin Expanding
    BY Zenon DEF Literals, Expanding
  <2>4. x \notin {"*", "?", "[", ";", "&", "|", "<"}
    BY Zenon DEF Literals
  <2>5. x \notin {">", "(", ")", "{", "~"}
    BY Zenon DEF Literals
  <2>6. x \notin Active
    BY <2>1, <2>3, <2>4, <2>5 DEF Active
  <2> QED BY <2>1, <2>2, <2>6, Distinct DEF Special
<1>2. "gamescope" \notin Leading
  BY Zenon DEF Leading
<1> QED BY <1>1, <1>2, TextAssumption DEF Plain

\* A field that is empty, left out or filled in is told apart.
LEMMA NothingSaid == Absent # <<>> /\ <<"fit">> # <<>> /\ <<"fit">> # Absent
<1>1. "fit" # "absent"
  BY Zenon
<1>2. \A x, y : <<x>> # <<>> /\ (<<x>> = <<y>> => x = y)
  OBVIOUS
<1> QED BY <1>1, <1>2 DEF Absent

-----------------------------------------------------------------------------
(* The scanners.                                                           *)

\* The states of the two scanners over the symbols Sym.
SplitStates(Sym) ==
    [args : Seq(Seq(Sym)), cur : Seq(Sym), quote : Quotes \cup {NoQuote}]

ShellStates(Sym) ==
    [args : Seq(Seq(Sym)), cur : Seq(Sym), begun : BOOLEAN, quote : Quotes \cup {NoQuote},
     escaped : BOOLEAN, literal : BOOLEAN]

\* splitExec's loop keeps its type.
LEMMA SplitStepType ==
    ASSUME NEW Sym, NEW st \in SplitStates(Sym), NEW r \in Sym
    PROVE  SplitStep(st, r) \in SplitStates(Sym)
<1>1. Append(st.args, st.cur) \in Seq(Seq(Sym)) /\ Append(st.cur, r) \in Seq(Sym)
  BY DEF SplitStates
<1>2. <<>> \in Seq(Sym)
  OBVIOUS
<1>3. SplitFlush(st) \in SplitStates(Sym)
  BY <1>1, <1>2 DEF SplitFlush, SplitStates
<1> QED BY <1>1, <1>3 DEF SplitStep, SplitStates

\* So does the shell's.
LEMMA ShellStepType ==
    ASSUME NEW Sym, NEW st \in ShellStates(Sym), NEW r \in Sym
    PROVE  ShellStep(st, r) \in ShellStates(Sym)
<1>1. Append(st.args, st.cur) \in Seq(Seq(Sym)) /\ Append(st.cur, r) \in Seq(Sym)
  BY DEF ShellStates
<1>2. <<>> \in Seq(Sym)
  OBVIOUS
<1>3. ShellFlush(st) \in ShellStates(Sym) /\ ShellAdd(st, r) \in ShellStates(Sym)
  BY <1>1, <1>2 DEF ShellFlush, ShellAdd, ShellStates
<1>4. ShellMore(st) \in ShellStates(Sym)
  BY DEF ShellMore, ShellStates
<1>5. ShellQuoted(st, r) \in ShellStates(Sym)
  BY <1>3, <1>4 DEF ShellQuoted, ShellStates
<1>6. /\ [st EXCEPT !.escaped = FALSE] \in ShellStates(Sym)
      /\ [st EXCEPT !.escaped = TRUE] \in ShellStates(Sym)
      /\ r \in Quotes => [st EXCEPT !.quote = r, !.begun = TRUE] \in ShellStates(Sym)
  BY DEF ShellStates
<1> QED BY <1>3, <1>4, <1>5, <1>6 DEF ShellStep

\* SplitScan is the run of splitExec's loop over the text.
LEMMA SplitScanned ==
    ASSUME NEW Sym, NEW s \in Seq(Sym)
    PROVE  /\ SplitScan(s) \in [0..Len(s) -> SplitStates(Sym)]
           /\ SplitScan(s)[0] = SplitStart
           /\ \A i \in 1..Len(s) : SplitScan(s)[i] = SplitStep(SplitScan(s)[i - 1], s[i])
<1> DEFINE n == Len(s)
           St == SplitStates(Sym)
           Solves(g) == g = [i \in 0..n |-> IF i = 0 THEN SplitStart ELSE SplitStep(g[i - 1], s[i])]
           F == [i \in 1..n |-> [st \in St |-> SplitStep(st, s[i])]]
<1>1. n \in Nat /\ \A i \in 1..n : s[i] \in Sym
  OBVIOUS
<1>2. SplitStart \in St
  <2>1. <<>> \in Seq(Sym) /\ <<>> \in Seq(Seq(Sym))
    OBVIOUS
  <2> QED BY <2>1 DEF SplitStart, SplitStates
<1>3. F \in [1..n -> [St -> St]]
  BY <1>1, SplitStepType
<1>4. \A i \in 1..n, st \in St : F[i][st] = SplitStep(st, s[i])
  OBVIOUS
<1> HIDE DEF F, St, n
<1>5. PICK g \in [0..n -> St] : g[0] = SplitStart /\ \A i \in 1..n : g[i] = F[i][g[i - 1]]
  <2>1. Solvable(St, SplitStart, n, F)
    BY <1>1, <1>2, <1>3, Recursion
  <2> QED BY <2>1 DEF Solvable
<1>6. Solves(g)
  <2>1. ASSUME NEW i \in 0..n
        PROVE  g[i] = IF i = 0 THEN SplitStart ELSE SplitStep(g[i - 1], s[i])
    <3>1. CASE i = 0
      BY <1>5, <3>1
    <3>2. CASE i \in 1..n
      <4>1. i - 1 \in 0..n /\ i # 0
        BY <1>1, <3>2
      <4> QED BY <1>4, <1>5, <3>2, <4>1
    <3> QED BY <1>1, <3>1, <3>2
  <2> QED BY <2>1
<1> DEFINE f == SplitScan(s)
<1>7. Solves(f)
  <2>1. f = CHOOSE h : Solves(h)
    BY Zenon DEF SplitScan, n
  <2> HIDE DEF Solves, f
  <2> QED BY <1>6, <2>1, Zenon
<1>8. f[0] = SplitStart /\ \A i \in 1..n : f[i] = SplitStep(f[i - 1], s[i])
  BY <1>1, <1>7
<1> HIDE DEF f
<1>9. \A i \in 0..n : f[i] \in St
  <2>1. f[0] \in St /\ \A i \in 1..n : f[i - 1] \in St => f[i] \in St
    BY <1>1, <1>2, <1>8, SplitStepType DEF St
  <2> QED BY <1>1, <2>1, HandedOn
<1>10. f \in [0..n -> St]
  BY <1>7, <1>9
<1> QED BY <1>8, <1>10 DEF n, St, f

\* ShellScan is the run of the shell's loop over the text.
LEMMA ShellScanned ==
    ASSUME NEW Sym, NEW s \in Seq(Sym), NEW a \in ShellStates(Sym)
    PROVE  /\ ShellScan(a, s) \in [0..Len(s) -> ShellStates(Sym)]
           /\ ShellScan(a, s)[0] = a
           /\ \A i \in 1..Len(s) : ShellScan(a, s)[i] = ShellStep(ShellScan(a, s)[i - 1], s[i])
<1> DEFINE n == Len(s)
           St == ShellStates(Sym)
           Solves(g) == g = [i \in 0..n |-> IF i = 0 THEN a ELSE ShellStep(g[i - 1], s[i])]
           F == [i \in 1..n |-> [st \in St |-> ShellStep(st, s[i])]]
<1>1. n \in Nat /\ \A i \in 1..n : s[i] \in Sym
  OBVIOUS
<1>2. F \in [1..n -> [St -> St]]
  BY <1>1, ShellStepType
<1>3. \A i \in 1..n, st \in St : F[i][st] = ShellStep(st, s[i])
  OBVIOUS
<1>4. n \in Nat /\ a \in St
  BY <1>1
<1> HIDE DEF F, St, n
<1>5. PICK g \in [0..n -> St] : g[0] = a /\ \A i \in 1..n : g[i] = F[i][g[i - 1]]
  <2>1. Solvable(St, a, n, F)
    BY <1>2, <1>4, Recursion
  <2> QED BY <2>1 DEF Solvable
<1>6. Solves(g)
  <2>1. ASSUME NEW i \in 0..n
        PROVE  g[i] = IF i = 0 THEN a ELSE ShellStep(g[i - 1], s[i])
    <3>1. CASE i = 0
      BY <1>5, <3>1
    <3>2. CASE i \in 1..n
      <4>1. i - 1 \in 0..n /\ i # 0
        BY <1>1, <3>2
      <4> QED BY <1>3, <1>5, <3>2, <4>1
    <3> QED BY <1>1, <3>1, <3>2
  <2> QED BY <2>1
<1> DEFINE f == ShellScan(a, s)
<1>7. Solves(f)
  <2>1. f = CHOOSE h : Solves(h)
    BY Zenon DEF ShellScan, n
  <2> HIDE DEF Solves, f
  <2> QED BY <1>6, <2>1, Zenon
<1>8. f[0] = a /\ \A i \in 1..n : f[i] = ShellStep(f[i - 1], s[i])
  BY <1>1, <1>7
<1> HIDE DEF f
<1>9. \A i \in 0..n : f[i] \in St
  <2>1. f[0] \in St /\ \A i \in 1..n : f[i - 1] \in St => f[i] \in St
    BY <1>1, <1>4, <1>8, ShellStepType DEF St
  <2> QED BY <1>1, <2>1, HandedOn
<1>10. f \in [0..n -> St]
  BY <1>7, <1>9
<1> QED BY <1>8, <1>10 DEF n, St, f

\* What splitExec returns is words over the symbols of the text.
LEMMA SplitTypes ==
    ASSUME NEW Sym, NEW s \in Seq(Sym)
    PROVE  SplitExec(s).argv \in Seq(Seq(Sym)) /\ SplitExec(s).ok \in BOOLEAN
<1>1. Len(s) \in 0..Len(s)
  OBVIOUS
<1>2. SplitScan(s)[Len(s)] \in SplitStates(Sym)
  BY <1>1, SplitScanned
<1> DEFINE st == SplitScan(s)[Len(s)]
<1> HIDE DEF st
<1>3. SplitFlush(st).args \in Seq(Seq(Sym))
  <2>1. Append(st.args, st.cur) \in Seq(Seq(Sym))
    BY <1>2 DEF SplitStates, st
  <2> QED BY <1>2, <2>1 DEF SplitFlush, SplitStates, st
<1>4. <<>> \in Seq(Seq(Sym))
  OBVIOUS
<1> QED BY <1>3, <1>4 DEF SplitExec, Failed, Ok, st

-----------------------------------------------------------------------------
(* What the shell makes of a line, piece by piece.                         *)

\* The shell after the text s, from the state a on.
After(a, s) == ShellScan(a, s)[Len(s)]

\* The shell stays in its states.
LEMMA AfterType ==
    ASSUME NEW Sym, NEW s \in Seq(Sym), NEW a \in ShellStates(Sym)
    PROVE  After(a, s) \in ShellStates(Sym)
<1>1. Len(s) \in 0..Len(s)
  OBVIOUS
<1> QED BY <1>1, ShellScanned DEF After

\* Nothing to read changes nothing.
LEMMA AfterNothing ==
    ASSUME NEW Sym, NEW a \in ShellStates(Sym) PROVE After(a, <<>>) = a
<1>1. <<>> \in Seq(Sym) /\ Len(<<>>) = 0
  OBVIOUS
<1> QED BY <1>1, ShellScanned DEF After

\* One symbol is one step.
LEMMA AfterSymbol ==
    ASSUME NEW Sym, NEW a \in ShellStates(Sym), NEW r \in Sym
    PROVE  After(a, <<r>>) = ShellStep(a, r)
<1> DEFINE s == <<r>>
<1>1. s \in Seq(Sym) /\ Len(s) = 1 /\ s[1] = r
  OBVIOUS
<1> HIDE DEF s
<1>2. /\ ShellScan(a, s)[0] = a
      /\ \A i \in 1..Len(s) : ShellScan(a, s)[i] = ShellStep(ShellScan(a, s)[i - 1], s[i])
  BY <1>1, ShellScanned
<1>3. ShellScan(a, s)[1] = ShellStep(ShellScan(a, s)[0], s[1])
  BY <1>1, <1>2
<1> QED BY <1>1, <1>2, <1>3 DEF After, s

\* A text is read like its two parts, one after the other.
LEMMA AfterBoth ==
    ASSUME NEW Sym, NEW s \in Seq(Sym), NEW t \in Seq(Sym), NEW a \in ShellStates(Sym)
    PROVE  After(a, s \o t) = After(After(a, s), t)
<1> DEFINE st == s \o t
           m == Len(s)
           n == Len(t)
           b == After(a, s)
           f == ShellScan(a, st)
           g == ShellScan(a, s)
           h == ShellScan(b, t)
<1>1. /\ st \in Seq(Sym) /\ Len(st) = m + n /\ m \in Nat /\ n \in Nat
      /\ \A i \in 1..m : st[i] = s[i]
      /\ \A i \in 1..n : st[m + i] = t[i]
  BY Concatenated
<1>2. b \in ShellStates(Sym)
  BY AfterType
<1> HIDE DEF st, b
<1>3. /\ f[0] = a /\ \A i \in 1..Len(st) : f[i] = ShellStep(f[i - 1], st[i])
      /\ g[0] = a /\ \A i \in 1..Len(s) : g[i] = ShellStep(g[i - 1], s[i])
      /\ h[0] = b /\ \A i \in 1..Len(t) : h[i] = ShellStep(h[i - 1], t[i])
  <2>1. f[0] = a /\ \A i \in 1..Len(st) : f[i] = ShellStep(f[i - 1], st[i])
    <3>1. st \in Seq(Sym)
      BY <1>1
    <3> QED BY <3>1, ShellScanned
  <2>2. g[0] = a /\ \A i \in 1..Len(s) : g[i] = ShellStep(g[i - 1], s[i])
    BY ShellScanned
  <2>3. h[0] = b /\ \A i \in 1..Len(t) : h[i] = ShellStep(h[i - 1], t[i])
    BY <1>2, ShellScanned
  <2> QED BY <2>1, <2>2, <2>3
<1>4. b = g[m]
  BY DEF b, After
<1> HIDE DEF f, g, h, m, n
<1>5. \A i \in 0..m : f[i] = g[i]
  <2> DEFINE S == {i \in 0..m : f[i] = g[i]}
  <2>1. 0 \in S
    BY <1>1, <1>3
  <2>2. ASSUME NEW i \in 0..(m - 1), i \in S PROVE i + 1 \in S
    <3>1. i + 1 \in 0..m /\ i + 1 \in 1..m /\ i + 1 \in 1..Len(st) /\ (i + 1) - 1 = i
      BY <1>1
    <3>2. f[i + 1] = ShellStep(f[i], st[i + 1]) /\ g[i + 1] = ShellStep(g[i], s[i + 1])
      BY <1>3, <3>1 DEF m
    <3> QED BY <1>1, <2>2, <3>1, <3>2
  <2> HIDE DEF S
  <2>3. 0..m \subseteq S
    BY <1>1, <2>1, <2>2, UpTo
  <2> QED BY <2>3 DEF S
<1>6. \A i \in 0..n : f[m + i] = h[i]
  <2> DEFINE S == {i \in 0..n : f[m + i] = h[i]}
  <2>1. 0 \in S
    <3>1. m \in 0..m /\ m + 0 = m /\ 0 \in 0..n
      BY <1>1
    <3> QED BY <1>3, <1>4, <1>5, <3>1
  <2>2. ASSUME NEW i \in 0..(n - 1), i \in S PROVE i + 1 \in S
    <3>1. /\ i + 1 \in 0..n /\ i + 1 \in 1..n /\ m + (i + 1) \in 1..Len(st)
          /\ (i + 1) - 1 = i /\ (m + (i + 1)) - 1 = m + i
      BY <1>1
    <3>2. f[m + (i + 1)] = ShellStep(f[m + i], st[m + (i + 1)])
      BY <1>3, <3>1
    <3>3. h[i + 1] = ShellStep(h[i], t[i + 1])
      BY <1>3, <3>1 DEF n
    <3> QED BY <1>1, <2>2, <3>1, <3>2, <3>3
  <2> HIDE DEF S
  <2>3. 0..n \subseteq S
    BY <1>1, <2>1, <2>2, UpTo
  <2> QED BY <2>3 DEF S
<1>7. f[m + n] = h[n]
  BY <1>1, <1>6
<1> QED BY <1>1, <1>7 DEF After, f, h, st, b, n

\* A flattened text takes the shell through the states b, one per piece.
LEMMA AfterAll ==
    ASSUME NEW Sym, NEW q \in Seq(Seq(Sym)), q # <<>>,
           NEW b \in [0..Len(q) -> ShellStates(Sym)],
           \A i \in 1..Len(q) : After(b[i - 1], q[i]) = b[i]
    PROVE  /\ FlattenSeq(q) \in Seq(Sym)
           /\ After(b[0], FlattenSeq(q)) = b[Len(q)]
<1> DEFINE n == Len(q)
<1>1. n \in Nat \ {0} /\ n \in Nat /\ n \in 1..n /\ 1 \in 1..n /\ 0 \in 0..n
  OBVIOUS
<1>2. PICK f \in [1..n -> Seq(Sym)] :
         /\ FlattenSeq(q) = f[n] /\ f[1] = q[1]
         /\ \A i \in 2..n : f[i] = f[i - 1] \o q[i]
  BY Flattened
<1>3. \A i \in 1..n : q[i] \in Seq(Sym) /\ After(b[i - 1], q[i]) = b[i]
  OBVIOUS
<1>4. \A i \in 0..n : b[i] \in ShellStates(Sym)
  OBVIOUS
<1> HIDE DEF n
<1> DEFINE S == {i \in 0..n : i # 0 => After(b[0], f[i]) = b[i]}
<1>5. 0 \in S
  BY <1>1
<1>6. ASSUME NEW i \in 0..(n - 1), i \in S PROVE i + 1 \in S
  <2>1. i + 1 \in 1..n /\ i + 1 \in 0..n /\ (i + 1) - 1 = i /\ i \in 0..n
    BY <1>1
  <2>2. CASE i = 0
    <3>1. After(b[0], q[1]) = b[1]
      <4>1. 1 - 1 = 0
        OBVIOUS
      <4> QED BY <1>1, <1>3, <4>1
    <3> QED BY <1>2, <2>1, <2>2, <3>1
  <2>3. CASE i # 0
    <3>1. i + 1 \in 2..n /\ i \in 1..n
      BY <1>1, <2>3
    <3>2. f[i + 1] = f[i] \o q[i + 1] /\ f[i] \in Seq(Sym) /\ q[i + 1] \in Seq(Sym)
      BY <1>2, <1>3, <2>1, <3>1
    <3>3. After(b[0], f[i]) = b[i]
      BY <1>6, <2>3
    <3>4. b[0] \in ShellStates(Sym)
      BY <1>1, <1>4
    <3>5. After(b[0], f[i] \o q[i + 1]) = After(After(b[0], f[i]), q[i + 1])
      BY <3>2, <3>4, AfterBoth
    <3>6. After(b[i], q[i + 1]) = b[i + 1]
      BY <1>3, <2>1
    <3> QED BY <2>1, <3>2, <3>3, <3>5, <3>6
  <2> QED BY <2>2, <2>3
<1> HIDE DEF S
<1>7. 0..n \subseteq S
  BY <1>1, <1>5, <1>6, UpTo
<1>8. n \in S /\ n # 0
  BY <1>1, <1>7
<1> QED BY <1>1, <1>2, <1>8 DEF S, n

-----------------------------------------------------------------------------
(* Words and quotations.                                                   *)

\* The shell between two words, and after a word.
Clean(A) == [args |-> A, cur |-> <<>>, begun |-> FALSE, quote |-> NoQuote, escaped |-> FALSE,
             literal |-> TRUE]

Wrote(A, w) == [args |-> A, cur |-> w, begun |-> TRUE, quote |-> NoQuote, escaped |-> FALSE,
                literal |-> TRUE]

\* The shell in a quotation.
Quoted(A, w) == [args |-> A, cur |-> w, begun |-> TRUE, quote |-> Apostrophe, escaped |-> FALSE,
                 literal |-> TRUE]

\* These states are states.
LEMMA StateTypes ==
    ASSUME NEW Sym, NEW A \in Seq(Seq(Sym)), NEW w \in Seq(Sym)
    PROVE  /\ Clean(A) \in ShellStates(Sym) /\ Wrote(A, w) \in ShellStates(Sym)
           /\ ShellStart = Clean(<<>>) /\ <<>> \in Seq(Seq(Sym))
<1>1. <<>> \in Seq(Sym) /\ <<>> \in Seq(Seq(Sym))
  OBVIOUS
<1> QED BY <1>1 DEF Clean, Wrote, ShellStates, ShellStart

\* What a symbol that is taken literally leaves.
LEMMA AddFields ==
    ASSUME NEW Sym, NEW st \in ShellStates(Sym), NEW r \in Sym
    PROVE  /\ ShellAdd(st, r) \in ShellStates(Sym)
           /\ ShellAdd(st, r).args = st.args /\ ShellAdd(st, r).cur = Append(st.cur, r)
           /\ ShellAdd(st, r).begun /\ ShellAdd(st, r).quote = st.quote
           /\ ~ShellAdd(st, r).escaped /\ ShellAdd(st, r).literal = st.literal
<1>1. Append(st.cur, r) \in Seq(Sym)
  BY DEF ShellStates
<1> QED BY <1>1 DEF ShellAdd, ShellStates

\* States with the same fields are the same.
LEMMA SameFields ==
    ASSUME NEW Sym, NEW st \in ShellStates(Sym), NEW u \in ShellStates(Sym),
           st.args = u.args, st.cur = u.cur, st.begun = u.begun, st.quote = u.quote,
           st.escaped = u.escaped, st.literal = u.literal
    PROVE  st = u
BY DEF ShellStates

\* Outside of quotes it begins a word or continues it.
LEMMA AddWrites ==
    ASSUME NEW Sym, NEW st \in ShellStates(Sym), NEW r \in Sym, st.quote = NoQuote, st.literal
    PROVE  ShellAdd(st, r) = Wrote(st.args, Append(st.cur, r))
<1>1. Append(st.cur, r) \in Seq(Sym) /\ st.args \in Seq(Seq(Sym))
  BY DEF ShellStates
<1> DEFINE u == Wrote(st.args, Append(st.cur, r))
           t == ShellAdd(st, r)
<1>2. /\ t \in ShellStates(Sym) /\ t.args = st.args /\ t.cur = Append(st.cur, r)
      /\ t.begun /\ t.quote = NoQuote /\ ~t.escaped /\ t.literal
  BY AddFields
<1>3. /\ u \in ShellStates(Sym) /\ u.args = st.args /\ u.cur = Append(st.cur, r)
      /\ u.begun /\ u.quote = NoQuote /\ ~u.escaped /\ u.literal
  <2>1. u \in ShellStates(Sym)
    BY <1>1, StateTypes
  <2> QED BY <2>1 DEF Wrote
<1>4. \A v \in ShellStates(Sym) : v.begun \in BOOLEAN /\ v.escaped \in BOOLEAN /\ v.literal \in BOOLEAN
  BY DEF ShellStates
<1> HIDE DEF t, u
<1>5. t.begun = u.begun /\ t.escaped = u.escaped /\ t.literal = u.literal
  BY <1>2, <1>3, <1>4
<1>6. t = u
  BY <1>2, <1>3, <1>5, SameFields
<1> QED BY <1>6 DEF t, u

\* A symbol that means nothing to the shell is taken literally.
LEMMA StepPlain ==
    ASSUME NEW Sym, NEW A \in Seq(Seq(Sym)), NEW w \in Seq(Sym), NEW r \in Sym, r \notin Special
    PROVE  /\ ShellStep(Clean(A), r) = Wrote(A, Append(<<>>, r))
           /\ ShellStep(Wrote(A, w), r) = Wrote(A, Append(w, r))
<1>1. r # Backslash /\ r \notin Quotes /\ r \notin {Blank, Tab} /\ r \notin Active /\ r # Comment
  BY DEF Special
<1>2. ASSUME NEW st, ~st.escaped, st.quote = NoQuote PROVE ShellStep(st, r) = ShellAdd(st, r)
  BY <1>1, <1>2 DEF ShellStep
<1>3. Clean(A) \in ShellStates(Sym) /\ Wrote(A, w) \in ShellStates(Sym)
  BY StateTypes
<1>4. /\ ~Clean(A).escaped /\ Clean(A).quote = NoQuote /\ Clean(A).literal
      /\ Clean(A).args = A /\ Clean(A).cur = <<>>
  BY DEF Clean
<1>5. /\ ~Wrote(A, w).escaped /\ Wrote(A, w).quote = NoQuote /\ Wrote(A, w).literal
      /\ Wrote(A, w).args = A /\ Wrote(A, w).cur = w
  BY DEF Wrote
<1>6. ShellAdd(Clean(A), r) = Wrote(A, Append(<<>>, r))
  BY <1>3, <1>4, AddWrites
<1>7. ShellAdd(Wrote(A, w), r) = Wrote(A, Append(w, r))
  BY <1>3, <1>5, AddWrites
<1> QED BY <1>2, <1>4, <1>5, <1>6, <1>7

\* The steps that a quotation takes.
LEMMA StepsQuoted ==
    ASSUME NEW A, NEW w, NEW r
    PROVE  /\ r # Apostrophe => ShellStep(Quoted(A, w), r) = Quoted(A, Append(w, r))
           /\ ShellStep(Quoted(A, w), Apostrophe) = Wrote(A, w)
           /\ ShellStep(Wrote(A, w), Apostrophe) = Quoted(A, w)
           /\ r # Newline => ShellStep(ShellStep(Wrote(A, w), Backslash), r) = Wrote(A, Append(w, r))
           /\ ShellStep(Clean(A), Apostrophe) = Quoted(A, <<>>)
<1>1. r # Apostrophe => ShellStep(Quoted(A, w), r) = Quoted(A, Append(w, r))
  BY Distinct DEF ShellStep, ShellQuoted, ShellAdd, Quoted
<1>2. ShellStep(Quoted(A, w), Apostrophe) = Wrote(A, w)
  BY Distinct DEF ShellStep, ShellQuoted, Quoted, Wrote
<1>3. ShellStep(Wrote(A, w), Apostrophe) = Quoted(A, w)
  BY Distinct DEF ShellStep, Quoted, Wrote
<1>4. r # Newline => ShellStep(ShellStep(Wrote(A, w), Backslash), r) = Wrote(A, Append(w, r))
  BY Distinct DEF ShellStep, ShellAdd, Wrote
<1>5. ShellStep(Clean(A), Apostrophe) = Quoted(A, <<>>)
  BY Distinct DEF ShellStep, Quoted, Clean
<1> QED BY <1>1, <1>2, <1>3, <1>4, <1>5

\* The shell reads an escaped symbol in a quotation as the symbol.
LEMMA AfterEscape ==
    ASSUME NEW Sym, {Apostrophe, Backslash} \subseteq Sym,
           NEW A \in Seq(Seq(Sym)), NEW w \in Seq(Sym), NEW c \in Sym
    PROVE  /\ Escape(c) \in Seq(Sym)
           /\ After(Quoted(A, w), Escape(c)) = Quoted(A, Append(w, c))
<1> DEFINE st == Quoted(A, w)
<1>1. st \in ShellStates(Sym) /\ Apostrophe \in Sym /\ Backslash \in Sym
  BY Distinct DEF Quoted, ShellStates
<1>2. CASE c # Apostrophe
  <2>1. Escape(c) = <<c>> /\ <<c>> \in Seq(Sym)
    BY <1>2 DEF Escape
  <2>2. After(st, <<c>>) = ShellStep(st, c)
    BY <1>1, AfterSymbol
  <2> QED BY <1>2, <2>1, <2>2, StepsQuoted
<1>3. CASE c = Apostrophe
  <2> DEFINE a == <<Apostrophe>>
             b == <<Backslash>>
             s1 == Wrote(A, w)
             s2 == ShellStep(s1, Backslash)
             s3 == Wrote(A, Append(w, c))
  <2>1. a \in Seq(Sym) /\ b \in Seq(Sym) /\ a \o b \in Seq(Sym) /\ (a \o b) \o a \in Seq(Sym)
    BY <1>1
  <2>2. Escape(c) = ((a \o b) \o a) \o a /\ ((a \o b) \o a) \o a \in Seq(Sym)
    BY <1>1, <1>3 DEF Escape
  <2>3. /\ s1 \in ShellStates(Sym) /\ s3 \in ShellStates(Sym) /\ s2 \in ShellStates(Sym)
    <3>1. Append(w, c) \in Seq(Sym)
      OBVIOUS
    <3> QED BY <1>1, <3>1, StateTypes, ShellStepType
  <2>4. After(st, a) = s1
    <3>1. After(st, a) = ShellStep(st, Apostrophe)
      BY <1>1, AfterSymbol
    <3> QED BY <3>1, StepsQuoted
  <2>5. After(s1, b) = s2
    BY <1>1, <2>3, AfterSymbol
  <2>6. After(s2, a) = s3
    <3>1. After(s2, a) = ShellStep(s2, Apostrophe)
      BY <1>1, <2>3, AfterSymbol
    <3> QED BY <1>3, <3>1, StepsQuoted, Distinct
  <2>7. After(s3, a) = Quoted(A, Append(w, c))
    <3>1. After(s3, a) = ShellStep(s3, Apostrophe)
      BY <1>1, <2>3, AfterSymbol
    <3> QED BY <3>1, StepsQuoted
  <2> HIDE DEF a, b, s1, s2, s3, st
  <2>8. After(st, a \o b) = s2
    BY <1>1, <2>1, <2>4, <2>5, AfterBoth
  <2>9. After(st, (a \o b) \o a) = s3
    BY <1>1, <2>1, <2>6, <2>8, AfterBoth
  <2>10. After(st, ((a \o b) \o a) \o a) = Quoted(A, Append(w, c))
    BY <1>1, <2>1, <2>7, <2>9, AfterBoth
  <2> QED BY <2>2, <2>10 DEF st
<1> QED BY <1>2, <1>3

\* A blank ends a word.
LEMMA AfterBlank ==
    ASSUME NEW Sym, Blank \in Sym, NEW A \in Seq(Seq(Sym)), NEW w \in Seq(Sym)
    PROVE  /\ After(Wrote(A, w), <<Blank>>) = Clean(Append(A, w))
           /\ Append(A, w) \in Seq(Seq(Sym))
<1>1. After(Wrote(A, w), <<Blank>>) = ShellStep(Wrote(A, w), Blank)
  BY StateTypes, AfterSymbol
<1>2. ShellStep(Wrote(A, w), Blank) = ShellFlush(Wrote(A, w))
  BY Distinct DEF ShellStep, Wrote
<1>3. ShellFlush(Wrote(A, w)) = Clean(Append(A, w))
  BY DEF ShellFlush, Wrote, Clean
<1>4. Append(A, w) \in Seq(Seq(Sym))
  OBVIOUS
<1> QED BY <1>1, <1>2, <1>3, <1>4

\* A blank ends the word before it, and the shell reads on.
LEMMA AfterNext ==
    ASSUME NEW Sym, Blank \in Sym, NEW A \in Seq(Seq(Sym)), NEW w \in Seq(Sym), NEW p \in Seq(Sym)
    PROVE  After(Wrote(A, w), <<Blank>> \o p) = After(Clean(Append(A, w)), p)
<1>1. <<Blank>> \in Seq(Sym) /\ Wrote(A, w) \in ShellStates(Sym)
  BY StateTypes
<1>2. After(Wrote(A, w), <<Blank>> \o p) = After(After(Wrote(A, w), <<Blank>>), p)
  BY <1>1, AfterBoth
<1> QED BY <1>2, AfterBlank

\* The shell reads p as the word w.
Reads(Sym, p, w) == \A A \in Seq(Seq(Sym)) : After(Clean(A), p) = Wrote(A, w)

\* The shell reads a text in which nothing is special as itself.
LEMMA ReadsPlain ==
    ASSUME NEW Sym, NEW p \in Seq(Sym), p # <<>>, \A i \in 1..Len(p) : p[i] \notin Special
    PROVE  Reads(Sym, p, p)
<1> DEFINE n == Len(p)
<1>1. n \in Nat /\ n # 0 /\ n \in 0..n /\ SubSeq(p, 1, n) = p
  OBVIOUS
<1>2. SUFFICES ASSUME NEW A \in Seq(Seq(Sym)) PROVE After(Clean(A), p) = Wrote(A, p)
  BY DEF Reads
<1> DEFINE g == ShellScan(Clean(A), p)
<1>3. g[0] = Clean(A) /\ \A i \in 1..n : g[i] = ShellStep(g[i - 1], p[i])
  <2>1. Clean(A) \in ShellStates(Sym)
    <3>1. <<>> \in Seq(Sym)
      OBVIOUS
    <3> QED BY <3>1, StateTypes
  <2> QED BY <2>1, ShellScanned
<1>4. /\ \A i \in 1..n : SubSeq(p, 1, i) = Append(SubSeq(p, 1, i - 1), p[i])
      /\ SubSeq(p, 1, 0) = <<>>
  BY PrefixGrows
<1> HIDE DEF g, n
<1> DEFINE S == {i \in 0..n : i # 0 => g[i] = Wrote(A, SubSeq(p, 1, i))}
<1>5. 0 \in S
  BY <1>1
<1>6. ASSUME NEW i \in 0..(n - 1), i \in S PROVE i + 1 \in S
  <2>1. i + 1 \in 1..n /\ i + 1 \in 0..n /\ (i + 1) - 1 = i
    BY <1>1
  <2>2. g[i + 1] = ShellStep(g[i], p[i + 1]) /\ p[i + 1] \notin Special
    BY <1>3, <2>1 DEF n
  <2>3. SubSeq(p, 1, i + 1) = Append(SubSeq(p, 1, i), p[i + 1])
    BY <1>4, <2>1
  <2>4. g[i + 1] = Wrote(A, SubSeq(p, 1, i + 1))
    <3> DEFINE w == SubSeq(p, 1, i)
               r == p[i + 1]
    <3>0. w \in Seq(Sym) /\ r \in Sym
      BY <2>1 DEF n
    <3> HIDE DEF w
    <3>3. /\ ShellStep(Clean(A), r) = Wrote(A, Append(<<>>, r))
          /\ ShellStep(Wrote(A, w), r) = Wrote(A, Append(w, r))
      BY <2>2, <3>0, StepPlain
    <3>1. CASE i = 0
      <4>1. w = <<>>
        BY <1>4, <3>1 DEF w
      <4> QED BY <1>3, <2>2, <2>3, <3>1, <3>3, <4>1 DEF w
    <3>2. CASE i # 0
      <4>1. g[i] = Wrote(A, w)
        BY <1>6, <3>2 DEF w
      <4> QED BY <2>2, <2>3, <3>3, <4>1 DEF w
    <3> QED BY <3>1, <3>2
  <2> QED BY <2>1, <2>4
<1> HIDE DEF S
<1>7. 0..n \subseteq S
  BY <1>1, <1>5, <1>6, UpTo
<1>8. n \in S
  BY <1>1, <1>7
<1> QED BY <1>1, <1>8 DEF S, After, g, n

\* The shell reads a quoted text as that text: shellQuote is right for any text.
LEMMA ReadsQuoted ==
    ASSUME NEW Sym, {Apostrophe, Backslash} \subseteq Sym, NEW w \in Seq(Sym)
    PROVE  ShellQuote(w) \in Seq(Sym) /\ Reads(Sym, ShellQuote(w), w)
<1> DEFINE q == [i \in DOMAIN w |-> Escape(w[i])]
           a == <<Apostrophe>>
<1>1. Apostrophe \in Sym /\ a \in Seq(Sym) /\ <<>> \in Seq(Sym) /\ <<>> \in Seq(Seq(Sym))
  OBVIOUS
<1>2. \A i \in 1..Len(w) : Escape(w[i]) \in Seq(Sym)
  <2>1. ASSUME NEW i \in 1..Len(w) PROVE Escape(w[i]) \in Seq(Sym)
    <3>1. w[i] \in Sym
      OBVIOUS
    <3> QED BY <1>1, <3>1, AfterEscape
  <2> QED BY <2>1
<1>3. /\ q \in Seq(Seq(Sym)) /\ Len(q) = Len(w) /\ Len(w) \in Nat
      /\ \A i \in 1..Len(w) : q[i] = Escape(w[i])
  <2>1. DOMAIN w = 1..Len(w) /\ Len(w) \in Nat
    OBVIOUS
  <2>2. q \in [1..Len(w) -> Seq(Sym)]
    BY <1>2, <2>1
  <2> QED BY <2>1, <2>2
<1> HIDE DEF q
<1>4. /\ FlattenSeq(q) \in Seq(Sym)
      /\ \A A \in Seq(Seq(Sym)) : After(Quoted(A, <<>>), FlattenSeq(q)) = Quoted(A, w)
  <2>1. CASE w = <<>>
    <3>1. q = <<>>
      BY <1>3, <2>1
    <3>2. ASSUME NEW A \in Seq(Seq(Sym)) PROVE Quoted(A, <<>>) \in ShellStates(Sym)
      BY <1>1, Distinct DEF Quoted, ShellStates
    <3> QED BY <1>1, <2>1, <3>1, <3>2, FlattenNothing, AfterNothing
  <2>2. CASE w # <<>>
    <3>1. ASSUME NEW A \in Seq(Seq(Sym))
          PROVE  FlattenSeq(q) \in Seq(Sym) /\ After(Quoted(A, <<>>), FlattenSeq(q)) = Quoted(A, w)
      <4> DEFINE b == [i \in 0..Len(q) |-> Quoted(A, SubSeq(w, 1, i))]
      <4>1. ASSUME NEW i \in 0..Len(q) PROVE Quoted(A, SubSeq(w, 1, i)) \in ShellStates(Sym)
        <5>1. SubSeq(w, 1, i) \in Seq(Sym)
          BY <1>3
        <5> QED BY <5>1, Distinct DEF Quoted, ShellStates
      <4>2. b \in [0..Len(q) -> ShellStates(Sym)]
        BY <4>1
      <4>3. \A i \in 0..Len(q) : b[i] = Quoted(A, SubSeq(w, 1, i))
        OBVIOUS
      <4>4. b[0] = Quoted(A, <<>>) /\ b[Len(q)] = Quoted(A, w) /\ q # <<>>
        <5>1. SubSeq(w, 1, 0) = <<>> /\ SubSeq(w, 1, Len(w)) = w /\ Len(w) # 0
          BY <2>2
        <5>2. 0 \in 0..Len(q) /\ Len(q) \in 0..Len(q) /\ q # <<>>
          BY <1>3, <5>1
        <5> QED BY <1>3, <4>3, <5>1, <5>2
      <4>5. ASSUME NEW i \in 1..Len(q) PROVE After(b[i - 1], q[i]) = b[i]
        <5>1. i - 1 \in 0..Len(q) /\ i \in 0..Len(q) /\ i \in 1..Len(w) /\ w[i] \in Sym
          BY <1>3
        <5>2. SubSeq(w, 1, i - 1) \in Seq(Sym)
          BY <5>1, PrefixGrows
        <5>3. After(Quoted(A, SubSeq(w, 1, i - 1)), Escape(w[i]))
                 = Quoted(A, Append(SubSeq(w, 1, i - 1), w[i]))
          BY <5>1, <5>2, AfterEscape
        <5>4. SubSeq(w, 1, i) = Append(SubSeq(w, 1, i - 1), w[i])
          BY <5>1, PrefixGrows
        <5> QED BY <1>3, <4>3, <5>1, <5>3, <5>4
      <4> HIDE DEF b
      <4> QED BY <1>3, <4>2, <4>4, <4>5, AfterAll
    <3> QED BY <1>1, <3>1
  <2> QED BY <2>1, <2>2
<1>5. ShellQuote(w) = (a \o FlattenSeq(q)) \o a
  BY DEF ShellQuote, q
<1> HIDE DEF a
<1>6. a \o FlattenSeq(q) \in Seq(Sym) /\ (a \o FlattenSeq(q)) \o a \in Seq(Sym)
  BY <1>1, <1>4
<1>7. ASSUME NEW A \in Seq(Seq(Sym)) PROVE After(Clean(A), (a \o FlattenSeq(q)) \o a) = Wrote(A, w)
  <2>1. Clean(A) \in ShellStates(Sym) /\ Quoted(A, <<>>) \in ShellStates(Sym)
        /\ Quoted(A, w) \in ShellStates(Sym)
    BY <1>1, StateTypes, Distinct DEF Quoted, ShellStates
  <2>2. After(Clean(A), a) = Quoted(A, <<>>)
    <3>1. After(Clean(A), <<Apostrophe>>) = ShellStep(Clean(A), Apostrophe)
      BY <1>1, <2>1, AfterSymbol
    <3> QED BY <3>1, StepsQuoted DEF a
  <2>3. After(Quoted(A, w), a) = Wrote(A, w)
    <3>1. After(Quoted(A, w), <<Apostrophe>>) = ShellStep(Quoted(A, w), Apostrophe)
      BY <1>1, <2>1, AfterSymbol
    <3> QED BY <3>1, StepsQuoted DEF a
  <2>4. After(Clean(A), a \o FlattenSeq(q)) = Quoted(A, w)
    BY <1>1, <1>4, <2>1, <2>2, AfterBoth
  <2>5. After(Clean(A), (a \o FlattenSeq(q)) \o a) = After(After(Clean(A), a \o FlattenSeq(q)), a)
    BY <1>1, <1>6, <2>1, AfterBoth
  <2> QED BY <2>3, <2>4, <2>5
<1> QED BY <1>5, <1>6, <1>7 DEF Reads

-----------------------------------------------------------------------------
(* A line that is joined from parts.                                       *)

\* The words that came before are kept in front.
Behind(A, st) == [st EXCEPT !.args = A \o st.args]

\* A step does not look at the words that came before.
LEMMA StepBehind ==
    ASSUME NEW Sym, NEW A \in Seq(Seq(Sym)), NEW st \in ShellStates(Sym), NEW r
    PROVE  /\ ShellStep(Behind(A, st), r) = Behind(A, ShellStep(st, r))
           /\ ShellFlush(Behind(A, st)) = Behind(A, ShellFlush(st))
<1>1. st.args \in Seq(Seq(Sym)) /\ st.cur \in Seq(Sym)
  BY DEF ShellStates
<1>2. A \o Append(st.args, st.cur) = Append(A \o st.args, st.cur)
  <2>1. ASSUME NEW b \in Seq(Seq(Sym)), NEW x \in Seq(Sym)
        PROVE  A \o Append(b, x) = Append(A \o b, x)
    OBVIOUS
  <2> QED BY <1>1, <2>1
<1>3. ShellFlush(Behind(A, st)) = Behind(A, ShellFlush(st))
  BY <1>2 DEF ShellFlush, Behind, ShellStates
<1>4. ShellAdd(Behind(A, st), r) = Behind(A, ShellAdd(st, r))
  BY DEF ShellAdd, Behind, ShellStates
<1>5. /\ Behind(A, st).quote = st.quote /\ Behind(A, st).escaped = st.escaped
      /\ Behind(A, st).begun = st.begun
      /\ ShellMore(Behind(A, st)) = Behind(A, ShellMore(st))
      /\ [Behind(A, st) EXCEPT !.escaped = FALSE] = Behind(A, [st EXCEPT !.escaped = FALSE])
      /\ [Behind(A, st) EXCEPT !.quote = NoQuote] = Behind(A, [st EXCEPT !.quote = NoQuote])
      /\ [Behind(A, st) EXCEPT !.escaped = TRUE] = Behind(A, [st EXCEPT !.escaped = TRUE])
      /\ [Behind(A, st) EXCEPT !.quote = r, !.begun = TRUE]
            = Behind(A, [st EXCEPT !.quote = r, !.begun = TRUE])
  BY DEF Behind, ShellMore, ShellStates
<1>6. ShellQuoted(Behind(A, st), r) = Behind(A, ShellQuoted(st, r))
  BY <1>4, <1>5 DEF ShellQuoted
<1> QED BY <1>3, <1>4, <1>5, <1>6 DEF ShellStep

\* The state of the shell before its first symbol, with words in front.
LEMMA FreshBehind ==
    ASSUME NEW Sym, NEW A \in Seq(Seq(Sym)), NEW st \in ShellStates(Sym),
           st.args = <<>>, st.cur = <<>>, ~st.begun, st.quote = NoQuote, ~st.escaped, st.literal
    PROVE  Clean(A) = Behind(A, st)
<1> DEFINE u == Behind(A, st)
<1>1. A \o <<>> = A /\ A \in Seq(Seq(Sym)) /\ <<>> \in Seq(Sym)
  OBVIOUS
<1>2. u = [st EXCEPT !.args = A]
  BY <1>1, Zenon DEF Behind
<1>3. /\ [st EXCEPT !.args = A] \in ShellStates(Sym) /\ [st EXCEPT !.args = A].args = A
      /\ [st EXCEPT !.args = A].cur = st.cur /\ [st EXCEPT !.args = A].begun = st.begun
      /\ [st EXCEPT !.args = A].quote = st.quote /\ [st EXCEPT !.args = A].escaped = st.escaped
      /\ [st EXCEPT !.args = A].literal = st.literal
  BY DEF ShellStates
<1>4. st.begun = FALSE /\ st.escaped = FALSE /\ st.literal = TRUE
  BY DEF ShellStates
<1>5. /\ Clean(A) \in ShellStates(Sym) /\ Clean(A).args = A /\ Clean(A).cur = <<>>
      /\ Clean(A).begun = FALSE /\ Clean(A).quote = NoQuote /\ Clean(A).escaped = FALSE
      /\ Clean(A).literal = TRUE
  <2>1. Clean(A) \in ShellStates(Sym)
    BY <1>1, StateTypes
  <2> QED BY <2>1 DEF Clean
<1> HIDE DEF u
<1>6. /\ u \in ShellStates(Sym) /\ u.args = A /\ u.cur = <<>> /\ u.begun = FALSE
      /\ u.quote = NoQuote /\ u.escaped = FALSE /\ u.literal = TRUE
  BY <1>2, <1>3, <1>4
<1>7. Clean(A) = u
  BY <1>5, <1>6, SameFields
<1> QED BY <1>7 DEF u

\* The same for ShellStart.
LEMMA StartBehind ==
    ASSUME NEW Sym, NEW A \in Seq(Seq(Sym)) PROVE Clean(A) = Behind(A, ShellStart)
<1>1. /\ ShellStart.args = <<>> /\ ShellStart.cur = <<>> /\ ~ShellStart.begun
      /\ ShellStart.quote = NoQuote /\ ~ShellStart.escaped /\ ShellStart.literal
  BY DEF ShellStart
<1>2. ShellStart \in ShellStates(Sym)
  <2>1. <<>> \in Seq(Sym) /\ <<>> \in Seq(Seq(Sym))
    OBVIOUS
  <2> QED BY <2>1 DEF ShellStart, ShellStates
<1> HIDE DEF ShellStart
<1> QED BY <1>1, <1>2, FreshBehind

\* What the shell makes of a text does not depend on the words before it.
LEMMA WordsBehind ==
    ASSUME NEW Sym, NEW s \in Seq(Sym), NEW A \in Seq(Seq(Sym))
    PROVE  /\ ShellFlush(After(Clean(A), s)).args = A \o ShellFlush(After(ShellStart, s)).args
           /\ After(Clean(A), s).literal = After(ShellStart, s).literal
           /\ After(Clean(A), s).quote = After(ShellStart, s).quote
           /\ After(Clean(A), s).escaped = After(ShellStart, s).escaped
           /\ ShellFlush(After(ShellStart, s)).args \in Seq(Seq(Sym))
<1> DEFINE f == ShellScan(Clean(A), s)
           g == ShellScan(ShellStart, s)
           n == Len(s)
<1>1. /\ Clean(A) \in ShellStates(Sym) /\ ShellStart \in ShellStates(Sym)
      /\ Clean(A) = Behind(A, ShellStart)
  <2>1. A \o <<>> = A /\ <<>> \in Seq(Sym)
    OBVIOUS
  <2>2. Clean(A) = Behind(A, ShellStart)
    BY StartBehind
  <2>3. <<>> \in Seq(Seq(Sym)) /\ ShellStart = Clean(<<>>)
    BY <2>1, StateTypes
  <2>4. Clean(A) \in ShellStates(Sym) /\ Clean(<<>>) \in ShellStates(Sym)
    BY <2>1, <2>3, StateTypes
  <2> QED BY <2>2, <2>3, <2>4
<1>2. f[0] = Clean(A) /\ \A i \in 1..n : f[i] = ShellStep(f[i - 1], s[i])
  BY <1>1, ShellScanned
<1>3. /\ g \in [0..n -> ShellStates(Sym)] /\ g[0] = ShellStart
      /\ \A i \in 1..n : g[i] = ShellStep(g[i - 1], s[i])
  BY <1>1, ShellScanned
<1>4. n \in Nat
  OBVIOUS
<1> HIDE DEF f, g, n
<1>5. \A i \in 0..n : f[i] = Behind(A, g[i])
  <2> DEFINE S == {i \in 0..n : f[i] = Behind(A, g[i])}
  <2>1. 0 \in S
    BY <1>1, <1>2, <1>3, <1>4
  <2>2. ASSUME NEW i \in 0..(n - 1), i \in S PROVE i + 1 \in S
    <3>1. i + 1 \in 0..n /\ i + 1 \in 1..n /\ (i + 1) - 1 = i /\ g[i] \in ShellStates(Sym)
      BY <1>3, <1>4
    <3>2. f[i + 1] = ShellStep(f[i], s[i + 1]) /\ g[i + 1] = ShellStep(g[i], s[i + 1])
      BY <1>2, <1>3, <3>1
    <3> QED BY <2>2, <3>1, <3>2, StepBehind
  <2> HIDE DEF S
  <2>3. 0..n \subseteq S
    BY <1>4, <2>1, <2>2, UpTo
  <2> QED BY <2>3 DEF S
<1>6. f[n] = Behind(A, g[n]) /\ g[n] \in ShellStates(Sym)
  BY <1>3, <1>4, <1>5
<1>7. ShellFlush(f[n]) = Behind(A, ShellFlush(g[n]))
  BY <1>6, StepBehind
<1>8. ShellFlush(g[n]) \in [args : Seq(Seq(Sym)), cur : Seq(Sym), begun : BOOLEAN,
                            quote : Quotes \cup {NoQuote}, escaped : BOOLEAN, literal : BOOLEAN]
  <2>1. Append(g[n].args, g[n].cur) \in Seq(Seq(Sym)) /\ <<>> \in Seq(Sym)
    BY <1>6 DEF ShellStates
  <2> QED BY <1>6, <2>1 DEF ShellFlush, ShellStates
<1>9. ShellFlush(f[n]).args = A \o ShellFlush(g[n]).args
  BY <1>7, <1>8 DEF Behind
<1>10. f[n].literal = g[n].literal /\ f[n].quote = g[n].quote /\ f[n].escaped = g[n].escaped
  BY <1>6 DEF Behind, ShellStates
<1> QED BY <1>8, <1>9, <1>10 DEF After, f, g, n

\* The shell reads each of the parts as one word.
ReadAll(Sym, parts, ws) ==
    /\ parts \in Seq(Seq(Sym)) /\ ws \in Seq(Seq(Sym)) /\ Len(parts) = Len(ws)
    /\ \A i \in 1..Len(ws) : Reads(Sym, parts[i], ws[i])

\* Two lists of parts that are read as words are so together.
LEMMA ReadBoth ==
    ASSUME NEW Sym, NEW p1, NEW w1, NEW p2, NEW w2, ReadAll(Sym, p1, w1), ReadAll(Sym, p2, w2)
    PROVE  ReadAll(Sym, p1 \o p2, w1 \o w2)
<1>1. p1 \in Seq(Seq(Sym)) /\ w1 \in Seq(Seq(Sym)) /\ p2 \in Seq(Seq(Sym)) /\ w2 \in Seq(Seq(Sym))
  BY DEF ReadAll
<1>2. /\ p1 \o p2 \in Seq(Seq(Sym)) /\ Len(p1 \o p2) = Len(p1) + Len(p2)
      /\ \A i \in 1..Len(p1) : (p1 \o p2)[i] = p1[i]
      /\ \A i \in 1..Len(p2) : (p1 \o p2)[Len(p1) + i] = p2[i]
  <2>1. p1 \in Seq(Seq(Sym))
    BY <1>1
  <2>2. p2 \in Seq(Seq(Sym))
    BY <1>1
  <2> QED BY <2>1, <2>2, Concatenated
<1>3. /\ w1 \o w2 \in Seq(Seq(Sym)) /\ Len(w1 \o w2) = Len(w1) + Len(w2)
      /\ \A i \in 1..Len(w1) : (w1 \o w2)[i] = w1[i]
      /\ \A i \in 1..Len(w2) : (w1 \o w2)[Len(w1) + i] = w2[i]
      /\ Len(w1) \in Nat /\ Len(w2) \in Nat
  <2>1. w1 \in Seq(Seq(Sym))
    BY <1>1
  <2>2. w2 \in Seq(Seq(Sym))
    BY <1>1
  <2> QED BY <2>1, <2>2, Concatenated
<1>4. Len(p1) = Len(w1) /\ Len(p2) = Len(w2)
  BY DEF ReadAll
<1> DEFINE p == p1 \o p2
           w == w1 \o w2
           m == Len(w1)
           n == Len(w2)
<1>5. ASSUME NEW i \in 1..Len(w) PROVE Reads(Sym, p[i], w[i])
  <2>1. m \in Nat /\ n \in Nat /\ Len(w) = m + n
    BY <1>3
  <2>2. /\ \A k \in 1..m : p[k] = p1[k] /\ w[k] = w1[k] /\ Reads(Sym, p1[k], w1[k])
        /\ \A k \in 1..n : p[m + k] = p2[k] /\ w[m + k] = w2[k] /\ Reads(Sym, p2[k], w2[k])
    BY <1>2, <1>3, <1>4 DEF ReadAll
  <2> HIDE DEF p, w, m, n
  <2>3. i \in 1..m \/ (i - m \in 1..n /\ m + (i - m) = i)
    BY <2>1
  <2> QED BY <2>2, <2>3
<1> QED BY <1>2, <1>3, <1>4, <1>5 DEF ReadAll

\* Texts in which nothing is special are read as themselves.
LEMMA ReadTexts ==
    ASSUME NEW Sym, NEW ws \in Seq(Seq(Sym) \ {<<>>}),
           \A i \in 1..Len(ws) : \A k \in 1..Len(ws[i]) : ws[i][k] \notin Special
    PROVE  ReadAll(Sym, ws, ws)
<1>1. ws \in Seq(Seq(Sym)) /\ \A i \in 1..Len(ws) : ws[i] \in Seq(Sym) /\ ws[i] # <<>>
  OBVIOUS
<1>2. ASSUME NEW i \in 1..Len(ws) PROVE Reads(Sym, ws[i], ws[i])
  BY <1>1, ReadsPlain
<1> QED BY <1>1, <1>2 DEF ReadAll

\* So are the quoted extra flags.
LEMMA ReadFlags ==
    ASSUME NEW Sym, {Apostrophe, Backslash} \subseteq Sym, NEW extra \in Seq(Seq(Sym))
    PROVE  ReadAll(Sym, [i \in DOMAIN extra |-> ShellQuote(extra[i])], extra)
<1> DEFINE q == [i \in DOMAIN extra |-> ShellQuote(extra[i])]
<1>1. DOMAIN extra = 1..Len(extra) /\ Len(extra) \in Nat /\ \A i \in 1..Len(extra) : extra[i] \in Seq(Sym)
  OBVIOUS
<1>2. ASSUME NEW i \in 1..Len(extra)
      PROVE  ShellQuote(extra[i]) \in Seq(Sym) /\ Reads(Sym, ShellQuote(extra[i]), extra[i])
  <2>1. extra[i] \in Seq(Sym)
    BY <1>1
  <2> QED BY <2>1, ReadsQuoted
<1>3. q \in [1..Len(extra) -> Seq(Sym)] /\ \A i \in 1..Len(extra) : q[i] = ShellQuote(extra[i])
  BY <1>1, <1>2
<1> HIDE DEF q
<1>4. q \in Seq(Seq(Sym)) /\ Len(q) = Len(extra)
  <2>1. ASSUME NEW T, NEW n \in Nat, NEW t \in [1..n -> T] PROVE t \in Seq(T) /\ Len(t) = n
    OBVIOUS
  <2> QED BY <1>1, <1>3, <2>1
<1> QED BY <1>2, <1>3, <1>4 DEF ReadAll, q

\* A line of parts that the shell reads as words, the first of them the name of a
\* command, and a rest that is words to it, are these words and those of the rest.
LEMMA JoinedWords ==
    ASSUME NEW Sym, Blank \in Sym, NEW parts \in Seq(Seq(Sym)), NEW ws \in Seq(Seq(Sym)),
           NEW rest \in Seq(Sym), ws # <<>>, Len(parts) = Len(ws),
           \A i \in 1..Len(ws) : Reads(Sym, parts[i], ws[i]),
           ToSet(ws[1]) \cap Leading = {}, ShellWords(rest).ok
    PROVE  ShellWords(JoinBlank(parts \o <<rest>>)) = Ok(ws \o ShellWords(rest).argv)
<1> DEFINE n == Len(ws)
           all == parts \o <<rest>>
           q == [i \in DOMAIN all |-> IF i = 1 THEN all[i] ELSE <<Blank>> \o all[i]]
           B(i) == IF i = 0 THEN Clean(<<>>)
                   ELSE IF i = n + 1 THEN After(Clean(ws), rest)
                   ELSE Wrote(SubSeq(ws, 1, i - 1), ws[i])
           b == [i \in 0..(n + 1) |-> B(i)]
<1>1. /\ n \in Nat /\ n # 0 /\ n > 0
      /\ all \in Seq(Seq(Sym)) /\ Len(all) = n + 1 /\ all[n + 1] = rest
      /\ \A i \in 1..n : all[i] = parts[i] /\ parts[i] \in Seq(Sym) /\ ws[i] \in Seq(Sym)
  OBVIOUS
<1>2. <<Blank>> \in Seq(Sym) /\ <<>> \in Seq(Sym) /\ <<>> \in Seq(Seq(Sym)) /\ DOMAIN all = 1..(n + 1)
  BY <1>1
<1> HIDE DEF all
<1>3. \A i \in 1..(n + 1) : all[i] \in Seq(Sym)
  BY <1>1
<1>4. \A i \in 1..(n + 1) : (IF i = 1 THEN all[i] ELSE <<Blank>> \o all[i]) \in Seq(Sym)
  BY <1>2, <1>3
<1>5. q \in Seq(Seq(Sym)) /\ Len(q) = n + 1
  BY <1>1, <1>2, <1>4
<1>6. q[1] = all[1] /\ \A i \in 2..(n + 1) : q[i] = <<Blank>> \o all[i]
  BY <1>1, <1>2
<1>7. \A i \in 0..n : SubSeq(ws, 1, i) \in Seq(Seq(Sym))
  BY <1>1
<1>8. ASSUME NEW i \in 0..(n + 1) PROVE B(i) \in ShellStates(Sym)
  <2>1. CASE i = 0
    BY <1>2, <2>1, StateTypes
  <2>2. CASE i = n + 1
    <3>1. After(Clean(ws), rest) \in ShellStates(Sym)
      BY <1>2, StateTypes, AfterType
    <3> QED BY <1>1, <2>2, <3>1
  <2>3. CASE i # 0 /\ i # n + 1
    <3>1. SubSeq(ws, 1, i - 1) \in Seq(Seq(Sym)) /\ ws[i] \in Seq(Sym)
      BY <1>1, <1>7, <2>3
    <3>2. Wrote(SubSeq(ws, 1, i - 1), ws[i]) \in ShellStates(Sym)
      BY <3>1, StateTypes
    <3> QED BY <2>3, <3>2
  <2> QED BY <2>1, <2>2, <2>3
<1>9. /\ b \in [0..(n + 1) -> ShellStates(Sym)]
      /\ b[0] = Clean(<<>>) /\ b[n + 1] = After(Clean(ws), rest)
      /\ \A i \in 1..n : b[i] = Wrote(SubSeq(ws, 1, i - 1), ws[i])
  <2>1. \A i \in 0..(n + 1) : b[i] = B(i)
    OBVIOUS
  <2>2. b \in [0..(n + 1) -> ShellStates(Sym)]
    BY <1>8
  <2>3. /\ n + 1 \in 0..(n + 1) /\ 0 \in 0..(n + 1) /\ n + 1 # 0
        /\ \A i \in 1..n : i \in 0..(n + 1) /\ i # 0 /\ i # n + 1
    BY <1>1
  <2> HIDE DEF b, n
  <2> QED BY <2>1, <2>2, <2>3
<1> HIDE DEF q, b, B
<1>10. \A i \in 1..n : \A A \in Seq(Seq(Sym)) : After(Clean(A), all[i]) = Wrote(A, ws[i])
  BY <1>1 DEF Reads
<1>11. ASSUME NEW i \in 1..Len(q) PROVE After(b[i - 1], q[i]) = b[i]
  <2>1. CASE i = 1
    <3>1. SubSeq(ws, 1, 0) = <<>> /\ 1 \in 1..n
      BY <1>1
    <3>2. b[i - 1] = Clean(<<>>) /\ b[i] = Wrote(<<>>, ws[1]) /\ q[i] = all[1]
      <4>1. i - 1 = 0 /\ 1 - 1 = 0
        BY <2>1
      <4>2. b[1] = Wrote(SubSeq(ws, 1, 0), ws[1])
        BY <1>9, <3>1, <4>1
      <4> QED BY <1>6, <1>9, <2>1, <3>1, <4>1, <4>2
    <3>3. After(Clean(<<>>), all[1]) = Wrote(<<>>, ws[1])
      BY <1>2, <1>10, <3>1
    <3> QED BY <3>2, <3>3
  <2>2. CASE i # 1
    <3>1. /\ i - 1 \in 1..n /\ i \in 2..(n + 1) /\ i \in 1..(n + 1)
          /\ (i - 1) - 1 \in 0..n /\ i - 1 \in 0..n
      BY <1>1, <1>5, <2>2
    <3> DEFINE A == SubSeq(ws, 1, (i - 1) - 1)
               w == ws[i - 1]
               p == all[i]
    <3>2. b[i - 1] = Wrote(A, w) /\ q[i] = <<Blank>> \o p
      BY <1>6, <1>9, <3>1
    <3>3. A \in Seq(Seq(Sym)) /\ w \in Seq(Sym) /\ p \in Seq(Sym)
      BY <1>1, <1>3, <1>7, <3>1
    <3>4. Append(A, w) = SubSeq(ws, 1, i - 1)
      <4>1. i - 1 \in 1..Len(ws)
        BY <3>1
      <4> QED BY <4>1, PrefixGrows
    <3> HIDE DEF A, w, p
    <3>5. After(b[i - 1], q[i]) = After(Clean(SubSeq(ws, 1, i - 1)), p)
      <4>1. After(Wrote(A, w), <<Blank>> \o p) = After(Clean(Append(A, w)), p)
        BY <3>3, AfterNext
      <4> QED BY <3>2, <3>4, <4>1
    <3>6. CASE i = n + 1
      <4>1. SubSeq(ws, 1, i - 1) = ws /\ p = rest
        BY <1>1, <3>6 DEF p
      <4> QED BY <1>9, <3>5, <3>6, <4>1
    <3>7. CASE i # n + 1
      <4>1. i \in 1..n /\ SubSeq(ws, 1, i - 1) \in Seq(Seq(Sym))
        <5>1. i \in 1..n
          BY <1>1, <3>1, <3>7
        <5> QED BY <1>7, <3>1, <5>1
      <4>2. After(Clean(SubSeq(ws, 1, i - 1)), p) = Wrote(SubSeq(ws, 1, i - 1), ws[i])
        BY <1>10, <4>1 DEF p
      <4> QED BY <1>9, <3>5, <4>1, <4>2
    <3> QED BY <3>6, <3>7
  <2> QED BY <2>1, <2>2
<1>12. q # <<>>
  BY <1>1, <1>5
<1>13. /\ FlattenSeq(q) \in Seq(Sym)
       /\ After(b[0], FlattenSeq(q)) = b[Len(q)]
  BY <1>5, <1>9, <1>11, <1>12, AfterAll
<1>14. JoinBlank(all) = FlattenSeq(q)
  BY DEF JoinBlank, q
<1>15. ShellStart = Clean(<<>>)
  BY <1>2, StateTypes
<1> DEFINE e == After(ShellStart, FlattenSeq(q))
           r == After(ShellStart, rest)
           words == ShellFlush(e).args
           last == ShellFlush(r).args
<1>16. e = After(Clean(ws), rest)
  BY <1>5, <1>9, <1>13, <1>15
<1>17. /\ words = ws \o last /\ last \in Seq(Seq(Sym))
       /\ e.literal = r.literal /\ e.quote = r.quote /\ e.escaped = r.escaped
  <2>1. ws \in Seq(Seq(Sym)) /\ rest \in Seq(Sym)
    OBVIOUS
  <2>2. /\ ShellFlush(After(Clean(ws), rest)).args = ws \o last
        /\ After(Clean(ws), rest).literal = r.literal
        /\ After(Clean(ws), rest).quote = r.quote
        /\ After(Clean(ws), rest).escaped = r.escaped
        /\ last \in Seq(Seq(Sym))
    BY <2>1, WordsBehind
  <2> HIDE DEF e, r
  <2> QED BY <1>16, <2>2
<1>18. /\ ShellWords(rest) = Ok(last)
       /\ r.literal /\ r.quote = NoQuote /\ ~r.escaped
  BY DEF ShellWords, After, Failed, Ok
<1>19. ShellWords(JoinBlank(all)) =
          IF /\ e.literal /\ e.quote = NoQuote /\ ~e.escaped
             /\ words # <<>> => ToSet(words[1]) \cap Leading = {}
          THEN Ok(words) ELSE Failed
  BY <1>14 DEF ShellWords, After
<1> HIDE DEF e, r, words, last
<1>20. words[1] = ws[1]
  BY <1>17
<1> QED BY <1>17, <1>18, <1>19, <1>20 DEF all, Ok

-----------------------------------------------------------------------------
(* splitExec and the shell, side by side.                                  *)

\* The shell has an empty word, which splitExec never makes.
HasEmptyWord(sh) == \E k \in 1..Len(sh.args) : sh.args[k] = <<>>

\* What the two have made of the same symbols.
Alike(st, sh) ==
    /\ st.args = sh.args /\ st.cur = sh.cur /\ st.quote = sh.quote
    /\ ~sh.escaped
    /\ st.cur # <<>> \/ st.quote # NoQuote => sh.begun

\* The shell has made more of the text than its words, or an empty one.
Parted(sh) == HasEmptyWord(sh) \/ ~sh.literal

\* An empty word stays among the words, and what was more than text was so.
LEMMA PartedStays ==
    ASSUME NEW Sym, NEW sh \in ShellStates(Sym), Parted(sh), NEW r
    PROVE  Parted(ShellStep(sh, r)) /\ Parted(ShellFlush(sh))
<1>1. ASSUME HasEmptyWord(sh), NEW t, t.args = sh.args \/ t.args = Append(sh.args, sh.cur)
      PROVE  HasEmptyWord(t)
  <2> DEFINE a == sh.args
             b == t.args
  <2>1. PICK k \in 1..Len(a) : a[k] = <<>>
    BY <1>1 DEF HasEmptyWord
  <2>2. a \in Seq(Seq(Sym)) /\ sh.cur \in Seq(Sym) /\ (b = a \/ b = Append(a, sh.cur))
    BY <1>1 DEF ShellStates
  <2>3. CASE b = a
    BY <2>1, <2>3 DEF HasEmptyWord
  <2>4. CASE b = Append(a, sh.cur)
    <3>1. ASSUME NEW T, NEW x \in Seq(T), NEW y \in T, NEW j \in 1..Len(x)
          PROVE  j \in 1..Len(Append(x, y)) /\ Append(x, y)[j] = x[j]
      BY <3>1
    <3> HIDE DEF a, b
    <3>2. a \in Seq(Seq(Sym)) /\ sh.cur \in Seq(Sym)
      BY <2>2
    <3>3. k \in 1..Len(Append(a, sh.cur)) /\ Append(a, sh.cur)[k] = a[k]
      BY <2>1, <3>1, <3>2
    <3>4. k \in 1..Len(b) /\ b[k] = <<>>
      BY <2>1, <2>4, <3>3
    <3> QED BY <3>4 DEF HasEmptyWord, b
  <2> QED BY <2>2, <2>3, <2>4
<1>2. /\ ShellFlush(sh).args \in {sh.args, Append(sh.args, sh.cur)}
      /\ ShellFlush(sh).literal = sh.literal
  BY DEF ShellFlush, ShellStates
<1>3. /\ ShellAdd(sh, r).args = sh.args /\ ShellAdd(sh, r).literal = sh.literal
      /\ ShellMore(sh).args = sh.args /\ ShellMore(sh).literal = FALSE
  BY DEF ShellAdd, ShellMore, ShellStates
<1>4. /\ [sh EXCEPT !.quote = NoQuote].args = sh.args
      /\ [sh EXCEPT !.quote = NoQuote].literal = sh.literal
      /\ [sh EXCEPT !.escaped = TRUE].args = sh.args
      /\ [sh EXCEPT !.escaped = TRUE].literal = sh.literal
      /\ [sh EXCEPT !.escaped = FALSE].args = sh.args
      /\ [sh EXCEPT !.escaped = FALSE].literal = sh.literal
      /\ [sh EXCEPT !.quote = r, !.begun = TRUE].args = sh.args
      /\ [sh EXCEPT !.quote = r, !.begun = TRUE].literal = sh.literal
  BY DEF ShellStates
<1>5. /\ ShellQuoted(sh, r).args = sh.args
      /\ ~sh.literal => ~ShellQuoted(sh, r).literal
  BY <1>3, <1>4 DEF ShellQuoted
<1>6. /\ ShellStep(sh, r).args \in {sh.args, Append(sh.args, sh.cur)}
      /\ ~sh.literal => ~ShellStep(sh, r).literal
  BY <1>2, <1>3, <1>4, <1>5 DEF ShellStep
<1> QED BY <1>1, <1>2, <1>6 DEF Parted

\* At a blank or at the end both have the same word, or the shell an empty one.
LEMMA FlushBoth ==
    ASSUME NEW Sym, NEW st \in SplitStates(Sym), NEW sh \in ShellStates(Sym),
           Alike(st, sh), st.quote = NoQuote
    PROVE  Alike(SplitFlush(st), ShellFlush(sh)) \/ HasEmptyWord(ShellFlush(sh))
<1>1. sh.args \in Seq(Seq(Sym)) /\ sh.cur \in Seq(Sym)
  BY DEF ShellStates
<1>2. CASE sh.begun /\ sh.cur = <<>>
  <2>1. ShellFlush(sh).args = Append(sh.args, <<>>)
    BY <1>2 DEF ShellFlush, ShellStates
  <2>2. Len(sh.args) + 1 \in 1..Len(Append(sh.args, <<>>)) /\ Append(sh.args, <<>>)[Len(sh.args) + 1] = <<>>
    BY <1>1
  <2> QED BY <2>1, <2>2 DEF HasEmptyWord
<1>3. CASE sh.begun /\ sh.cur # <<>>
  <2>1. /\ ShellFlush(sh).args = Append(sh.args, sh.cur) /\ ShellFlush(sh).cur = <<>>
        /\ ShellFlush(sh).quote = sh.quote /\ ShellFlush(sh).escaped = sh.escaped
    BY <1>3 DEF ShellFlush, ShellStates
  <2>2. /\ SplitFlush(st).args = Append(st.args, st.cur) /\ SplitFlush(st).cur = <<>>
        /\ SplitFlush(st).quote = st.quote
    BY <1>3 DEF SplitFlush, SplitStates, Alike
  <2> QED BY <2>1, <2>2 DEF Alike
<1>4. CASE ~sh.begun
  BY <1>4 DEF Alike, SplitFlush, ShellFlush
<1> QED BY <1>2, <1>3, <1>4

\* The same symbol keeps the two alike, or parts them for good.
LEMMA StepBoth ==
    ASSUME NEW Sym, NEW st \in SplitStates(Sym), NEW sh \in ShellStates(Sym),
           Alike(st, sh), NEW r \in Sym, r # NoQuote, r # Backslash, r # Tab
    PROVE  Alike(SplitStep(st, r), ShellStep(sh, r)) \/ Parted(ShellStep(sh, r))
<1>1. /\ ~sh.escaped /\ sh.quote = st.quote /\ NoQuote \notin Quotes
  BY Distinct DEF Alike
<1>2. CASE st.quote = r
  <2>1. /\ SplitStep(st, r) = [st EXCEPT !.quote = NoQuote]
        /\ ShellStep(sh, r) = [sh EXCEPT !.quote = NoQuote]
    BY <1>1, <1>2 DEF SplitStep, ShellStep, ShellQuoted
  <2>2. sh.begun
    BY <1>2 DEF Alike
  <2> QED BY <2>1, <2>2 DEF Alike, SplitStates, ShellStates
<1>3. CASE st.quote = NoQuote /\ r \in Quotes
  <2>1. /\ SplitStep(st, r) = [st EXCEPT !.quote = r]
        /\ ShellStep(sh, r) = [sh EXCEPT !.quote = r, !.begun = TRUE]
    BY <1>1, <1>3 DEF SplitStep, ShellStep
  <2> QED BY <2>1 DEF Alike, SplitStates, ShellStates
<1>4. CASE st.quote = NoQuote /\ r = Blank
  <2>1. r \notin Quotes
    BY <1>4, Distinct
  <2>2. SplitStep(st, r) = SplitFlush(st) /\ ShellStep(sh, r) = ShellFlush(sh)
    BY <1>1, <1>4, <2>1 DEF SplitStep, ShellStep
  <2> QED BY <1>4, <2>2, FlushBoth DEF Parted
<1>5. CASE st.quote # r /\ ~(st.quote = NoQuote /\ r \in Quotes) /\ ~(st.quote = NoQuote /\ r = Blank)
  <2>1. SplitStep(st, r) = [st EXCEPT !.cur = Append(st.cur, r)]
    BY <1>5 DEF SplitStep
  <2>2. ShellStep(sh, r) = ShellAdd(sh, r) \/ ShellStep(sh, r) = ShellMore(sh)
    BY <1>1, <1>5 DEF ShellStep, ShellQuoted
  <2>3. CASE ShellStep(sh, r) = ShellMore(sh)
    <3>1. ~ShellMore(sh).literal
      BY DEF ShellMore, ShellStates
    <3> QED BY <2>3, <3>1 DEF Parted
  <2>4. CASE ShellStep(sh, r) = ShellAdd(sh, r)
    <3>1. /\ ShellAdd(sh, r).args = sh.args /\ ShellAdd(sh, r).cur = Append(sh.cur, r)
          /\ ShellAdd(sh, r).begun /\ ShellAdd(sh, r).quote = sh.quote /\ ~ShellAdd(sh, r).escaped
      BY AddFields
    <3>2. /\ SplitStep(st, r).args = st.args /\ SplitStep(st, r).cur = Append(st.cur, r)
          /\ SplitStep(st, r).quote = st.quote
      BY <2>1 DEF SplitStates
    <3> QED BY <2>4, <3>1, <3>2 DEF Alike
  <2> QED BY <2>2, <2>3, <2>4
<1> QED BY <1>2, <1>3, <1>4, <1>5

\* splitExec and the shell make the same words of a text that has no backslash and
\* no tab and that the shell takes for words none of which is empty.
LEMMA SplitAsShell ==
    ASSUME NEW Sym, Sym \cap {NoQuote, Backslash, Tab} = {}, NEW s \in Seq(Sym),
           ShellWords(s).ok, <<>> \notin ToSet(ShellWords(s).argv)
    PROVE  SplitExec(s) = ShellWords(s) /\ SplitExec(s).ok
<1> DEFINE n == Len(s)
           f == SplitScan(s)
           g == ShellScan(ShellStart, s)
<1>1. n \in Nat /\ n \in 0..n /\ \A i \in 1..n : s[i] \in Sym
  OBVIOUS
<1>2. /\ f \in [0..n -> SplitStates(Sym)] /\ f[0] = SplitStart
      /\ \A i \in 1..n : f[i] = SplitStep(f[i - 1], s[i])
  BY SplitScanned
<1>3. /\ g \in [0..n -> ShellStates(Sym)] /\ g[0] = ShellStart
      /\ \A i \in 1..n : g[i] = ShellStep(g[i - 1], s[i])
  <2>1. ShellStart \in ShellStates(Sym)
    <3>1. <<>> \in Seq(Sym) /\ <<>> \in Seq(Seq(Sym))
      OBVIOUS
    <3> QED BY <3>1 DEF ShellStart, ShellStates
  <2> QED BY <2>1, ShellScanned
<1>4. SplitExec(s) = IF f[n].quote # NoQuote THEN Failed ELSE Ok(SplitFlush(f[n]).args)
  BY DEF SplitExec
<1>5. ShellWords(s) = Ok(ShellFlush(g[n]).args) /\ g[n].literal /\ g[n].quote = NoQuote
  BY DEF ShellWords, Failed, Ok
<1> HIDE DEF f, g, n
<1>6. Alike(f[n], g[n]) \/ Parted(g[n])
  <2> DEFINE S == {i \in 0..n : Alike(f[i], g[i]) \/ Parted(g[i])}
  <2>1. 0 \in S
    <3>1. Alike(SplitStart, ShellStart)
      BY DEF Alike, SplitStart, ShellStart
    <3> QED BY <1>1, <1>2, <1>3, <3>1
  <2>2. ASSUME NEW i \in 0..(n - 1), i \in S PROVE i + 1 \in S
    <3>1. i + 1 \in 1..n /\ i + 1 \in 0..n /\ (i + 1) - 1 = i /\ i \in 0..n
      BY <1>1
    <3>2. f[i + 1] = SplitStep(f[i], s[i + 1]) /\ g[i + 1] = ShellStep(g[i], s[i + 1])
      BY <1>2, <1>3, <3>1
    <3>3. f[i] \in SplitStates(Sym) /\ g[i] \in ShellStates(Sym)
      BY <1>2, <1>3, <3>1
    <3>4. s[i + 1] \in Sym /\ s[i + 1] # NoQuote /\ s[i + 1] # Backslash /\ s[i + 1] # Tab
      BY <1>1, <3>1
    <3>5. Alike(f[i], g[i]) \/ Parted(g[i])
      BY <2>2
    <3>6. Alike(f[i + 1], g[i + 1]) \/ Parted(g[i + 1])
      BY <3>2, <3>3, <3>4, <3>5, StepBoth, PartedStays
    <3> QED BY <3>1, <3>6
  <2> HIDE DEF S
  <2>3. 0..n \subseteq S
    BY <1>1, <2>1, <2>2, UpTo
  <2> QED BY <1>1, <2>3 DEF S
<1>7. f[n] \in SplitStates(Sym) /\ g[n] \in ShellStates(Sym)
  BY <1>1, <1>2, <1>3
<1>8. ~Parted(ShellFlush(g[n]))
  <2>1. ShellFlush(g[n]).args \in Seq(Seq(Sym)) /\ ShellFlush(g[n]).literal = g[n].literal
    <3>1. Append(g[n].args, g[n].cur) \in Seq(Seq(Sym)) /\ <<>> \in Seq(Sym)
      BY <1>7 DEF ShellStates
    <3> QED BY <1>7, <3>1 DEF ShellFlush, ShellStates
  <2>2. <<>> \notin ToSet(ShellFlush(g[n]).args)
    BY <1>5 DEF Ok
  <2> QED BY <1>5, <2>1, <2>2 DEF Parted, HasEmptyWord, ToSet
<1>9. Alike(f[n], g[n])
  BY <1>6, <1>7, <1>8, PartedStays
<1>10. f[n].quote = NoQuote
  BY <1>5, <1>9 DEF Alike
<1>11. Alike(SplitFlush(f[n]), ShellFlush(g[n]))
  BY <1>7, <1>8, <1>9, <1>10, FlushBoth DEF Parted
<1> QED BY <1>4, <1>5, <1>10, <1>11 DEF Alike, Ok

-----------------------------------------------------------------------------
(* The options that the two programs give to gamescope.                    *)

\* The switches are options.
LEMMA SwitchesType == ASSUME NEW gs PROVE SwitchesOf(gs) \in Seq(Plain)
<1> DEFINE q == [i \in DOMAIN Switches |-> IF Switches[i] \in gs.on THEN <<Switches[i]>> ELSE <<>>]
<1>1. Switches \in Seq(Literals) /\ Len(Switches) = 6
  BY DEF Switches, Literals
<1>2. \A i \in 1..6 : Switches[i] \in Plain
  <2> HIDE DEF Switches, Literals, Plain
  <2>1. \A i \in 1..Len(Switches) : Switches[i] \in Literals
    <3>1. ASSUME NEW S, NEW t \in Seq(S) PROVE \A i \in 1..Len(t) : t[i] \in S
      OBVIOUS
    <3> QED BY <1>1, <3>1, Zenon
  <2> QED BY <1>1, <2>1, LiteralsPlain
<1>3. \A i \in 1..6 : (IF Switches[i] \in gs.on THEN <<Switches[i]>> ELSE <<>>) \in Seq(Plain)
  BY <1>2
<1>4. q \in Seq(Seq(Plain)) /\ Len(q) = 6
  <2>1. DOMAIN Switches = 1..6
    BY <1>1
  <2> HIDE DEF Switches
  <2>2. q \in [1..6 -> Seq(Plain)]
    BY <1>3, <2>1
  <2> QED BY <2>2
<1>5. SwitchesOf(gs) = FlattenSeq(q)
  BY DEF SwitchesOf
<1> HIDE DEF q
<1>6. q # <<>> /\ 6 \in 1..6
  BY <1>4
<1>7. PICK f \in [1..Len(q) -> Seq(Plain)] : FlattenSeq(q) = f[Len(q)]
  BY <1>4, <1>6, Flattened
<1> QED BY <1>4, <1>5, <1>6, <1>7

\* Symbols as texts of their own.
LEMMA SinglesType ==
    ASSUME NEW S, NEW t \in Seq(S)
    PROVE  /\ Single(t) \in Seq(Seq(S) \ {<<>>})
           /\ Single(t) \in Seq(Seq(S))
           /\ t # <<>> => Single(t) # <<>> /\ Single(t)[1] = <<t[1]>>
<1>1. DOMAIN t = 1..Len(t) /\ Len(t) \in Nat /\ \A i \in 1..Len(t) : t[i] \in S
  OBVIOUS
<1>2. \A i \in 1..Len(t) : <<t[i]>> \in Seq(S) \ {<<>>}
  BY <1>1
<1>3. Single(t) \in [1..Len(t) -> Seq(S) \ {<<>>}] /\ \A i \in 1..Len(t) : Single(t)[i] = <<t[i]>>
  BY <1>1, <1>2 DEF Single
<1>4. ASSUME NEW T, NEW n \in Nat, NEW u \in [1..n -> T] PROVE u \in Seq(T) /\ Len(u) = n
  OBVIOUS
<1>5. Single(t) \in Seq(Seq(S) \ {<<>>}) /\ Len(Single(t)) = Len(t)
  BY <1>1, <1>3, <1>4
<1>6. Single(t) \in Seq(Seq(S))
  BY <1>5, Wider
<1>7. ASSUME t # <<>> PROVE Single(t) # <<>> /\ Single(t)[1] = <<t[1]>>
  <2>1. 1 \in 1..Len(t) /\ Len(t) # 0
    BY <1>1, <1>7
  <2> HIDE DEF Single
  <2> QED BY <1>3, <1>5, <2>1
<1> QED BY <1>5, <1>6, <1>7

\* What begins a concatenation.
LEMMA Begins ==
    ASSUME NEW S, NEW a \in Seq(S), NEW b \in Seq(S), a # <<>>
    PROVE  a \o b \in Seq(S) /\ a \o b # <<>> /\ (a \o b)[1] = a[1]
OBVIOUS

\* A number that is not 0 means the same to both programs.
LEMMA NumberSaid ==
    ASSUME NEW v, v # "0", NEW d PROVE GoDefault(v, d) = LuaDefault(v, d)
BY DEF GoDefault, GoNumber, LuaDefault

\* Words and short texts of them.
LEMMA ShortTexts ==
    ASSUME NEW S, NEW u \in S, NEW v \in S
    PROVE  /\ <<u>> \in Seq(S) /\ <<u, v>> \in Seq(S) /\ <<>> \in Seq(S)
           /\ <<u>> # <<>> /\ <<u>>[1] = u
OBVIOUS

\* Both ask gamescope for the same where the entry says enough.
LEMMA SameArgs ==
    ASSUME NEW gs \in Gamescope, gs.fullscreen # "absent",
           "0" \notin {gs.outputWidth, gs.outputHeight, gs.refresh, gs.innerWidth, gs.innerHeight},
           {gs.filter, gs.scaler} \subseteq Seq(Plain) \ {<<>>},
           gs.filter # Absent =>
               \/ gs.scaler # Absent
               \/ LuaDefault(gs.innerWidth, Empty) \notin {Empty, LuaDefault(gs.outputWidth, "1920")}
               \/ LuaDefault(gs.innerHeight, Empty) \notin {Empty, LuaDefault(gs.outputHeight, "1080")}
    PROVE  /\ GamescopeArgs(gs) = LuaArgs(gs)
           /\ LuaArgs(gs) \in Seq(Seq(Plain) \ {<<>>})
           /\ LuaArgs(gs) # <<>> /\ LuaArgs(gs)[1] = <<"gamescope">>
<1> DEFINE Texts == Seq(Plain) \ {<<>>}
           ow == LuaDefault(gs.outputWidth, "1920")
           oh == LuaDefault(gs.outputHeight, "1080")
           orr == LuaDefault(gs.refresh, "60")
           iw == LuaDefault(gs.innerWidth, ow)
           ih == LuaDefault(gs.innerHeight, oh)
           filter == GoText(gs.filter)
           goScaler == IF GoText(gs.scaler) = <<>> /\ (iw # ow \/ ih # oh) THEN <<"fit">>
                       ELSE GoText(gs.scaler)
           scaler == LuaText(gs.scaler, IF iw # ow \/ ih # oh THEN <<"fit">> ELSE <<"auto">>)
           full == IF gs.fullscreen = "true" THEN <<"-f">> ELSE <<>>
           sizes == <<"-W", ow, "-H", oh, "-w", iw, "-h", ih, "-r", orr>>
           first == (<<"gamescope">> \o full) \o sizes
           scaled == IF filter # <<>> /\ goScaler # <<>> THEN <<<<"-S">>, goScaler>> ELSE <<>>
           filtered == IF filter # <<>> THEN <<<<"-F">>, filter>> ELSE <<>>
           both == IF gs.filter # Absent THEN <<<<"-S">>, scaler, <<"-F">>, gs.filter>> ELSE <<>>
           sharp == IF gs.sharpness # "absent" THEN <<"--sharpness", gs.sharpness>> ELSE <<>>
           last == sharp \o SwitchesOf(gs)
           go == ((Single(first) \o scaled) \o filtered) \o Single(last)
           lua == (Single(first) \o both) \o Single(last)
<1>1. /\ GoDefault(gs.outputWidth, "1920") = ow /\ GoDefault(gs.outputHeight, "1080") = oh
      /\ GoDefault(gs.refresh, "60") = orr
      /\ GoDefault(gs.innerWidth, ow) = iw /\ GoDefault(gs.innerHeight, oh) = ih
  BY NumberSaid
<1>2. GamescopeArgs(gs) = go
  BY <1>1, Zenon DEF GamescopeArgs
<1>3. LuaArgs(gs) = lua
  <2>1. (IF gs.fullscreen # "false" THEN <<"-f">> ELSE <<>>) = full
    BY DEF Gamescope
  <2> QED BY <2>1, Zenon DEF LuaArgs
<1>4. /\ {"1920", "1080", "60", "gamescope", "-f", "-W", "-H", "-w", "-h", "-r"} \subseteq Plain
      /\ {"--sharpness", "-S", "-F", "fit", "auto"} \subseteq Plain
  <2> HIDE DEF Plain
  <2> QED BY LiteralsPlain DEF Literals
<1>5. /\ {ow, oh, orr, iw, ih} \subseteq Plain /\ gs.sharpness \in Plain
      /\ gs.filter \in Texts /\ gs.scaler \in Texts
  <2>1. {gs.outputWidth, gs.outputHeight, gs.refresh, gs.innerWidth, gs.innerHeight, gs.sharpness} \subseteq Plain
    BY DEF Gamescope
  <2> HIDE DEF Plain
  <2> QED BY <1>4, <2>1 DEF LuaDefault
<1> HIDE DEF ow, oh, orr, iw, ih
<1>6. scaler \in Texts
  <2> HIDE DEF Plain
  <2>1. <<"fit">> \in Texts /\ <<"auto">> \in Texts
    BY <1>4, ShortTexts
  <2> QED BY <1>5, <2>1 DEF LuaText
<1>7. filter # <<>> <=> gs.filter # Absent
  BY <1>5 DEF GoText
<1>8. ASSUME gs.filter # Absent PROVE goScaler = scaler /\ goScaler # <<>>
  <2>1. CASE gs.scaler # Absent
    BY <1>5, <2>1 DEF GoText, LuaText
  <2>2. CASE gs.scaler = Absent
    <3>1. iw # ow \/ ih # oh
      BY <1>8, <2>2 DEF LuaDefault, iw, ih, ow, oh
    <3>2. goScaler = <<"fit">> /\ scaler = <<"fit">>
      BY <2>2, <3>1, NothingSaid DEF GoText, LuaText
    <3> QED BY <3>2, NothingSaid
  <2> QED BY <2>1, <2>2
<1>9. /\ first \in Seq(Plain) /\ first # <<>> /\ first[1] = "gamescope"
      /\ last \in Seq(Plain)
  <2> DEFINE g == <<"gamescope">>
  <2>1. sizes \in Seq(Plain)
    <3> HIDE DEF Plain
    <3> QED BY <1>4, <1>5
  <2> HIDE DEF Plain, sizes
  <2>2. full \in Seq(Plain) /\ sharp \in Seq(Plain)
    BY <1>4, <1>5, ShortTexts
  <2>3. g \in Seq(Plain) /\ g # <<>> /\ g[1] = "gamescope"
    BY <1>4, ShortTexts
  <2> HIDE DEF full, sharp, g
  <2>4. g \o full \in Seq(Plain) /\ g \o full # <<>> /\ (g \o full)[1] = "gamescope"
    BY <2>2, <2>3, Begins
  <2>5. first \in Seq(Plain) /\ first # <<>> /\ first[1] = "gamescope"
    BY <2>1, <2>4, Begins DEF g
  <2>6. last \in Seq(Plain)
    BY <2>2, SwitchesType, Joined
  <2> QED BY <2>5, <2>6
<1>10. /\ scaled \o filtered = both /\ scaled \in Seq(Texts) /\ filtered \in Seq(Texts)
       /\ both \in Seq(Texts)
  <2> HIDE DEF Plain
  <2>1. CASE gs.filter = Absent
    <3>1. scaled = <<>> /\ filtered = <<>> /\ both = <<>>
      BY <1>7, <2>1
    <3> HIDE DEF scaled, filtered, both, Texts
    <3> QED BY <3>1
  <2>2. CASE gs.filter # Absent
    <3>1. filter = gs.filter
      BY <2>2 DEF GoText
    <3>2. /\ scaled = <<<<"-S">>, scaler>> /\ filtered = <<<<"-F">>, gs.filter>>
          /\ both = <<<<"-S">>, scaler, <<"-F">>, gs.filter>>
      BY <1>7, <1>8, <2>2, <3>1
    <3>3. <<"-S">> \in Texts /\ <<"-F">> \in Texts
      BY <1>4, ShortTexts
    <3> DEFINE w == <<"-S">>
               y == <<"-F">>
    <3> HIDE DEF scaled, filtered, both, scaler, Texts, w, y
    <3>4. /\ <<w, scaler>> \o <<y, gs.filter>> = <<w, scaler, y, gs.filter>>
          /\ <<w, scaler>> \in Seq(Texts) /\ <<y, gs.filter>> \in Seq(Texts)
      BY <1>5, <1>6, <3>3, TwoPairs DEF w, y
    <3>5. <<w, scaler>> \o <<y, gs.filter>> \in Seq(Texts)
      BY <3>4, Concatenated
    <3> QED BY <3>2, <3>4, <3>5 DEF w, y
  <2> QED BY <2>1, <2>2
<1> DEFINE a == Single(first)
           z == Single(last)
<1>11. /\ a \in Seq(Texts) /\ a # <<>> /\ a[1] = <<"gamescope">>
       /\ z \in Seq(Texts)
  <2> HIDE DEF first, last, Plain
  <2> QED BY <1>9, SinglesType
<1> HIDE DEF first, last, scaled, filtered, both, Texts, a, z
<1>12. (a \o scaled) \o filtered = a \o both
  <2>2. scaled \in Seq(Texts)
    BY <1>10
  <2>3. filtered \in Seq(Texts)
    BY <1>10
  <2>4. a \in Seq(Texts)
    BY <1>11
  <2>1. (a \o scaled) \o filtered = a \o (scaled \o filtered)
    BY <2>2, <2>3, <2>4, Joined
  <2> QED BY <1>10, <2>1
<1>13. a \o both \in Seq(Texts) /\ a \o both # <<>> /\ (a \o both)[1] = <<"gamescope">>
  <2>1. both \in Seq(Texts)
    BY <1>10
  <2> QED BY <1>11, <2>1, Begins
<1>14. /\ (a \o both) \o z \in Seq(Texts) /\ (a \o both) \o z # <<>>
       /\ ((a \o both) \o z)[1] = <<"gamescope">>
  <2> DEFINE b == a \o both
  <2> HIDE DEF b
  <2>1. b \in Seq(Texts) /\ b # <<>> /\ b[1] = <<"gamescope">>
    BY <1>13 DEF b
  <2>2. b \o z \in Seq(Texts) /\ b \o z # <<>> /\ (b \o z)[1] = <<"gamescope">>
    BY <1>11, <2>1, Begins
  <2> QED BY <2>2 DEF b
<1>15. lua = (a \o both) \o z /\ go = lua
  BY <1>12, Zenon DEF a, z
<1> QED BY <1>2, <1>3, <1>14, <1>15 DEF Texts

\* The options that the server gives to gamescope are texts.
LEMMA GamescopeArgsType == ASSUME NEW gs \in Gamescope PROVE GamescopeArgs(gs) \in Seq(Seq(STRING))
<1> DEFINE ow == GoDefault(gs.outputWidth, "1920")
           oh == GoDefault(gs.outputHeight, "1080")
           orr == GoDefault(gs.refresh, "60")
           iw == GoDefault(gs.innerWidth, ow)
           ih == GoDefault(gs.innerHeight, oh)
           filter == GoText(gs.filter)
           scaler == IF GoText(gs.scaler) = <<>> /\ (iw # ow \/ ih # oh) THEN <<"fit">>
                     ELSE GoText(gs.scaler)
           full == IF gs.fullscreen = "true" THEN <<"-f">> ELSE <<>>
           sizes == <<"-W", ow, "-H", oh, "-w", iw, "-h", ih, "-r", orr>>
           scaled == IF filter # <<>> /\ scaler # <<>> THEN <<<<"-S">>, scaler>> ELSE <<>>
           filtered == IF filter # <<>> THEN <<<<"-F">>, filter>> ELSE <<>>
           sharp == IF gs.sharpness # "absent" THEN <<"--sharpness", gs.sharpness>> ELSE <<>>
           g == <<"gamescope">>
           first == (g \o full) \o sizes
           last == sharp \o SwitchesOf(gs)
<1>6. GamescopeArgs(gs) = ((Single(first) \o scaled) \o filtered) \o Single(last)
  BY Zenon DEF GamescopeArgs
<1>1. Literals \subseteq STRING /\ Plain \subseteq STRING
  BY TextAssumption DEF Plain
<1>2. {"gamescope", "-f", "-W", "-H", "-w", "-h", "-r", "--sharpness", "-S", "-F", "fit",
       "1920", "1080", "60"} \subseteq STRING
  BY <1>1 DEF Literals
<1>3. /\ {ow, oh, orr, iw, ih} \subseteq STRING /\ gs.sharpness \in STRING
      /\ gs.filter \in Seq(STRING) /\ gs.scaler \in Seq(STRING)
  BY <1>1, <1>2 DEF GoDefault, GoNumber, Gamescope
<1> HIDE DEF ow, oh, orr, iw, ih
<1>4. filter \in Seq(STRING) /\ scaler \in Seq(STRING)
  <2>1. <<>> \in Seq(STRING) /\ <<"fit">> \in Seq(STRING)
    BY <1>2, ShortTexts
  <2> QED BY <1>3, <2>1 DEF GoText
<1>5. SwitchesOf(gs) \in Seq(STRING)
  BY <1>1, SwitchesType, Wider
<1> HIDE DEF filter, scaler
<1>7. sizes \in Seq(STRING)
  BY <1>2, <1>3
<1>8. g \in Seq(STRING) /\ full \in Seq(STRING) /\ sharp \in Seq(STRING)
  BY <1>2, <1>3, ShortTexts
<1>9. scaled \in Seq(Seq(STRING)) /\ filtered \in Seq(Seq(STRING))
  <2>1. <<"-S">> \in Seq(STRING) /\ <<"-F">> \in Seq(STRING)
    BY <1>2, ShortTexts
  <2> QED BY <1>4, <2>1, ShortTexts
<1> HIDE DEF g, full, sizes, scaled, filtered, sharp
<1>10. g \o full \in Seq(STRING)
  BY <1>8, Concatenated
<1>11. first \in Seq(STRING)
  BY <1>7, <1>10, Concatenated
<1>12. last \in Seq(STRING)
  BY <1>5, <1>8, Concatenated
<1> DEFINE a == Single(first)
           z == Single(last)
<1> HIDE DEF first, last
<1>13. a \in Seq(Seq(STRING)) /\ z \in Seq(Seq(STRING))
  BY <1>11, <1>12, SinglesType
<1> HIDE DEF a, z
<1>14. a \o scaled \in Seq(Seq(STRING))
  BY <1>9, <1>13, Concatenated
<1>15. (a \o scaled) \o filtered \in Seq(Seq(STRING))
  BY <1>9, <1>14, Concatenated
<1>16. ((a \o scaled) \o filtered) \o z \in Seq(Seq(STRING))
  BY <1>13, <1>15, Concatenated
<1> QED BY <1>6, <1>16 DEF a, z

-----------------------------------------------------------------------------
(* An entry.                                                               *)

\* The argv of an entry is a sequence of texts.
LEMMA ArgvType ==
    ASSUME NEW app \in App PROVE AppArgv(app).argv \in Seq(Seq(STRING)) /\ AppArgv(app).ok \in BOOLEAN
<1> DEFINE gs == app.gamescope
           split == SplitExec(app.exec)
           args == GamescopeArgs(gs)
           sep == <<Separator>>
<1>1. gs \in Gamescope /\ app.exec \in Seq(STRING)
  <2>1. app.exec \in Seq(STRING \ {NoQuote})
    BY DEF App
  <2> QED BY <2>1, Wider DEF App
<1>2. split.argv \in Seq(Seq(STRING)) /\ split.ok \in BOOLEAN
  BY <1>1, SplitTypes
<1>3. args \in Seq(Seq(STRING)) /\ gs.extra \in Seq(Seq(STRING))
  BY <1>1, GamescopeArgsType DEF Gamescope
<1>4. AppArgv(app) \in {split, Failed, Ok(((args \o gs.extra) \o sep) \o split.argv)}
  BY DEF AppArgv
<1> HIDE DEF gs, split, args
<1>5. sep \in Seq(Seq(STRING))
  <2>1. "--" \in STRING
    BY TextAssumption DEF Literals
  <2> QED BY <2>1 DEF Separator
<1> HIDE DEF sep
<1>6. args \o gs.extra \in Seq(Seq(STRING))
  BY <1>3, Concatenated
<1>7. (args \o gs.extra) \o sep \in Seq(Seq(STRING))
  BY <1>5, <1>6, Concatenated
<1>8. ((args \o gs.extra) \o sep) \o split.argv \in Seq(Seq(STRING))
  BY <1>2, <1>7, Concatenated
<1>9. <<>> \in Seq(Seq(STRING))
  OBVIOUS
<1> DEFINE argv == ((args \o gs.extra) \o sep) \o split.argv
<1>10. argv \in Seq(Seq(STRING))
  BY <1>8
<1>11. AppArgv(app) = split \/ AppArgv(app) = Failed \/ AppArgv(app) = Ok(argv)
  BY <1>4
<1> HIDE DEF argv
<1>12. /\ Failed.argv = <<>> /\ Failed.ok \in BOOLEAN
       /\ Ok(argv).argv = argv /\ Ok(argv).ok \in BOOLEAN
  BY DEF Failed, Ok
<1> QED BY <1>2, <1>9, <1>10, <1>11, <1>12

\* Every symbol that is in one of the texts.
Symbols == STRING \cup {Apostrophe, Backslash, Blank}

\* The server finds a command for every entry that says enough, and its argv is
\* exactly the words that the UI's shell makes of its line for that entry; the shell
\* makes nothing more of the line than these words.
THEOREM SameWords ==
    ASSUME NEW app \in App, SaysEnough(app)
    PROVE  AppArgv(app) = ShellWords(BuildCmd(app)) /\ AppArgv(app).ok
<1> DEFINE gs == app.gamescope
           exec == app.exec
           Sym == STRING \ {NoQuote, Backslash, Tab}
<1>1. gs \in Gamescope /\ exec \in Seq(STRING \ {NoQuote})
  BY DEF App, Gamescope
<1>2. exec \in Seq(Sym)
  <2>1. \A i \in 1..Len(exec) : exec[i] # Backslash /\ exec[i] # Tab
    <3>1. {Backslash, Tab} \cap ToSet(exec) = {}
      BY DEF SaysEnough
    <3>2. \A i \in 1..Len(exec) : exec[i] \in ToSet(exec)
      <4> HIDE DEF exec
      <4> QED BY <1>1 DEF ToSet
    <3> HIDE DEF exec
    <3> QED BY <3>1, <3>2
  <2>2. exec \in Seq(STRING \ {NoQuote})
    BY <1>1
  <2> HIDE DEF exec
  <2>3. \A i \in 1..Len(exec) : exec[i] \in Sym
    BY <2>1, <2>2
  <2> HIDE DEF Sym
  <2> QED BY <2>2, <2>3
<1>3. SplitExec(exec) = ShellWords(exec) /\ SplitExec(exec).ok /\ ShellWords(exec).ok
  <2>1. ShellWords(exec).ok /\ <<>> \notin ToSet(ShellWords(exec).argv)
    BY DEF SaysEnough
  <2>2. Sym \cap {NoQuote, Backslash, Tab} = {}
    OBVIOUS
  <2> HIDE DEF exec, Sym
  <2> QED BY <1>2, <2>1, <2>2, SplitAsShell
<1>4. CASE gs.enabled # "true"
  <2>1. AppArgv(app) = SplitExec(exec)
    BY <1>4 DEF AppArgv
  <2>2. BuildCmd(app) = exec
    BY <1>1, <1>4 DEF BuildCmd, SaysEnough, Gamescope
  <2> QED BY <1>3, <2>1, <2>2
<1>5. CASE gs.enabled = "true"
  <2> DEFINE args == LuaArgs(gs)
             extra == gs.extra
             flags == [i \in DOMAIN extra |-> ShellQuote(extra[i])]
             sep == <<Separator>>
             parts == (args \o flags) \o sep
             ws == (args \o extra) \o sep
  <2>1. AppArgv(app) = Ok(((GamescopeArgs(gs) \o extra) \o sep) \o SplitExec(exec).argv)
    BY <1>3, <1>5 DEF AppArgv, SaysEnough
  <2>2. /\ GamescopeArgs(gs) = args /\ args \in Seq(Seq(Plain) \ {<<>>}) /\ args # <<>>
        /\ args[1] = <<"gamescope">>
    BY <1>1, <1>5, SameArgs DEF SaysEnough
  <2>3. BuildCmd(app) = JoinBlank(args \o flags \o <<Separator, exec>>)
    BY <1>5 DEF BuildCmd, BuildArgv
  <2>4. Plain \subseteq Symbols /\ Plain \cap Special = {}
    BY DEF Symbols, Plain
  <2>5. ASSUME NEW ts \in Seq(Seq(Plain) \ {<<>>}) PROVE ReadAll(Symbols, ts, ts)
    <3> HIDE DEF Plain
    <3>1. Seq(Plain) \subseteq Seq(Symbols)
      BY <2>4, Wider
    <3>2. ts \in Seq(Seq(Symbols) \ {<<>>})
      BY <3>1, Wider
    <3>3. ASSUME NEW i \in 1..Len(ts), NEW k \in 1..Len(ts[i]) PROVE ts[i][k] \notin Special
      <4>1. ts[i] \in Seq(Plain)
        OBVIOUS
      <4>2. ts[i][k] \in Plain
        BY <4>1
      <4> QED BY <2>4, <4>2
    <3> QED BY <3>2, <3>3, ReadTexts
  <2>6. /\ extra \in Seq(Seq(Symbols)) /\ exec \in Seq(Symbols)
        /\ {Apostrophe, Backslash} \subseteq Symbols /\ Blank \in Symbols
    <3>1. STRING \subseteq Symbols /\ Sym \subseteq Symbols
      BY DEF Symbols
    <3>2. extra \in Seq(Seq(STRING))
      BY <1>1 DEF Gamescope
    <3>3. Seq(Seq(STRING)) \subseteq Seq(Seq(Symbols)) /\ Seq(Sym) \subseteq Seq(Symbols)
      BY <3>1, Wider
    <3> QED BY <1>2, <3>2, <3>3 DEF Symbols
  <2> HIDE DEF args, exec, extra
  <2>7. ReadAll(Symbols, args, args)
    BY <2>2, <2>5
  <2>8. ReadAll(Symbols, flags, extra)
    BY <2>6, ReadFlags
  <2>9. ReadAll(Symbols, sep, sep)
    <3>1. "--" \in Plain
      <4> HIDE DEF Plain
      <4> QED BY LiteralsPlain DEF Literals
    <3>2. sep \in Seq(Seq(Plain) \ {<<>>})
      <4> HIDE DEF Plain
      <4>1. Separator \in Seq(Plain) \ {<<>>}
        BY <3>1, ShortTexts DEF Separator
      <4> QED BY <4>1, ShortTexts
    <3> QED BY <2>5, <3>2
  <2> HIDE DEF flags, sep
  <2>10. ReadAll(Symbols, parts, ws)
    BY <2>7, <2>8, <2>9, ReadBoth
  <2>11. ws # <<>> /\ ToSet(ws[1]) \cap Leading = {}
    <3>1. args \in Seq(Seq(Symbols)) /\ sep \in Seq(Seq(Symbols))
      BY <2>7, <2>9 DEF ReadAll
    <3> DEFINE b == args \o extra
    <3>2. b \in Seq(Seq(Symbols)) /\ b # <<>> /\ b[1] = <<"gamescope">>
      BY <2>2, <2>6, <3>1, Begins
    <3> HIDE DEF b
    <3>3. b \o sep # <<>> /\ (b \o sep)[1] = <<"gamescope">>
      BY <3>1, <3>2, Begins
    <3>4. ToSet(<<"gamescope">>) = {"gamescope"}
      BY DEF ToSet
    <3> HIDE DEF ws, Leading
    <3>5. ws = b \o sep
      BY DEF ws, b
    <3> QED BY <3>3, <3>4, <3>5, LiteralsPlain
  <2>12. args \o flags \o <<Separator, exec>> = parts \o <<exec>>
    <3>1. <<Separator, exec>> = sep \o <<exec>>
      BY DEF sep
    <3> DEFINE a == args \o flags
    <3>2. ReadAll(Symbols, a, args \o extra)
      BY <2>7, <2>8, ReadBoth
    <3> HIDE DEF a
    <3>3. a \in Seq(Seq(Symbols)) /\ sep \in Seq(Seq(Symbols))
      BY <2>9, <3>2 DEF ReadAll
    <3>4. <<exec>> \in Seq(Seq(Symbols))
      BY <2>6
    <3>5. (a \o sep) \o <<exec>> = a \o (sep \o <<exec>>)
      BY <3>3, <3>4, Joined
    <3> QED BY <3>1, <3>5 DEF a
  <2> HIDE DEF parts, ws
  <2>13. ShellWords(JoinBlank(parts \o <<exec>>)) = Ok(ws \o ShellWords(exec).argv)
    <3>1. parts \in Seq(Seq(Symbols)) /\ ws \in Seq(Seq(Symbols)) /\ Len(parts) = Len(ws)
      BY <2>10 DEF ReadAll
    <3>2. \A i \in 1..Len(ws) : Reads(Symbols, parts[i], ws[i])
      BY <2>10 DEF ReadAll
    <3> QED BY <1>3, <2>6, <2>11, <3>1, <3>2, JoinedWords
  <2>14. AppArgv(app) = Ok(ws \o SplitExec(exec).argv)
    BY <2>1, <2>2 DEF ws
  <2>15. AppArgv(app) = ShellWords(BuildCmd(app))
    BY <1>3, <2>3, <2>12, <2>13, <2>14
  <2> QED BY <2>14, <2>15 DEF Ok
<1> QED BY <1>4, <1>5
=============================================================================
