--------------------------- MODULE TextLayout_proofs ---------------------------
(***************************************************************************)
(* What the recursive functions of TextLayout compute, for any text and    *)
(* any width: the lines of a text show each of its letters once and in     *)
(* order (AlwaysWrappedWell), and those of a title begin as the text does  *)
(* (TitleIsTruthful).                                                      *)
(*                                                                         *)
(* They are proved by way of Iteration: a recursive function has the       *)
(* values that repeating its step gives (Iterates), and a set that holds 0 *)
(* and with i - 1 holds i has all numbers up to n (UpTo), as a number that *)
(* it lacks would be preceded by a least one.  AllSequences says the same  *)
(* of a set of sequences.                                                  *)
(***************************************************************************)
EXTENDS TextLayout, FiniteSetTheorems, SequenceTheorems, TLAPS

\* A set of numbers that is not empty has a least one: the initial intervals of
\* its members are well ordered by inclusion.
LEMMA LeastNumber ==
  ASSUME NEW T \in SUBSET Nat, T # {}
  PROVE  \E m \in T : \A k \in T : m <= k
<1> DEFINE Intervals == {0 .. k : k \in T}
<1>1. Intervals \subseteq FiniteSubsetsOf(Nat) /\ Intervals # {}
  <2>1. ASSUME NEW k \in T PROVE 0 .. k \in FiniteSubsetsOf(Nat)
    <3>1. 0 .. k \in SUBSET Nat /\ IsFiniteSet(0 .. k)
      BY FS_Interval
    <3> QED
      BY <3>1 DEF FiniteSubsetsOf
  <2> QED
    BY <2>1
<1>2. PICK i \in Intervals : \A j \in Intervals : <<j, i>> \notin StrictSubsetOrdering(Nat)
  <2> HIDE DEF Intervals
  <2> QED
    BY <1>1, FS_StrictSubsetOrderingWellFounded, WFMin
<1>3. PICK m \in T : i = 0 .. m
  BY <1>2
<1>4. ASSUME NEW k \in T, k < m PROVE FALSE
  <2>1. 0 .. k \subseteq 0 .. m /\ m \in 0 .. m /\ m \notin 0 .. k
    BY <1>4
  <2>2. 0 .. k \in SUBSET Nat /\ 0 .. m \in SUBSET Nat /\ 0 .. k # 0 .. m
    BY <2>1
  <2>3. <<0 .. k, 0 .. m>> \in StrictSubsetOrdering(Nat)
    BY <2>1, <2>2 DEF StrictSubsetOrdering
  <2> QED
    BY <1>2, <1>3, <2>3
<1> QED
  BY <1>4

\* Induction up to n.
LEMMA UpTo ==
  ASSUME NEW n \in Nat, NEW T \in SUBSET (0 .. n), 0 \in T,
         \A i \in 1 .. n : i - 1 \in T => i \in T
  PROVE  T = 0 .. n
<1>1. SUFFICES ASSUME (0 .. n) \ T # {} PROVE FALSE
  OBVIOUS
<1>2. (0 .. n) \ T \in SUBSET Nat
  OBVIOUS
<1>3. PICK m \in (0 .. n) \ T : \A k \in (0 .. n) \ T : m <= k
  BY <1>1, <1>2, LeastNumber
<1>4. m # 0 /\ m \in 1 .. n /\ m - 1 \in 0 .. n
  BY <1>3
<1>5. m - 1 \in T
  BY <1>3, <1>4
<1> QED
  BY <1>3, <1>4, <1>5

\* A function of the numbers up to m is a sequence.
LEMMA FunctionIsSeq ==
  ASSUME NEW m \in Nat, NEW S, NEW F \in [1 .. m -> S]
  PROVE  F \in Seq(S) /\ Len(F) = m
  OBVIOUS

\* h begins with a, and each of its n steps is the one that g makes.
Iteration(h, V, a, n, g) ==
  h \in [0 .. n -> V] /\ h[0] = a /\ \A i \in 1 .. n : h[i] = g[<<h[i - 1], i>>]

\* A step can be repeated: this is what gives a recursive function its values.
LEMMA Iterates ==
  ASSUME NEW V, NEW a \in V, NEW n \in Nat, NEW g \in [V \X (1 .. n) -> V]
  PROVE  \E h : Iteration(h, V, a, n, g)
<1> DEFINE T == {k \in 0 .. n : \E h : Iteration(h, V, a, k, g)}
<1>1. 0 \in T
  <2> DEFINE e == [i \in 0 .. 0 |-> a]
  <2>1. e \in [0 .. 0 -> V] /\ e[0] = a /\ 1 .. 0 = {}
    OBVIOUS
  <2>2. Iteration(e, V, a, 0, g)
    BY <2>1 DEF Iteration
  <2> QED
    BY <2>2
<1>2. ASSUME NEW k \in 1 .. n, k - 1 \in T PROVE k \in T
  <2>1. PICK h : Iteration(h, V, a, k - 1, g)
    BY <1>2
  <2>2. /\ h \in [0 .. k - 1 -> V] /\ h[0] = a
        /\ \A i \in 1 .. k - 1 : h[i] = g[<<h[i - 1], i>>]
    BY <2>1 DEF Iteration
  <2> DEFINE e == [i \in 0 .. k |-> IF i = k THEN g[<<h[k - 1], k>>] ELSE h[i]]
  <2>3. k - 1 \in 0 .. k - 1 /\ <<h[k - 1], k>> \in V \X (1 .. n)
    BY <2>2
  <2>4. e \in [0 .. k -> V] /\ e[0] = a
    BY <2>2, <2>3
  <2>5. ASSUME NEW i \in 1 .. k PROVE e[i] = g[<<e[i - 1], i>>]
    <3>1. i - 1 \in 0 .. k /\ i - 1 # k /\ e[i - 1] = h[i - 1]
      OBVIOUS
    <3>2. CASE i = k
      BY <3>1, <3>2
    <3>3. CASE i # k
      BY <3>1, <3>3, <2>2
    <3> QED
      BY <3>2, <3>3
  <2>6. Iteration(e, V, a, k, g)
    BY <2>4, <2>5 DEF Iteration
  <2> QED
    BY <2>6
<1>3. T = 0 .. n
  <2> HIDE DEF T
  <2>1. T \in SUBSET (0 .. n)
    BY DEF T
  <2> QED
    BY <1>1, <1>2, <2>1, UpTo
<1> QED
  BY <1>3

\* What is computed step by step as by g is its iteration.
LEMMA IsIteration ==
  ASSUME NEW V, NEW a \in V, NEW n \in Nat, NEW g \in [V \X (1 .. n) -> V],
         NEW f, f = [i \in 0 .. n |-> f[i]], f[0] = a,
         \A i \in 1 .. n : f[i - 1] \in V => f[i] = g[<<f[i - 1], i>>]
  PROVE  Iteration(f, V, a, n, g)
<1> DEFINE T == {i \in 0 .. n : f[i] \in V}
<1>1. 0 \in T
  OBVIOUS
<1>2. ASSUME NEW i \in 1 .. n, i - 1 \in T PROVE i \in T
  <2>1. f[i - 1] \in V /\ <<f[i - 1], i>> \in V \X (1 .. n) /\ i \in 0 .. n
    BY <1>2
  <2>2. f[i] = g[<<f[i - 1], i>>]
    BY <2>1
  <2> QED
    BY <2>1, <2>2
<1>3. T = 0 .. n
  <2>1. T \in SUBSET (0 .. n)
    OBVIOUS
  <2> HIDE DEF T
  <2> QED
    BY <1>1, <1>2, <2>1, UpTo
<1>4. f \in [0 .. n -> V]
  BY <1>3
<1>5. \A i \in 1 .. n : i - 1 \in 0 .. n
  OBVIOUS
<1> QED
  BY <1>4, <1>5 DEF Iteration

\* Two iterations agree as far as their steps do.
LEMMA SameIteration ==
  ASSUME NEW V, NEW a \in V, NEW m \in Nat, NEW n \in Nat, m <= n, NEW g, NEW k, NEW f, NEW h,
         Iteration(f, V, a, m, g), Iteration(h, V, a, n, k),
         \A x \in V, i \in 1 .. m : g[<<x, i>>] = k[<<x, i>>]
  PROVE  \A i \in 0 .. m : f[i] = h[i]
<1> DEFINE T == {i \in 0 .. m : f[i] = h[i]}
<1>1. 0 \in T
  BY DEF Iteration
<1>2. ASSUME NEW i \in 1 .. m, i - 1 \in T PROVE i \in T
  <2>1. i - 1 \in 0 .. m /\ i \in 1 .. n /\ f[i - 1] = h[i - 1]
    BY <1>2
  <2>2. f[i - 1] \in V /\ f[i] = g[<<f[i - 1], i>>] /\ h[i] = k[<<h[i - 1], i>>]
    BY <2>1 DEF Iteration
  <2> QED
    BY <2>1, <2>2
<1>3. T = 0 .. m
  <2>1. T \in SUBSET (0 .. m)
    OBVIOUS
  <2> HIDE DEF T
  <2> QED
    BY <1>1, <1>2, <2>1, UpTo
<1> QED
  BY <1>3

\* No lines in no paragraphs.
LEMMA FlattenNothing ==
  ASSUME NEW s, Len(s) = 0
  PROVE  FlattenSeq(s) = s
  BY DEF FlattenSeq

\* The recursion in FlattenSeq: the sequences are joined one after another.
LEMMA FlattenSteps ==
  ASSUME NEW S, NEW s \in Seq(Seq(S)), s # <<>>
  PROVE  \E f \in [1 .. Len(s) -> Seq(S)] :
           /\ f[1] = s[1] /\ FlattenSeq(s) = f[Len(s)]
           /\ \A i \in 2 .. Len(s) : f[i] = f[i - 1] \o s[i]
<1> DEFINE n == Len(s)
           V == Seq(S)
           Unfolded(h) == [i \in 1 .. n |-> IF i = 1 THEN s[i] ELSE h[i - 1] \o s[i]]
           f == CHOOSE h : h = Unfolded(h)
<1>1. n \in Nat \ {0} /\ \A i \in 1 .. n : s[i] \in V
  OBVIOUS
<1>2. FlattenSeq(s) = f[n]
  BY <1>1 DEF FlattenSeq
<1>3. \A a, b \in V : a \o b \in V
  BY ConcatProperties
<1> HIDE DEF n, V
<1>4. \E h \in [1 .. n -> V] : h = Unfolded(h)
  <2> DEFINE g == [x \in V \X (1 .. n - 1) |-> x[1] \o s[x[2] + 1]]
  <2>1. g \in [V \X (1 .. n - 1) -> V]
    <3> SUFFICES ASSUME NEW a \in V, NEW i \in 1 .. n - 1 PROVE a \o s[i + 1] \in V
      OBVIOUS
    <3>1. i + 1 \in 1 .. n
      BY <1>1
    <3> QED
      BY <1>1, <1>3, <3>1
  <2>2. \A a \in V, i \in 1 .. n - 1 : g[<<a, i>>] = a \o s[i + 1]
    OBVIOUS
  <2> HIDE DEF g
  <2>3. n - 1 \in Nat /\ s[1] \in V
    BY <1>1
  <2>4. PICK k : Iteration(k, V, s[1], n - 1, g)
    BY <2>1, <2>3, Iterates, Zenon
  <2>5. \A i \in 1 .. n - 1 : k[i] = k[i - 1] \o s[i + 1]
    <3> TAKE i \in 1 .. n - 1
    <3>1. i - 1 \in 0 .. n - 1 /\ n \in Nat
      BY <1>1
    <3>2. k[i - 1] \in V /\ k[i] = g[<<k[i - 1], i>>]
      BY <3>1, <2>4 DEF Iteration
    <3> QED
      BY <3>2, <2>2
  <2> DEFINE h == [i \in 1 .. n |-> k[i - 1]]
  <2>6. h \in [1 .. n -> V]
    <3>1. \A i \in 1 .. n : i - 1 \in 0 .. n - 1
      BY <1>1
    <3> QED
      BY <3>1, <2>4 DEF Iteration
  <2>7. \A i \in 1 .. n : h[i] = IF i = 1 THEN s[i] ELSE h[i - 1] \o s[i]
    <3> TAKE i \in 1 .. n
    <3>1. CASE i = 1
      BY <3>1, <2>4 DEF Iteration
    <3>2. CASE i # 1
      <4>1. i - 1 \in 1 .. n - 1 /\ i - 1 \in 1 .. n /\ (i - 1) + 1 = i
        BY <3>2, <1>1
      <4>2. h[i] = k[i - 1] /\ h[i - 1] = k[(i - 1) - 1]
        BY <4>1
      <4>3. k[i - 1] = k[(i - 1) - 1] \o s[(i - 1) + 1]
        BY <4>1, <2>5
      <4> QED
        BY <4>1, <4>2, <4>3, <3>2
    <3> QED
      BY <3>1, <3>2
  <2> HIDE DEF h
  <2>8. h = Unfolded(h)
    BY <2>6, <2>7
  <2> QED
    BY <2>6, <2>8
<1>5. f = Unfolded(f)
  BY <1>4
<1> HIDE DEF f
<1>6. \A i \in 1 .. n : f[i] = IF i = 1 THEN s[i] ELSE f[i - 1] \o s[i]
  BY <1>5
<1>7. \A i \in 1 .. n : f[i] \in V
  <2> DEFINE T == {0} \cup {i \in 1 .. n : f[i] \in V}
  <2>1. ASSUME NEW i \in 1 .. n, i - 1 \in T PROVE i \in T
    <3>1. CASE i = 1
      BY <3>1, <1>1, <1>6
    <3>2. CASE i # 1
      <4>1. f[i - 1] \in V
        BY <3>2, <2>1
      <4>2. s[i] \in V /\ f[i] = f[i - 1] \o s[i]
        BY <3>2, <1>1, <1>6
      <4> QED
        BY <4>1, <4>2, <1>3
    <3> QED
      BY <3>1, <3>2
  <2>2. T \in SUBSET (0 .. n) /\ 0 \in T /\ n \in Nat
    BY <1>1
  <2>3. T = 0 .. n
    <3> HIDE DEF T
    <3> QED
      BY <2>1, <2>2, UpTo
  <2> QED
    BY <2>3, <1>1
<1>8. f \in [1 .. n -> V]
  BY <1>5, <1>7
<1>9. f[1] = s[1] /\ \A i \in 2 .. n : f[i] = f[i - 1] \o s[i]
  <2>1. 1 \in 1 .. n /\ \A i \in 2 .. n : i \in 1 .. n /\ i # 1
    BY <1>1
  <2> QED
    BY <2>1, <1>6
<1> QED
  BY <1>2, <1>8, <1>9 DEF n, V

-----------------------------------------------------------------------------
(* Lines *)

\* What lines are made of, and the words they show.
Pieces == [par: Nat, word: Nat, from: Nat, to: Nat]
Words  == {w \in Pieces : w.from = 1}

\* A word of a paragraph as a piece shows all of its letters.
LEMMA WordTyped ==
  ASSUME NEW par \in Nat, NEW i \in Nat, NEW n \in Nat
  PROVE  Piece(par, i, 1, n) \in Words /\ PieceWidth(Piece(par, i, 1, n)) = n
  BY DEF Piece, Words, Pieces, PieceWidth

\* Widths are numbers.
LEMMA WidthTyped == \A p \in Pieces : PieceWidth(p) \in Int
  BY DEF Pieces, PieceWidth

\* One more piece on a line.
WidthAfter(line, w, i) == w + (IF i = 1 THEN 0 ELSE 1) + PieceWidth(line[i])

\* The recursion in LineWidth.
LEMMA WidthIteration ==
  ASSUME NEW line \in Seq(Pieces)
  PROVE  \E f : /\ LineWidth(line) = f[Len(line)]
                /\ Iteration(f, Int, 0, Len(line),
                     [x \in Int \X (1 .. Len(line)) |-> WidthAfter(line, x[1], x[2])])
<1> DEFINE n == Len(line)
           g == [x \in Int \X (1 .. n) |-> WidthAfter(line, x[1], x[2])]
           Unfolded(h) ==
             [i \in 0 .. n |-> IF i = 0 THEN 0 ELSE h[i - 1] + (IF i = 1 THEN 0 ELSE 1)
                                                    + PieceWidth(line[i])]
           f == CHOOSE h : h = Unfolded(h)
<1>1. n \in Nat /\ \A i \in 1 .. n : PieceWidth(line[i]) \in Int
  BY WidthTyped
<1>2. LineWidth(line) = f[n]
  BY DEF LineWidth
<1> HIDE DEF n
<1>3. \A w \in Int, i \in 1 .. n : WidthAfter(line, w, i) \in Int
  BY <1>1 DEF WidthAfter
<1>4. g \in [Int \X (1 .. n) -> Int] /\ \A w \in Int, i \in 1 .. n : g[<<w, i>>] = WidthAfter(line, w, i)
  BY <1>3
<1> HIDE DEF g
<1>5. \E h : h = Unfolded(h)
  <2>1. 0 \in Int /\ n \in Nat
    BY <1>1
  <2>2. PICK h : Iteration(h, Int, 0, n, g)
    BY <1>4, <2>1, Iterates, Zenon
  <2>3. h \in [0 .. n -> Int] /\ h[0] = 0 /\ \A i \in 1 .. n : h[i] = g[<<h[i - 1], i>>]
    BY <2>2 DEF Iteration
  <2>4. ASSUME NEW i \in 1 .. n PROVE h[i] = WidthAfter(line, h[i - 1], i)
    <3>1. i - 1 \in 0 .. n
      BY <1>1
    <3> QED
      BY <3>1, <2>3, <1>4
  <2>5. \A i \in 0 .. n : h[i] = IF i = 0 THEN 0 ELSE h[i - 1] + (IF i = 1 THEN 0 ELSE 1)
                                                      + PieceWidth(line[i])
    <3> TAKE i \in 0 .. n
    <3>1. i = 0 \/ i \in 1 .. n
      BY <1>1
    <3> QED
      BY <3>1, <2>3, <2>4 DEF WidthAfter
  <2>6. h = Unfolded(h)
    BY <2>3, <2>5
  <2> QED
    BY <2>6
<1>6. f = Unfolded(f)
  BY <1>5
<1> HIDE DEF f
<1>7. f[0] = 0 /\ \A i \in 1 .. n : f[i] = WidthAfter(line, f[i - 1], i)
  <2>1. 0 \in 0 .. n /\ \A i \in 1 .. n : i \in 0 .. n /\ i # 0
    BY <1>1
  <2> QED
    BY <1>6, <2>1 DEF WidthAfter
<1>8. Iteration(f, Int, 0, n, g)
  <2>1. f = [i \in 0 .. n |-> f[i]] /\ 0 \in Int /\ n \in Nat
    BY <1>1, <1>6
  <2>2. \A i \in 1 .. n : f[i - 1] \in Int => f[i] = g[<<f[i - 1], i>>]
    BY <1>4, <1>7
  <2> QED
    BY <1>4, <1>7, <2>1, <2>2, IsIteration
<1> QED
  BY <1>2, <1>8 DEF n, g

\* A line has a width.
LEMMA LineWidthTyped ==
  ASSUME NEW line \in Seq(Pieces)
  PROVE  LineWidth(line) \in Int
<1> DEFINE n == Len(line)
           g == [x \in Int \X (1 .. n) |-> WidthAfter(line, x[1], x[2])]
<1>1. PICK f : LineWidth(line) = f[n] /\ Iteration(f, Int, 0, n, g)
  BY WidthIteration
<1>2. n \in 0 .. n
  BY LenProperties
<1>3. f \in [0 .. n -> Int]
  BY <1>1 DEF Iteration
<1> HIDE DEF n
<1> QED
  BY <1>1, <1>2, <1>3

\* A line of one piece is as wide as it.
LEMMA WidthOfOne ==
  ASSUME NEW w \in Pieces
  PROVE  LineWidth(<<w>>) = PieceWidth(w)
<1> DEFINE line == <<w>>
           g == [x \in Int \X (1 .. 1) |-> WidthAfter(line, x[1], x[2])]
<1>1. line \in Seq(Pieces) /\ Len(line) = 1 /\ line[1] = w
  OBVIOUS
<1>2. PICK f : LineWidth(line) = f[1] /\ Iteration(f, Int, 0, 1, g)
  BY <1>1, WidthIteration
<1>3. f[1] = g[<<f[0], 1>>] /\ f[0] = 0
  BY <1>2 DEF Iteration
<1>4. g[<<0, 1>>] = WidthAfter(line, 0, 1)
  OBVIOUS
<1>5. WidthAfter(line, 0, 1) = PieceWidth(w)
  BY <1>1, WidthTyped DEF WidthAfter
<1> QED
  BY <1>2, <1>3, <1>4, <1>5

-----------------------------------------------------------------------------
(* Paragraphs *)

Lines == Seq(Pieces)

\* What a turn of the loop over the words starts from.
Turn == [lines: Seq(Lines), current: Lines]

\* A word with letters breaks into at least one piece.
LEMMA HardBreakTyped ==
  ASSUME NEW w \in Words, NEW max \in Nat, PieceWidth(w) >= 1
  PROVE  HardBreak(w, max) \in Seq(Pieces) /\ HardBreak(w, max) # <<>>
<1> DEFINE k == IF max < 1 THEN 1 ELSE max
           n == PieceWidth(w)
           q == (n + k - 1) \div k
           part(i) == [w EXCEPT !.from = (i - 1) * k + 1, !.to = IF i * k < n THEN i * k ELSE n]
<1>1. k \in Nat \ {0} /\ n \in Nat \ {0}
  BY DEF Words, Pieces, PieceWidth
<1>2. HardBreak(w, max) = [i \in 1 .. q |-> part(i)]
  BY DEF HardBreak
<1> HIDE DEF n, k
<1>3. q \in Nat /\ q >= 1
  BY <1>1
<1>4. \A i \in 1 .. q : part(i) \in Pieces
  <2> TAKE i \in 1 .. q
  <2>1. i \in Nat \ {0}
    BY <1>3
  <2>2. (i - 1) * k + 1 \in Nat /\ i * k \in Nat
    BY <2>1, <1>1
  <2> QED
    BY <2>2, <1>1 DEF Words, Pieces
<1> HIDE DEF q, part
<1>5. [i \in 1 .. q |-> part(i)] \in Seq(Pieces) /\ Len([i \in 1 .. q |-> part(i)]) = q
  BY <1>3, <1>4
<1> QED
  BY <1>2, <1>3, <1>5

\* A turn of the loop over the words yields whole lines and one to go on with.
LEMMA PlaceWordTyped ==
  ASSUME NEW t \in Turn, NEW w \in Words, NEW max \in Nat
  PROVE  PlaceWord(t, w, max) \in Turn /\ Closed(t) \in Seq(Lines)
<1>1. w \in Pieces /\ <<w>> \in Lines /\ t.lines \in Seq(Lines) /\ t.current \in Lines
  BY DEF Words, Turn, Lines
<1>2. Append(t.current, w) \in Lines
  BY <1>1 DEF Lines
<1>3. Joined(t.current, w) \in Lines
  BY <1>1, <1>2 DEF Joined
<1>4. Closed(t) \in Seq(Lines)
  BY <1>1 DEF Closed
<1>5. CASE Fits(Joined(t.current, w), max)
  <2>1. PlaceWord(t, w, max) = [t EXCEPT !.current = Joined(t.current, w)]
    BY <1>5 DEF PlaceWord
  <2> QED
    BY <2>1, <1>3, <1>4 DEF Turn
<1>6. CASE ~Fits(Joined(t.current, w), max) /\ Fits(<<w>>, max)
  BY <1>1, <1>4, <1>6 DEF PlaceWord, Turn
<1>7. CASE ~Fits(Joined(t.current, w), max) /\ ~Fits(<<w>>, max)
  <2> DEFINE parts == HardBreak(w, max)
             single == [i \in 1 .. Len(parts) - 1 |-> <<parts[i]>>]
  <2>1. PieceWidth(w) >= 1
    BY <1>1, <1>7, WidthOfOne, WidthTyped DEF Fits
  <2>2. parts \in Seq(Pieces) /\ parts # <<>>
    BY <2>1, HardBreakTyped
  <2> HIDE DEF parts
  <2>3. Last(parts) \in Pieces /\ Len(parts) - 1 \in Nat
    BY <2>2 DEF Last
  <2>4. \A i \in 1 .. Len(parts) - 1 : <<parts[i]>> \in Lines
    BY <2>2 DEF Lines
  <2>5. single \in Seq(Lines)
    <3>1. single \in [1 .. Len(parts) - 1 -> Lines]
      BY <2>4
    <3> QED
      BY FunctionIsSeq, <3>1, <2>3
  <2>6. Closed(t) \o single \in Seq(Lines) /\ <<Last(parts)>> \in Lines
    BY <1>4, <2>3, <2>5, ConcatProperties DEF Lines
  <2>7. PlaceWord(t, w, max) = [lines |-> Closed(t) \o single, current |-> <<Last(parts)>>]
    BY <1>7 DEF PlaceWord, OnLines, parts
  <2> QED
    BY <2>6, <2>7, <1>4 DEF Turn
<1> QED
  BY <1>5, <1>6, <1>7

\* The recursion in ParagraphLines.
LEMMA ParagraphSteps ==
  ASSUME NEW par \in Nat, NEW words \in Seq(Nat), NEW max \in Nat
  PROVE  \E f \in [0 .. Len(words) -> Turn] :
           /\ f[0] = [lines |-> <<>>, current |-> <<>>]
           /\ \A i \in 1 .. Len(words) : f[i] = PlaceWord(f[i - 1], Piece(par, i, 1, words[i]), max)
           /\ ParagraphLines(par, words, max)
                = IF words = <<0>> THEN << <<Piece(par, 1, 1, 0)>> >> ELSE Closed(f[Len(words)])
<1> DEFINE n == Len(words)
           word(i) == Piece(par, i, 1, words[i])
           a == [lines |-> <<>>, current |-> <<>>]
           g == [x \in Turn \X (1 .. n) |-> PlaceWord(x[1], word(x[2]), max)]
           Unfolded(h) == [i \in 0 .. n |-> IF i = 0 THEN a ELSE PlaceWord(h[i - 1], word(i), max)]
           f == CHOOSE h : h = Unfolded(h)
<1>1. n \in Nat /\ a \in Turn
  BY DEF Turn, Lines
<1>2. \A i \in 1 .. n : word(i) \in Words
  BY WordTyped
<1>3. ParagraphLines(par, words, max)
        = IF words = <<0>> THEN << <<Piece(par, 1, 1, 0)>> >> ELSE Closed(f[n])
  BY DEF ParagraphLines
<1> HIDE DEF n, word, a
<1>5. g \in [Turn \X (1 .. n) -> Turn]
  BY <1>2, PlaceWordTyped
<1>6. \A t \in Turn, i \in 1 .. n : g[<<t, i>>] = PlaceWord(t, word(i), max)
  OBVIOUS
<1> HIDE DEF g
<1>7. \E h : h = Unfolded(h)
  <2>1. PICK h : Iteration(h, Turn, a, n, g)
    BY <1>1, <1>5, Iterates, Zenon
  <2>2. h \in [0 .. n -> Turn] /\ h[0] = a /\ \A i \in 1 .. n : h[i] = g[<<h[i - 1], i>>]
    BY <2>1 DEF Iteration
  <2>3. ASSUME NEW i \in 1 .. n PROVE h[i] = PlaceWord(h[i - 1], word(i), max)
    <3>1. i - 1 \in 0 .. n
      BY <1>1
    <3>2. h[i - 1] \in Turn
      BY <2>2, <3>1
    <3> QED
      BY <2>2, <3>2, <1>6
  <2>4. \A i \in 0 .. n : h[i] = IF i = 0 THEN a ELSE PlaceWord(h[i - 1], word(i), max)
    <3> TAKE i \in 0 .. n
    <3>1. i = 0 \/ i \in 1 .. n
      BY <1>1
    <3> QED
      BY <3>1, <2>2, <2>3
  <2>5. h = Unfolded(h)
    BY <2>2, <2>4
  <2> QED
    BY <2>5
<1>8. f = Unfolded(f)
  BY <1>7
<1> HIDE DEF f
<1>9. f[0] = a /\ \A i \in 1 .. n : f[i] = PlaceWord(f[i - 1], word(i), max)
  <2>1. 0 \in 0 .. n /\ \A i \in 1 .. n : i \in 0 .. n /\ i # 0
    BY <1>1
  <2> QED
    BY <1>8, <2>1
<1>10. Iteration(f, Turn, a, n, g)
  <2>1. f = [i \in 0 .. n |-> f[i]]
    BY <1>8
  <2>2. \A i \in 1 .. n : f[i - 1] \in Turn => f[i] = g[<<f[i - 1], i>>]
    BY <1>6, <1>9
  <2> QED
    BY <1>1, <1>5, <1>9, <2>1, <2>2, IsIteration
<1>11. f \in [0 .. n -> Turn]
  BY <1>10 DEF Iteration
<1> QED
  BY <1>3, <1>9, <1>11 DEF n, a, word

\* The lines of a paragraph are lines of pieces.
LEMMA ParagraphTyped ==
  ASSUME NEW par \in Nat, NEW words \in Seq(Nat), NEW max \in Nat
  PROVE  ParagraphLines(par, words, max) \in Seq(Lines)
<1> DEFINE n == Len(words)
<1>1. PICK f \in [0 .. n -> Turn] :
        ParagraphLines(par, words, max)
          = IF words = <<0>> THEN << <<Piece(par, 1, 1, 0)>> >> ELSE Closed(f[n])
  BY ParagraphSteps
<1>2. << <<Piece(par, 1, 1, 0)>> >> \in Seq(Lines)
  <2>1. Piece(par, 1, 1, 0) \in Pieces
    BY DEF Piece, Pieces
  <2> QED
    BY <2>1 DEF Lines
<1>3. f[n] \in Turn
  BY LenProperties
<1>4. Closed(f[n]) \in Seq(Lines)
  BY <1>3 DEF Closed, Turn
<1> QED
  BY <1>1, <1>2, <1>4

-----------------------------------------------------------------------------
(* Texts *)

Texts == Seq(Seq(Nat))

\* _wrap_text returns lines, whatever the text and the width.
LEMMA WrapTextTyped ==
  ASSUME NEW text \in Texts, NEW max \in Nat
  PROVE  WrapText(text, max) \in Seq(Lines)
<1> DEFINE s == [p \in DOMAIN text |-> ParagraphLines(p, text[p], max)]
<1>1. \A p \in DOMAIN text : p \in Nat /\ text[p] \in Seq(Nat)
  BY DEF Texts
<1>2. \A p \in DOMAIN text : s[p] \in Seq(Lines)
  BY <1>1, ParagraphTyped
<1>3. s \in Seq(Seq(Lines))
  <2>1. DOMAIN text = 1 .. Len(text) /\ Len(text) \in Nat
    BY DEF Texts
  <2>2. s \in [1 .. Len(text) -> Seq(Lines)]
    BY <1>2, <2>1
  <2> QED
    BY <2>1, <2>2, FunctionIsSeq
<1>4. WrapText(text, max) = FlattenSeq(s)
  BY DEF WrapText
<1> HIDE DEF s
<1>5. CASE s = <<>>
  <2>1. Len(s) = 0
    BY <1>5
  <2>2. FlattenSeq(s) = s
    BY <2>1, FlattenNothing
  <2> QED
    BY <1>4, <1>5, <2>2, EmptySeq
<1>6. CASE s # <<>>
  <2>1. PICK f \in [1 .. Len(s) -> Seq(Lines)] : FlattenSeq(s) = f[Len(s)]
    BY <1>3, <1>6, FlattenSteps
  <2>2. Len(s) \in 1 .. Len(s)
    BY <1>3, <1>6
  <2> QED
    BY <1>4, <2>1, <2>2
<1> QED
  BY <1>5, <1>6

\* A title takes two lines at most.
LEMMA TwoLines ==
  ASSUME NEW text \in Texts, NEW max \in Nat
  PROVE  Len(Wrap2Lines(text, max)) \in 0 .. 2
<1> DEFINE lines == WrapText(text, max)
           n == Len(lines)
<1>1. lines \in Seq(Lines)
  BY WrapTextTyped
<1>2. n \in Nat /\ DOMAIN lines = 1 .. n
  BY <1>1, LenProperties
<1>3. Wrap2Lines(text, max) = IF n <= 2 THEN [i \in DOMAIN lines |-> Whole(lines[i])]
                              ELSE <<Whole(lines[1]), Clip(FlattenSeq(Tail(lines)), max)>>
  BY DEF Wrap2Lines, FirstTwo
<1> HIDE DEF lines, n
<1>4. CASE n <= 2
  <2>1. Wrap2Lines(text, max) = [i \in 1 .. n |-> Whole(lines[i])]
    BY <1>2, <1>3, <1>4
  <2>2. \A i \in 1 .. n : Whole(lines[i]) \in {Whole(lines[j]) : j \in 1 .. n}
    OBVIOUS
  <2>3. Wrap2Lines(text, max) \in [1 .. n -> {Whole(lines[j]) : j \in 1 .. n}]
    BY <2>1, <2>2
  <2> QED
    <3>1. Len(Wrap2Lines(text, max)) = n
      BY <1>2, FunctionIsSeq, <2>3
    <3>2. n \in 0 .. 2
      BY <1>2, <1>4
    <3> QED
      BY <3>1, <3>2
<1>5. CASE ~(n <= 2)
  BY <1>3, <1>5
<1> QED
  BY <1>4, <1>5

\* A set of sequences that holds the empty one and with a sequence every longer
\* one has them all.
LEMMA AllSequences ==
  ASSUME NEW S, NEW T \in SUBSET Seq(S), <<>> \in T,
         \A s \in T, e \in S : Append(s, e) \in T
  PROVE  T = Seq(S)
<1> SUFFICES ASSUME NEW s \in Seq(S) PROVE s \in T
  OBVIOUS
<1> DEFINE n == Len(s)
           K == {k \in 0 .. n : SubSeq(s, 1, k) \in T}
<1>1. n \in Nat /\ SubSeq(s, 1, n) = s
  BY LenProperties, SubSeqFull
<1>2. 0 \in K
  <2>1. SubSeq(s, 1, 0) = <<>>
    <3>1. 1 \in Int /\ 0 \in Int /\ 0 < 1
      OBVIOUS
    <3> QED
      BY ONLY <3>1, SubSeqEmpty
  <2>2. 0 \in 0 .. n
    BY <1>1
  <2> QED
    BY <2>1, <2>2
<1>3. ASSUME NEW k \in 1 .. n, k - 1 \in K PROVE k \in K
  <2>1. SubSeq(s, 1, k) = SubSeq(s, 1, k - 1) \o <<s[k]>>
    <3>1. 1 \in 1 .. Len(s) /\ k \in 1 .. Len(s)
      BY <1>1
    <3> QED
      BY ONLY <3>1, s \in Seq(S), SubSeqRecursiveSecond
  <2>2. s[k] \in S /\ SubSeq(s, 1, k - 1) \in T /\ SubSeq(s, 1, k - 1) \in Seq(S)
    BY <1>3, ElementOfSeq
  <2>3. SubSeq(s, 1, k) = Append(SubSeq(s, 1, k - 1), s[k])
    BY <2>1, <2>2, AppendIsConcat
  <2>4. Append(SubSeq(s, 1, k - 1), s[k]) \in T
    BY <2>2
  <2>5. k \in 0 .. n
    BY <1>1
  <2> QED
    BY <2>3, <2>4, <2>5
<1>4. K = 0 .. n
  <2>1. K \in SUBSET (0 .. n)
    OBVIOUS
  <2> HIDE DEF K
  <2> QED
    BY <1>1, <1>2, <1>3, <2>1, UpTo
<1>5. n \in K
  <2>1. n \in 0 .. n
    BY <1>1
  <2> QED
    BY <1>4, <2>1, Zenon
<1> QED
  BY <1>1, <1>5

\* Joining sequences yields a sequence.
LEMMA FlattenTyped ==
  ASSUME NEW S, NEW s \in Seq(Seq(S))
  PROVE  FlattenSeq(s) \in Seq(S)
<1>1. CASE s = <<>>
  BY <1>1, FlattenNothing, EmptySeq
<1>2. CASE s # <<>>
  <2>1. PICK f \in [1 .. Len(s) -> Seq(S)] : FlattenSeq(s) = f[Len(s)]
    BY <1>2, FlattenSteps
  <2>2. Len(s) \in 1 .. Len(s)
    BY <1>2, EmptySeq
  <2> QED
    BY <2>1, <2>2
<1> QED
  BY <1>1, <1>2

\* One more sequence is joined to the end.
LEMMA FlattenAppend ==
  ASSUME NEW S, NEW s \in Seq(Seq(S)), NEW e \in Seq(S)
  PROVE  FlattenSeq(Append(s, e)) = FlattenSeq(s) \o e
<1> DEFINE n == Len(s)
           t == Append(s, e)
<1>1. n \in Nat /\ t \in Seq(Seq(S)) /\ t # <<>> /\ Len(t) = n + 1
      /\ (\A i \in 1 .. n : t[i] = s[i]) /\ t[n + 1] = e
  BY AppendProperties, LenProperties
<1> HIDE DEF t
<1>2. PICK f \in [1 .. Len(t) -> Seq(S)] :
        /\ f[1] = t[1] /\ FlattenSeq(t) = f[Len(t)]
        /\ \A i \in 2 .. Len(t) : f[i] = f[i - 1] \o t[i]
  <2>1. t \in Seq(Seq(S)) /\ t # <<>>
    BY <1>1
  <2> QED
    BY ONLY <2>1, FlattenSteps
<1>3. CASE s = <<>>
  <2>1. n = 0 /\ FlattenSeq(s) = <<>>
    BY <1>3, FlattenNothing
  <2>2. FlattenSeq(t) = e
    BY <1>1, <1>2, <2>1
  <2>3. <<>> \o e = e
    BY ConcatEmptySeq
  <2> QED
    BY <2>1, <2>2, <2>3 DEF t
<1>4. CASE s # <<>>
  <2>1. PICK h \in [1 .. n -> Seq(S)] :
          /\ h[1] = s[1] /\ FlattenSeq(s) = h[n]
          /\ \A i \in 2 .. n : h[i] = h[i - 1] \o s[i]
    BY <1>4, FlattenSteps
  <2>2. n >= 1
    BY <1>4, EmptySeq
  <2> HIDE DEF n
  <2> DEFINE K == {0} \cup {i \in 1 .. n : f[i] = h[i]}
  <2>3. ASSUME NEW i \in 1 .. n, i - 1 \in K PROVE i \in K
    <3>1. t[i] = s[i]
      BY <1>1
    <3>2. CASE i = 1
      BY <3>1, <3>2, <1>2, <2>1
    <3>3. CASE i # 1
      <4>1. i \in 2 .. n /\ i \in 2 .. Len(t) /\ f[i - 1] = h[i - 1]
        BY <1>1, <2>3, <3>3
      <4> QED
        BY <3>1, <4>1, <1>2, <2>1
    <3> QED
      BY <3>2, <3>3
  <2>4. K = 0 .. n
    <3>1. K \in SUBSET (0 .. n) /\ 0 \in K
      BY <1>1
    <3> HIDE DEF K
    <3> QED
      BY <1>1, <2>3, <3>1, UpTo
  <2>5. f[n] = h[n]
    <3>1. n \in 0 .. n /\ n # 0
      BY <1>1, <2>2
    <3>2. n \in K
      BY <2>4, <3>1, Zenon
    <3> QED
      BY <3>1, <3>2
  <2>6. n + 1 \in 2 .. Len(t) /\ (n + 1) - 1 = n
    BY <1>1, <2>2
  <2>7. f[n + 1] = f[n] \o e
    BY <1>1, <1>2, <2>6
  <2> QED
    BY <1>1, <1>2, <2>1, <2>5, <2>7 DEF t
<1> QED
  BY <1>3, <1>4

\* The sequences of two lists are joined one after the other.
LEMMA FlattenConcat ==
  ASSUME NEW S, NEW s \in Seq(Seq(S)), NEW t \in Seq(Seq(S))
  PROVE  FlattenSeq(s \o t) = FlattenSeq(s) \o FlattenSeq(t)
<1> DEFINE V == Seq(S)
           T == {u \in Seq(V) : FlattenSeq(s \o u) = FlattenSeq(s) \o FlattenSeq(u)}
<1>0. FlattenSeq(s) \in V
  BY FlattenTyped
<1>1. <<>> \in T
  <2>1. <<>> \in Seq(V) /\ FlattenSeq(<<>>) = <<>>
    BY FlattenNothing, EmptySeq
  <2>2. s \o <<>> = s /\ FlattenSeq(s) \o <<>> = FlattenSeq(s)
    BY <1>0, ConcatEmptySeq
  <2> QED
    BY <2>1, <2>2
<1>2. ASSUME NEW u \in T, NEW e \in V PROVE Append(u, e) \in T
  <2>1. u \in Seq(V) /\ FlattenSeq(s \o u) = FlattenSeq(s) \o FlattenSeq(u)
    OBVIOUS
  <2>2. s \o u \in Seq(V) /\ Append(u, e) \in Seq(V) /\ FlattenSeq(u) \in V
    BY <2>1, ConcatProperties, AppendProperties, FlattenTyped
  <2>3. s \o Append(u, e) = Append(s \o u, e)
    <3>1. Append(u, e) = u \o <<e>> /\ Append(s \o u, e) = (s \o u) \o <<e>> /\ <<e>> \in Seq(V)
      BY <2>1, <2>2, AppendIsConcat
    <3> HIDE DEF V
    <3> QED
      BY <3>1, <2>1, ConcatAssociative DEF V
  <2>4. FlattenSeq(Append(s \o u, e)) = FlattenSeq(s \o u) \o e
    BY <2>2, FlattenAppend
  <2>5. FlattenSeq(Append(u, e)) = FlattenSeq(u) \o e
    BY <2>1, FlattenAppend
  <2>6. (FlattenSeq(s) \o FlattenSeq(u)) \o e = FlattenSeq(s) \o (FlattenSeq(u) \o e)
    BY <1>0, <2>2, ConcatAssociative
  <2> QED
    BY <2>1, <2>2, <2>3, <2>4, <2>5, <2>6
<1>3. T = Seq(V)
  <2>1. T \in SUBSET Seq(V)
    OBVIOUS
  <2> HIDE DEF T, V
  <2> QED
    BY <1>1, <1>2, <2>1, AllSequences
<1> QED
  BY <1>3

\* A list of one sequence.
LEMMA FlattenOne ==
  ASSUME NEW S, NEW e \in Seq(S)
  PROVE  FlattenSeq(<<e>>) = e
<1>1. <<e>> = Append(<<>>, e) /\ <<>> \in Seq(Seq(S)) /\ FlattenSeq(<<>>) = <<>>
  BY FlattenNothing, EmptySeq
<1>2. FlattenSeq(Append(<<>>, e)) = <<>> \o e
  <2>1. FlattenSeq(Append(<<>>, e)) = FlattenSeq(<<>>) \o e
    BY ONLY <1>1, e \in Seq(S), FlattenAppend, Zenon
  <2> QED
    BY <1>1, <2>1
<1> QED
  BY <1>1, <1>2, ConcatEmptySeq

-----------------------------------------------------------------------------
(* Letters *)

\* A letter is known by its paragraph, its word and its place in the word.
Spots == Nat \X Nat \X Nat

\* What a piece shows is letters.
LEMMA ShownTyped ==
  ASSUME NEW w \in Pieces
  PROVE  Shown(w) \in Seq(Spots)
<1> DEFINE n == PieceWidth(w)
<1>1. n \in Int /\ w.par \in Nat /\ w.word \in Nat /\ w.from \in Nat
  BY WidthTyped DEF Pieces
<1>2. Shown(w) = [i \in 1 .. n |-> <<w.par, w.word, w.from + i - 1>>]
  BY DEF Shown
<1> HIDE DEF n
<1>3. \A i \in 1 .. n : <<w.par, w.word, w.from + i - 1>> \in Spots
  BY <1>1 DEF Spots
<1>4. Shown(w) \in [1 .. n -> Spots]
  BY <1>2, <1>3
<1>5. CASE n \in Nat
  BY <1>4, <1>5, FunctionIsSeq
<1>6. CASE n \notin Nat
  <2>1. 1 .. n = 1 .. 0 /\ 0 \in Nat
    BY <1>1, <1>6
  <2> QED
    BY <1>4, <2>1, FunctionIsSeq
<1> QED
  BY <1>5, <1>6

\* A piece without width shows nothing.
LEMMA ShownNothing ==
  ASSUME NEW w \in Pieces, PieceWidth(w) <= 0
  PROVE  Shown(w) = <<>>
<1> DEFINE n == PieceWidth(w)
<1>1. n \in Int /\ n <= 0
  BY WidthTyped
<1>2. Shown(w) = [i \in 1 .. n |-> <<w.par, w.word, w.from + i - 1>>]
  BY DEF Shown
<1> HIDE DEF n
<1>3. 1 .. n = {}
  BY <1>1
<1>4. Len(Shown(w)) = 0
  <2>1. Shown(w) \in [1 .. 0 -> Spots]
    BY <1>2, <1>3
  <2> QED
    BY <2>1, FunctionIsSeq
<1> QED
  BY <1>4, ShownTyped, EmptySeq

\* What the pieces of a line show.
ShownBy(line) == [k \in DOMAIN line |-> Shown(line[k])]

\* What the pieces of a line show is as many sequences of letters.
LEMMA ShownByTyped ==
  ASSUME NEW line \in Seq(Pieces)
  PROVE  ShownBy(line) \in Seq(Seq(Spots)) /\ Len(ShownBy(line)) = Len(line)
<1>1. DOMAIN line = 1 .. Len(line) /\ Len(line) \in Nat
  BY LenProperties
<1>2. \A k \in 1 .. Len(line) : Shown(line[k]) \in Seq(Spots)
  BY <1>1, ShownTyped, ElementOfSeq
<1>3. ShownBy(line) \in [1 .. Len(line) -> Seq(Spots)]
  BY <1>1, <1>2 DEF ShownBy
<1> QED
  BY <1>1, <1>3, FunctionIsSeq

\* Lines show letters, an empty line none.
LEMMA LettersTyped ==
  /\ \A line \in Seq(Pieces) : Letters(line) \in Seq(Spots)
  /\ Letters(<<>>) = <<>>
<1>1. ASSUME NEW line \in Seq(Pieces) PROVE Letters(line) \in Seq(Spots)
  <2>1. ShownBy(line) \in Seq(Seq(Spots))
    BY ShownByTyped
  <2>2. FlattenSeq(ShownBy(line)) \in Seq(Spots)
    BY <2>1, FlattenTyped
  <2> QED
    BY <2>2 DEF Letters, ShownBy
<1>2. Letters(<<>>) = <<>>
  <2>1. <<>> \in Seq(Pieces) /\ Len(<<>>) = 0
    BY EmptySeq
  <2>2. ShownBy(<<>>) \in Seq(Seq(Spots)) /\ Len(ShownBy(<<>>)) = 0
    BY <2>1, ShownByTyped
  <2>3. ShownBy(<<>>) = <<>> /\ FlattenSeq(ShownBy(<<>>)) = ShownBy(<<>>)
    BY <2>2, EmptySeq, FlattenNothing
  <2> QED
    BY <2>3 DEF Letters, ShownBy
<1> QED
  BY <1>1, <1>2

\* The letters of lines written one after the other.
LEMMA LettersConcat ==
  ASSUME NEW a \in Seq(Pieces), NEW b \in Seq(Pieces)
  PROVE  Letters(a \o b) = Letters(a) \o Letters(b)
<1> DEFINE ab == a \o b
<1>1. /\ ab \in Seq(Pieces) /\ Len(ab) = Len(a) + Len(b)
      /\ \A i \in 1 .. Len(a) + Len(b) : ab[i] = IF i <= Len(a) THEN a[i] ELSE b[i - Len(a)]
  BY ConcatProperties
<1> HIDE DEF ab
<1>2. ShownBy(ab) \in Seq(Seq(Spots)) /\ Len(ShownBy(ab)) = Len(ab)
  BY <1>1, ShownByTyped
<1>3. ShownBy(a) \in Seq(Seq(Spots)) /\ Len(ShownBy(a)) = Len(a)
  BY ShownByTyped
<1>4. ShownBy(b) \in Seq(Seq(Spots)) /\ Len(ShownBy(b)) = Len(b)
  BY ShownByTyped
<1> DEFINE s == ShownBy(a) \o ShownBy(b)
<1>5. /\ s \in Seq(Seq(Spots)) /\ Len(s) = Len(a) + Len(b)
      /\ \A i \in 1 .. Len(a) + Len(b) :
           s[i] = IF i <= Len(a) THEN ShownBy(a)[i] ELSE ShownBy(b)[i - Len(a)]
  <2> DEFINE x == ShownBy(a)
             z == ShownBy(b)
  <2>1. x \in Seq(Seq(Spots)) /\ z \in Seq(Seq(Spots))
    BY <1>3, <1>4
  <2> HIDE DEF x, z
  <2>2. /\ x \o z \in Seq(Seq(Spots)) /\ Len(x \o z) = Len(x) + Len(z)
        /\ \A i \in 1 .. Len(x) + Len(z) : (x \o z)[i] = IF i <= Len(x) THEN x[i] ELSE z[i - Len(x)]
    BY <2>1, ConcatProperties
  <2>3. Len(x) = Len(a) /\ Len(z) = Len(b) /\ s = x \o z
    BY <1>3, <1>4 DEF x, z
  <2> HIDE DEF s
  <2>4. /\ s \in Seq(Seq(Spots)) /\ Len(s) = Len(a) + Len(b)
        /\ \A i \in 1 .. Len(a) + Len(b) : s[i] = IF i <= Len(a) THEN x[i] ELSE z[i - Len(a)]
    BY <2>2, <2>3
  <2> QED
    BY <2>4 DEF x, z
<1> HIDE DEF s
<1>6. ASSUME NEW i \in 1 .. Len(ab) PROVE ShownBy(ab)[i] = s[i]
  <2>1. Len(a) \in Nat /\ Len(b) \in Nat /\ DOMAIN a = 1 .. Len(a) /\ DOMAIN b = 1 .. Len(b)
        /\ DOMAIN ab = 1 .. Len(ab)
    BY <1>1, LenProperties
  <2>2. ShownBy(ab)[i] = Shown(ab[i])
    BY <2>1 DEF ShownBy
  <2>3. CASE i <= Len(a)
    <3>1. i \in DOMAIN a /\ ab[i] = a[i] /\ s[i] = ShownBy(a)[i]
      BY <2>1, <2>3, <1>1, <1>5
    <3> QED
      BY <2>2, <3>1 DEF ShownBy
  <2>4. CASE ~(i <= Len(a))
    <3>1. i - Len(a) \in DOMAIN b /\ ab[i] = b[i - Len(a)] /\ s[i] = ShownBy(b)[i - Len(a)]
      BY <2>1, <2>4, <1>1, <1>5
    <3> QED
      BY <2>2, <3>1 DEF ShownBy
  <2> QED
    BY <2>3, <2>4
<1>7. ShownBy(ab) = s
  <2>1. Len(ShownBy(ab)) = Len(s) /\ \A i \in 1 .. Len(ShownBy(ab)) : ShownBy(ab)[i] = s[i]
    BY <1>1, <1>2, <1>5, <1>6
  <2> QED
    BY <1>2, <1>5, <2>1, SeqEqual
<1>8. FlattenSeq(s) = FlattenSeq(ShownBy(a)) \o FlattenSeq(ShownBy(b))
  BY <1>3, <1>4, FlattenConcat DEF s
<1> QED
  BY <1>7, <1>8 DEF Letters, ShownBy, ab

\* The letters of a line of one piece.
LEMMA LettersOfOne ==
  ASSUME NEW w \in Pieces
  PROVE  Letters(<<w>>) = Shown(w)
<1>1. <<w>> \in Seq(Pieces) /\ Len(<<w>>) = 1 /\ <<w>>[1] = w
  OBVIOUS
<1>2. ShownBy(<<w>>) \in Seq(Seq(Spots)) /\ Len(ShownBy(<<w>>)) = 1
  BY <1>1, ShownByTyped
<1>3. Shown(w) \in Seq(Spots)
  BY ShownTyped
<1>4. ShownBy(<<w>>)[1] = Shown(w)
  BY <1>1 DEF ShownBy
<1>5. ShownBy(<<w>>) = <<Shown(w)>>
  <2>1. <<Shown(w)>> \in Seq(Seq(Spots)) /\ Len(<<Shown(w)>>) = 1 /\ <<Shown(w)>>[1] = Shown(w)
    BY <1>3
  <2>2. \A i \in 1 .. Len(ShownBy(<<w>>)) : ShownBy(<<w>>)[i] = <<Shown(w)>>[i]
    BY <1>2, <1>4, <2>1
  <2> QED
    BY <1>2, <2>1, <2>2, SeqEqual
<1>6. FlattenSeq(<<Shown(w)>>) = Shown(w)
  BY <1>3, FlattenOne
<1> QED
  BY <1>5, <1>6 DEF Letters, ShownBy

\* The letters of a line with one more piece.
LEMMA LettersAppend ==
  ASSUME NEW line \in Seq(Pieces), NEW w \in Pieces
  PROVE  Letters(Append(line, w)) = Letters(line) \o Shown(w)
<1>1. Append(line, w) = line \o <<w>> /\ <<w>> \in Seq(Pieces)
  BY AppendIsConcat
<1> QED
  BY <1>1, LettersConcat, LettersOfOne

\* A line without pieces has no width.
LEMMA WidthOfNone == LineWidth(<<>>) = 0
<1>1. <<>> \in Seq(Pieces) /\ Len(<<>>) = 0
  BY EmptySeq
<1>2. PICK f : /\ LineWidth(<<>>) = f[Len(<<>>)]
               /\ Iteration(f, Int, 0, Len(<<>>),
                    [x \in Int \X (1 .. Len(<<>>)) |-> WidthAfter(<<>>, x[1], x[2])])
  BY <1>1, WidthIteration
<1>3. f[0] = 0
  BY <1>2 DEF Iteration
<1> QED
  BY <1>1, <1>2, <1>3

\* One more piece adds its width and that of a space before it.
LEMMA WidthAppend ==
  ASSUME NEW line \in Seq(Pieces), NEW w \in Pieces
  PROVE  LineWidth(Append(line, w))
           = LineWidth(line) + (IF line = <<>> THEN 0 ELSE 1) + PieceWidth(w)
<1> DEFINE n == Len(line)
           t == Append(line, w)
           G(l, m) == [x \in Int \X (1 .. m) |-> WidthAfter(l, x[1], x[2])]
<1>1. /\ n \in Nat /\ t \in Seq(Pieces) /\ Len(t) = n + 1
      /\ (\A i \in 1 .. n : t[i] = line[i]) /\ t[n + 1] = w
  BY AppendProperties, LenProperties
<1>2. PICK h : LineWidth(line) = h[n] /\ Iteration(h, Int, 0, n, G(line, n))
  BY WidthIteration
<1> HIDE DEF t, n
<1>3. PICK f : LineWidth(t) = f[n + 1] /\ Iteration(f, Int, 0, n + 1, G(t, n + 1))
  <2>1. PICK f : LineWidth(t) = f[Len(t)] /\ Iteration(f, Int, 0, Len(t), G(t, Len(t)))
    <3>1. t \in Seq(Pieces)
      BY <1>1
    <3> QED
      BY ONLY <3>1, WidthIteration
  <2>2. Len(t) = n + 1
    BY <1>1
  <2> HIDE DEF G
  <2>3. LineWidth(t) = f[n + 1] /\ Iteration(f, Int, 0, n + 1, G(t, n + 1))
    BY <2>1, <2>2
  <2> QED
    BY <2>3
<1>4. \A x \in Int, i \in 1 .. n : G(line, n)[<<x, i>>] = G(t, n + 1)[<<x, i>>]
  <2> TAKE x \in Int, i \in 1 .. n
  <2>1. i \in 1 .. n + 1 /\ t[i] = line[i]
    BY <1>1
  <2>2. G(line, n)[<<x, i>>] = WidthAfter(line, x, i)
    OBVIOUS
  <2>3. G(t, n + 1)[<<x, i>>] = WidthAfter(t, x, i)
    BY <2>1
  <2> QED
    BY <2>1, <2>2, <2>3 DEF WidthAfter
<1>5. \A x \in Int : G(t, n + 1)[<<x, n + 1>>] = WidthAfter(t, x, n + 1)
  <2> TAKE x \in Int
  <2>1. n + 1 \in 1 .. n + 1
    BY <1>1
  <2> QED
    BY <2>1
<1> HIDE DEF G
<1>6. h[n] = f[n]
  <2>1. 0 \in Int /\ n + 1 \in Nat /\ n <= n + 1 /\ n \in 0 .. n
    BY <1>1
  <2>2. \A i \in 0 .. n : h[i] = f[i]
    <3> DEFINE ga == G(line, n)
               gb == G(t, n + 1)
               m  == n + 1
               zero == 0
               V == Int
    <3>1. /\ Iteration(h, V, zero, n, ga) /\ Iteration(f, V, zero, m, gb)
          /\ zero \in V /\ n \in Nat /\ m \in Nat /\ n <= m
          /\ \A x \in V, i \in 1 .. n : ga[<<x, i>>] = gb[<<x, i>>]
      BY <1>1, <1>2, <1>3, <1>4, <2>1
    <3> HIDE DEF ga, gb, m, zero, V
    <3> QED
      BY ONLY <3>1, SameIteration
  <2> QED
    BY <2>1, <2>2
<1>7. f[n] \in Int /\ f[n + 1] = WidthAfter(t, f[n], n + 1)
  <2>1. n + 1 \in 1 .. n + 1 /\ (n + 1) - 1 = n /\ n \in 0 .. n + 1
    BY <1>1
  <2>2. f[n] \in Int /\ f[n + 1] = G(t, n + 1)[<<f[n], n + 1>>]
    BY <1>3, <2>1 DEF Iteration
  <2> QED
    BY <2>2, <1>5
<1>8. (n + 1 = 1) <=> (line = <<>>)
  BY EmptySeq DEF n
<1> QED
  BY <1>1, <1>2, <1>3, <1>6, <1>7, <1>8 DEF WidthAfter, t

-----------------------------------------------------------------------------
(* Words that are too long for a line                                      *)

\* The parts of a word: they belong to it, show its letters in order, and each is
\* as wide as the line, or a single character, at most.
PartsOf(w, max, parts) ==
  /\ parts \in Seq(Pieces) /\ parts # <<>>
  /\ Letters(parts) = Shown(w)
  /\ \A i \in 1 .. Len(parts) :
       /\ parts[i].par = w.par /\ parts[i].word = w.word
       /\ PieceWidth(parts[i]) >= 1
       /\ PieceWidth(parts[i]) <= max \/ PieceWidth(parts[i]) = 1

\* HardBreak breaks a word into such parts.
LEMMA HardBreakParts ==
  ASSUME NEW w \in Words, NEW max \in Nat, PieceWidth(w) >= 1
  PROVE  PartsOf(w, max, HardBreak(w, max))
<1> DEFINE k == IF max < 1 THEN 1 ELSE max
           n == PieceWidth(w)
           q == (n + k - 1) \div k
           Cut(i) == IF i * k < n THEN i * k ELSE n
           part(i) == [w EXCEPT !.from = (i - 1) * k + 1, !.to = IF i * k < n THEN i * k ELSE n]
           parts == HardBreak(w, max)
<1>1. k \in Nat \ {0} /\ n \in Nat \ {0} /\ w \in Pieces /\ w.from = 1 /\ (k <= max \/ k = 1)
  BY DEF Words, Pieces, PieceWidth
<1>2. parts = [i \in 1 .. q |-> part(i)]
  BY DEF HardBreak
<1>3. parts \in Seq(Pieces) /\ parts # <<>>
  BY HardBreakTyped
<1>4. Shown(w) = [j \in 1 .. n |-> <<w.par, w.word, j>>]
  <2>1. \A j \in 1 .. n : w.from + j - 1 = j
    BY <1>1
  <2> QED
    BY <2>1 DEF Shown
<1> HIDE DEF n, k, parts
<1>5. q \in Nat /\ q * k <= n + k - 1 /\ n + k - 1 < q * k + k
  BY <1>1
<1> HIDE DEF q
<1>6. ASSUME NEW i \in 1 .. q PROVE (i - 1) * k \in Nat /\ (i - 1) * k < n
  <2>1. i - 1 \in Nat /\ q - i \in Nat /\ i \in Nat
    BY <1>5
  <2>2. (i - 1) * k \in Nat /\ (q - i) * k \in Nat /\ q * k \in Nat
    BY <1>1, <1>5, <2>1
  <2>3. (i - 1) * k + (q - i) * k + k = q * k
    BY <1>1, <1>5, <2>1
  <2> QED
    BY <1>1, <1>5, <2>2, <2>3
<1>7. ASSUME NEW i \in 1 .. q
      PROVE  /\ i * k \in Nat /\ i * k = (i - 1) * k + k /\ Cut(i) \in Nat
             /\ (i - 1) * k < Cut(i) /\ Cut(i) <= (i - 1) * k + k
  BY <1>1, <1>5, <1>6
<1>8. Cut(q) = n
  BY <1>1, <1>5
<1>9. DOMAIN parts = 1 .. q /\ Len(parts) = q /\ \A i \in 1 .. q : parts[i] = part(i)
  <2>1. DOMAIN parts = 1 .. q /\ \A i \in 1 .. q : parts[i] = part(i)
    BY <1>2
  <2>2. Len(parts) \in Nat /\ DOMAIN parts = 1 .. Len(parts)
    BY <1>3, LenProperties
  <2> HIDE DEF part
  <2> QED
    BY <2>1, <2>2, <1>5
<1>10. ASSUME NEW i \in 1 .. q
       PROVE  /\ parts[i].par = w.par /\ parts[i].word = w.word
              /\ parts[i].from = (i - 1) * k + 1 /\ parts[i].to = Cut(i)
  BY <1>1, <1>9 DEF Pieces
<1> HIDE DEF Cut, part
<1>11. ASSUME NEW i \in 1 .. q
       PROVE  PieceWidth(parts[i]) = Cut(i) - (i - 1) * k
  BY <1>6, <1>7, <1>10 DEF PieceWidth
<1>12. ASSUME NEW i \in 1 .. q
       PROVE  PieceWidth(parts[i]) >= 1 /\ (PieceWidth(parts[i]) <= max \/ PieceWidth(parts[i]) = 1)
  <2>1. PieceWidth(parts[i]) <= k
    BY <1>1, <1>6, <1>7, <1>11
  <2>2. PieceWidth(parts[i]) \in Int /\ PieceWidth(parts[i]) >= 1
    BY <1>1, <1>6, <1>7, <1>11
  <2> QED
    BY <1>1, <2>1, <2>2
<1> DEFINE From(j) == [i \in 1 .. j |-> <<w.par, w.word, i>>]
<1>13. Letters(parts) = Shown(w)
  <2> DEFINE T == {0} \cup {i \in 1 .. q : Letters(SubSeq(parts, 1, i)) = From(Cut(i))}
  <2>1. \A j \in Nat : From(j) \in Seq(Spots) /\ Len(From(j)) = j /\ \A i \in 1 .. j : From(j)[i] = <<w.par, w.word, i>>
    <3> TAKE j \in Nat
    <3>1. \A i \in 1 .. j : <<w.par, w.word, i>> \in Spots
      BY <1>1 DEF Spots, Pieces
    <3>2. From(j) \in [1 .. j -> Spots] /\ \A i \in 1 .. j : From(j)[i] = <<w.par, w.word, i>>
      BY <3>1
    <3> HIDE DEF From
    <3> QED
      BY <3>2, FunctionIsSeq
  <2> HIDE DEF From
  <2>2. ASSUME NEW i \in 1 .. q, i - 1 \in T PROVE i \in T
    <3> DEFINE before == SubSeq(parts, 1, i - 1)
               m == (i - 1) * k
    <3>1. m \in Nat /\ m < n /\ Cut(i) \in Nat /\ m < Cut(i) /\ (i = 1 => m = 0)
      BY <1>1, <1>6, <1>7
    <3>2. before \in Seq(Pieces) /\ Letters(before) = From(m)
      <4>1. CASE i = 1
        <5>1. before = <<>>
          <6>1. 1 \in Int /\ i - 1 \in Int /\ i - 1 < 1
            BY <4>1
          <6> QED
            BY ONLY <6>1, SubSeqEmpty
        <5>2. From(m) = <<>>
          BY <2>1, <3>1, <4>1, EmptySeq
        <5> QED
          BY <5>1, <5>2, LettersTyped, EmptySeq
      <4>2. CASE i # 1
        <5>1. i - 1 \in 1 .. q /\ Cut(i - 1) = m
          <6>1. i - 1 \in 1 .. q
            BY <1>5, <4>2
          <6> QED
            BY <6>1, <3>1 DEF Cut
        <5>2. Letters(before) = From(Cut(i - 1))
          BY <2>2, <4>2, <5>1
        <5>3. before \in Seq(Pieces)
          <6>1. 1 \in Int /\ i - 1 \in Int /\ \A j \in 1 .. i - 1 : parts[j] \in Pieces
            <7>1. \A j \in 1 .. i - 1 : j \in 1 .. Len(parts)
              BY <1>5, <1>9
            <7> QED
              BY <1>3, <7>1, ElementOfSeq
          <6> QED
            BY ONLY <6>1, SubSeqProperties
        <5> QED
          BY <5>1, <5>2, <5>3
      <4> QED
        BY <4>1, <4>2
    <3>3. parts[i] \in Pieces /\ SubSeq(parts, 1, i) = Append(before, parts[i])
      <4>1. 1 \in 1 .. Len(parts) /\ i \in 1 .. Len(parts)
        BY <1>5, <1>9
      <4>2. SubSeq(parts, 1, i) = before \o <<parts[i]>> /\ parts[i] \in Pieces
        BY <1>3, <4>1, SubSeqRecursiveSecond, ElementOfSeq
      <4> QED
        BY <3>2, <4>2, AppendIsConcat
    <3> HIDE DEF before
    <3>4. Letters(SubSeq(parts, 1, i)) = From(m) \o Shown(parts[i])
      BY <3>2, <3>3, LettersAppend
    <3>5. /\ Shown(parts[i]) \in Seq(Spots) /\ Len(Shown(parts[i])) = Cut(i) - m
          /\ \A j \in 1 .. Cut(i) - m : Shown(parts[i])[j] = <<w.par, w.word, m + j>>
      <4> DEFINE d == Cut(i) - m
      <4>1. d \in Nat /\ PieceWidth(parts[i]) = d
        BY <3>1, <1>11
      <4>2. \A j \in 1 .. d : parts[i].from + j - 1 = m + j
        BY <1>10, <3>1, <4>1
      <4> HIDE DEF d, m
      <4>3. Shown(parts[i]) = [j \in 1 .. d |-> <<w.par, w.word, m + j>>]
        BY <1>10, <4>1, <4>2 DEF Shown
      <4>4. Shown(parts[i]) \in Seq(Spots)
        BY <3>3, ShownTyped
      <4>5. Len(Shown(parts[i])) = d
        <5>1. Len(Shown(parts[i])) \in Nat /\ DOMAIN Shown(parts[i]) = 1 .. Len(Shown(parts[i]))
          BY <4>4, LenProperties
        <5>2. DOMAIN Shown(parts[i]) = 1 .. d
          BY <4>3
        <5> QED
          BY <5>1, <5>2, <4>1
      <4>6. \A j \in 1 .. d : Shown(parts[i])[j] = <<w.par, w.word, m + j>>
        BY <4>3
      <4> QED
        BY <4>4, <4>5, <4>6 DEF d
    <3> HIDE DEF m
    <3>6. From(m) \o Shown(parts[i]) = From(Cut(i))
      <4> DEFINE x == From(m)
                 z == Shown(parts[i])
                 c == Cut(i)
      <4>1. /\ x \in Seq(Spots) /\ Len(x) = m /\ \A j \in 1 .. m : x[j] = <<w.par, w.word, j>>
        BY <2>1, <3>1
      <4>2. /\ z \in Seq(Spots) /\ Len(z) = c - m
            /\ \A j \in 1 .. c - m : z[j] = <<w.par, w.word, m + j>>
        BY <3>5
      <4>3. /\ From(c) \in Seq(Spots) /\ Len(From(c)) = c
            /\ \A j \in 1 .. c : From(c)[j] = <<w.par, w.word, j>>
        BY <2>1, <3>1
      <4>4. m \in Nat /\ c \in Nat /\ m < c
        BY <3>1
      <4> HIDE DEF x, z, c
      <4>5. /\ x \o z \in Seq(Spots) /\ Len(x \o z) = c
            /\ \A j \in 1 .. c : (x \o z)[j] = IF j <= m THEN x[j] ELSE z[j - m]
        <5>1. /\ x \o z \in Seq(Spots) /\ Len(x \o z) = Len(x) + Len(z)
              /\ \A j \in 1 .. Len(x) + Len(z) : (x \o z)[j] = IF j <= Len(x) THEN x[j] ELSE z[j - Len(x)]
          BY <4>1, <4>2, ConcatProperties
        <5>2. Len(x) = m /\ Len(x) + Len(z) = c
          BY <4>1, <4>2, <4>4
        <5> QED
          BY <5>1, <5>2
      <4>6. ASSUME NEW j \in 1 .. c PROVE (x \o z)[j] = From(c)[j]
        <5>1. CASE j <= m
          <6>1. j \in 1 .. m
            BY <5>1, <4>4
          <6>2. (x \o z)[j] = x[j]
            BY <5>1, <4>5
          <6> QED
            BY <6>1, <6>2, <4>1, <4>3
        <5>2. CASE ~(j <= m)
          <6>1. j - m \in 1 .. c - m /\ m + (j - m) = j
            BY <5>2, <4>4
          <6>2. z[j - m] = <<w.par, w.word, m + (j - m)>>
            BY <6>1, <4>2
          <6> QED
            BY <5>2, <6>1, <6>2, <4>3, <4>5
        <5> QED
          BY <5>1, <5>2
      <4>7. x \o z = From(c)
        BY <4>3, <4>5, <4>6, SeqEqual
      <4> QED
        BY <4>7 DEF x, z, c
    <3> QED
      BY <3>4, <3>6
  <2>3. T = 0 .. q
    <3>1. T \in SUBSET (0 .. q) /\ 0 \in T
      BY <1>5
    <3> HIDE DEF T
    <3> QED
      BY <1>5, <2>2, <3>1, UpTo
  <2>4. q \in 1 .. q /\ q \in 0 .. q
    <3>1. q # 0
      BY <1>3, <1>9, EmptySeq
    <3> QED
      BY <3>1, <1>5
  <2>5. Letters(SubSeq(parts, 1, q)) = From(Cut(q))
    <3>1. q \in T /\ q # 0
      <4>1. q \in T
        BY <2>3, <2>4, Zenon
      <4> QED
        BY <4>1, <2>4, <1>5
    <3> QED
      BY <3>1
  <2>6. SubSeq(parts, 1, q) = parts
    BY <1>3, <1>9, SubSeqFull
  <2> QED
    BY <2>5, <2>6, <1>4, <1>8 DEF From
<1>14. \A i \in 1 .. Len(parts) :
         /\ parts[i].par = w.par /\ parts[i].word = w.word
         /\ PieceWidth(parts[i]) >= 1
         /\ PieceWidth(parts[i]) <= max \/ PieceWidth(parts[i]) = 1
  BY <1>9, <1>10, <1>12
<1> QED
  BY <1>3, <1>13, <1>14 DEF PartsOf, parts

\* Pieces on lines of their own.
LEMMA FlattenSingles ==
  ASSUME NEW S, NEW s \in Seq(S)
  PROVE  /\ [i \in 1 .. Len(s) |-> <<s[i]>>] \in Seq(Seq(S))
         /\ FlattenSeq([i \in 1 .. Len(s) |-> <<s[i]>>]) = s
<1> DEFINE Singles(u) == [i \in 1 .. Len(u) |-> <<u[i]>>]
           T == {u \in Seq(S) : FlattenSeq(Singles(u)) = u}
<1>1. ASSUME NEW u \in Seq(S)
      PROVE  Singles(u) \in Seq(Seq(S)) /\ Len(Singles(u)) = Len(u)
             /\ \A i \in 1 .. Len(u) : Singles(u)[i] = <<u[i]>>
  <2>1. Len(u) \in Nat /\ \A i \in 1 .. Len(u) : <<u[i]>> \in Seq(S)
    <3>1. \A i \in 1 .. Len(u) : u[i] \in S
      BY ElementOfSeq
    <3> QED
      BY <3>1, LenProperties
  <2>2. Singles(u) \in [1 .. Len(u) -> Seq(S)] /\ \A i \in 1 .. Len(u) : Singles(u)[i] = <<u[i]>>
    BY <2>1
  <2> HIDE DEF Singles
  <2> QED
    BY <2>1, <2>2, FunctionIsSeq
<1> HIDE DEF Singles
<1>2. <<>> \in T
  <2>1. <<>> \in Seq(S) /\ Len(<<>>) = 0
    BY EmptySeq
  <2>2. Len(Singles(<<>>)) = 0 /\ Singles(<<>>) \in Seq(Seq(S))
    BY <1>1, <2>1
  <2>3. Singles(<<>>) = <<>> /\ FlattenSeq(Singles(<<>>)) = Singles(<<>>)
    BY <2>2, EmptySeq, FlattenNothing
  <2> QED
    BY <2>1, <2>3
<1>3. ASSUME NEW u \in T, NEW e \in S PROVE Append(u, e) \in T
  <2> DEFINE v == Append(u, e)
  <2>1. u \in Seq(S) /\ FlattenSeq(Singles(u)) = u
    OBVIOUS
  <2>2. /\ v \in Seq(S) /\ Len(v) = Len(u) + 1 /\ (\A i \in 1 .. Len(u) : v[i] = u[i])
        /\ v[Len(u) + 1] = e /\ Len(u) \in Nat
    BY <2>1, AppendProperties, LenProperties
  <2>3. <<e>> \in Seq(S) /\ v = u \o <<e>>
    BY <2>1, AppendIsConcat
  <2> HIDE DEF v
  <2> DEFINE a == Append(Singles(u), <<e>>)
  <2>4. Singles(u) \in Seq(Seq(S)) /\ Len(Singles(u)) = Len(u)
        /\ \A i \in 1 .. Len(u) : Singles(u)[i] = <<u[i]>>
    BY <1>1, <2>1
  <2>5. /\ a \in Seq(Seq(S)) /\ Len(a) = Len(u) + 1
        /\ (\A i \in 1 .. Len(u) : a[i] = Singles(u)[i]) /\ a[Len(u) + 1] = <<e>>
    BY <2>3, <2>4, AppendProperties
  <2>6. Singles(v) \in Seq(Seq(S)) /\ Len(Singles(v)) = Len(u) + 1
        /\ \A i \in 1 .. Len(u) + 1 : Singles(v)[i] = <<v[i]>>
    BY <1>1, <2>2
  <2>7. FlattenSeq(a) = u \o <<e>>
    BY <2>1, <2>3, <2>4, FlattenAppend
  <2> HIDE DEF a
  <2>8. ASSUME NEW i \in 1 .. Len(u) + 1 PROVE Singles(v)[i] = a[i]
    <3>1. CASE i = Len(u) + 1
      BY <3>1, <2>2, <2>5, <2>6
    <3>2. CASE i # Len(u) + 1
      <4>1. i \in 1 .. Len(u)
        BY <3>2, <2>2
      <4> QED
        BY <4>1, <2>2, <2>4, <2>5, <2>6
    <3> QED
      BY <3>1, <3>2
  <2>9. Singles(v) = a
    BY <2>5, <2>6, <2>8, SeqEqual
  <2> QED
    BY <2>2, <2>3, <2>7, <2>9 DEF v
<1>4. T = Seq(S)
  <2>1. T \in SUBSET Seq(S)
    OBVIOUS
  <2> HIDE DEF T
  <2> QED
    BY <1>2, <1>3, <2>1, AllSequences
<1>5. FlattenSeq(Singles(s)) = s
  BY <1>4
<1> QED
  BY <1>1, <1>5 DEF Singles

-----------------------------------------------------------------------------
(* Lines of a paragraph that are filled well                               *)

\* A line of pieces of a paragraph, no wider than allowed.
FullLine(l, par, max) ==
  /\ l \in Lines /\ l # <<>>
  /\ \A j \in 1 .. Len(l) : l[j].par = par /\ PieceWidth(l[j]) >= 0
  /\ LineWidth(l) >= 0 /\ (LineWidth(l) <= max \/ LineWidth(l) = 1)

\* The first word of the next line did not fit on line l.
EndsBefore(l, next, words, max) == LineWidth(l) + 1 + words[next[1].word] > max

\* Lines of a paragraph that are full, each of which ends before the next.
FullLines(ls, par, words, max) ==
  /\ ls \in Seq(Lines)
  /\ \A i \in 1 .. Len(ls) : FullLine(ls[i], par, max)
  /\ \A i \in 1 .. Len(ls) - 1 : EndsBefore(ls[i], ls[i + 1], words, max)

\* One more line that is filled well, after one that had no room for its first word.
LEMMA FullLinesAppend ==
  ASSUME NEW par, NEW words, NEW max, NEW ls, NEW l,
         FullLines(ls, par, words, max), FullLine(l, par, max),
         ls # <<>> => EndsBefore(Last(ls), l, words, max)
  PROVE  FullLines(Append(ls, l), par, words, max)
<1> DEFINE n == Len(ls)
           t == Append(ls, l)
<1>1. ls \in Seq(Lines) /\ l \in Lines
  BY DEF FullLines, FullLine
<1>2. /\ n \in Nat /\ t \in Seq(Lines) /\ Len(t) = n + 1
      /\ (\A i \in 1 .. n : t[i] = ls[i]) /\ t[n + 1] = l
  BY <1>1, AppendProperties, LenProperties
<1>3. n = 0 \/ (ls # <<>> /\ Last(ls) = ls[n])
  BY EmptySeq DEF Last
<1>4. /\ \A i \in 1 .. n : FullLine(ls[i], par, max)
      /\ \A i \in 1 .. n - 1 : EndsBefore(ls[i], ls[i + 1], words, max)
  BY DEF FullLines
<1> HIDE DEF n, t
<1>5. ASSUME NEW i \in 1 .. n + 1 PROVE FullLine(t[i], par, max)
  <2>1. i \in 1 .. n \/ i = n + 1
    BY <1>2
  <2> QED
    BY <2>1, <1>2, <1>4
<1>6. ASSUME NEW i \in 1 .. n PROVE EndsBefore(t[i], t[i + 1], words, max)
  <2>1. CASE i = n
    BY <2>1, <1>2, <1>3
  <2>2. CASE i # n
    <3>1. i \in 1 .. n - 1 /\ i + 1 \in 1 .. n
      BY <2>2, <1>2
    <3> QED
      BY <3>1, <1>2, <1>4
  <2> QED
    BY <2>1, <2>2
<1>7. (n + 1) - 1 = n
  BY <1>2
<1> QED
  BY <1>2, <1>5, <1>6, <1>7 DEF FullLines, t

\* All parts of a word but the last, on lines of their own.
SinglesOf(parts, single) ==
  /\ single \in Seq(Lines) /\ Len(single) = Len(parts) - 1
  /\ \A i \in 1 .. Len(single) : single[i] = <<parts[i]>>

\* Lines go on with the parts of word w, the last of which is the current line.
GoesOn(ls, single, parts, w, par, words, max) ==
  /\ FullLines(ls \o single, par, words, max)
  /\ FullLine(<<Last(parts)>>, par, max) /\ LineWidth(<<Last(parts)>>) > 0
  /\ ls \o single # <<>> => EndsBefore(Last(ls \o single), <<Last(parts)>>, words, max)
  /\ Letters(FlattenSeq(ls \o single)) \o Letters(<<Last(parts)>>) = Letters(FlattenSeq(ls)) \o Shown(w)

\* The parts of a word too long for a line, after lines that are filled well.
LEMMA FullLinesParts ==
  ASSUME NEW par \in Nat, NEW words, NEW max \in Nat, NEW ls, NEW w \in Words,
         w.par = par, words[w.word] = PieceWidth(w), PieceWidth(w) > max,
         FullLines(ls, par, words, max), NEW parts, PartsOf(w, max, parts),
         NEW single, SinglesOf(parts, single)
  PROVE  GoesOn(ls, single, parts, w, par, words, max)
<1> PICK m \in Nat : m = Len(single)
  BY LenProperties DEF SinglesOf
<1> DEFINE t == ls \o single
           n == Len(ls)
<1>1. /\ parts \in Seq(Pieces) /\ parts # <<>> /\ Letters(parts) = Shown(w)
      /\ \A i \in 1 .. Len(parts) :
           /\ parts[i].par = w.par /\ parts[i].word = w.word
           /\ PieceWidth(parts[i]) >= 1
           /\ PieceWidth(parts[i]) <= max \/ PieceWidth(parts[i]) = 1
  BY DEF PartsOf
<1>2. /\ ls \in Seq(Lines) /\ n \in Nat
      /\ \A i \in 1 .. n : FullLine(ls[i], par, max)
      /\ \A i \in 1 .. n - 1 : EndsBefore(ls[i], ls[i + 1], words, max)
  BY LenProperties DEF FullLines
<1>3. Len(parts) = m + 1 /\ Last(parts) = parts[m + 1]
  <2>1. Len(parts) \in Nat /\ m = Len(parts) - 1
    BY <1>1, LenProperties DEF SinglesOf
  <2>2. Len(parts) = m + 1
    BY <2>1
  <2> QED
    BY <2>2 DEF Last
<1>4. ASSUME NEW i \in 1 .. m + 1
      PROVE  /\ parts[i] \in Pieces /\ <<parts[i]>> \in Lines
             /\ FullLine(<<parts[i]>>, par, max) /\ LineWidth(<<parts[i]>>) > 0
             /\ <<parts[i]>>[1].word = w.word
  <2>1. parts[i] \in Pieces
    BY <1>1, <1>3, ElementOfSeq
  <2>2. LineWidth(<<parts[i]>>) = PieceWidth(parts[i]) /\ PieceWidth(parts[i]) \in Int
    BY <2>1, WidthOfOne, WidthTyped
  <2>3. parts[i].par = par /\ parts[i].word = w.word /\ PieceWidth(parts[i]) >= 1
        /\ (PieceWidth(parts[i]) <= max \/ PieceWidth(parts[i]) = 1)
    BY <1>1, <1>3
  <2> DEFINE p == parts[i]
  <2>4. <<p>> \in Lines /\ <<p>> # <<>> /\ Len(<<p>>) = 1 /\ <<p>>[1] = p
    BY <2>1 DEF Lines
  <2> HIDE DEF p
  <2>5. \A j \in 1 .. Len(<<p>>) : <<p>>[j] = p
    BY <2>4
  <2>6. FullLine(<<p>>, par, max) /\ LineWidth(<<p>>) > 0
    BY <2>2, <2>3, <2>4, <2>5 DEF FullLine, p
  <2> QED
    BY <2>1, <2>3, <2>4, <2>6 DEF p
<1>5. single \in Seq(Lines) /\ Len(single) = m /\ \A i \in 1 .. m : single[i] = <<parts[i]>>
  BY DEF SinglesOf
<1>6. /\ t \in Seq(Lines) /\ Len(t) = n + m
      /\ \A i \in 1 .. n + m : t[i] = IF i <= n THEN ls[i] ELSE single[i - n]
  <2>1. /\ t \in Seq(Lines) /\ Len(t) = Len(ls) + Len(single)
        /\ \A i \in 1 .. Len(ls) + Len(single) :
             t[i] = IF i <= Len(ls) THEN ls[i] ELSE single[i - Len(ls)]
    BY <1>2, <1>5, ConcatProperties
  <2>2. Len(ls) = n /\ Len(single) = m
    BY <1>5
  <2> HIDE DEF t, n
  <2> QED
    BY <2>1, <2>2
<1> HIDE DEF t
<1>7. ASSUME NEW i \in 1 .. n + m
      PROVE  FullLine(t[i], par, max) /\ (i > n => t[i][1].word = w.word)
  <2>1. CASE i <= n
    <3>1. i \in 1 .. n
      BY <2>1, <1>2
    <3> QED
      <4>1. t[i] = ls[i]
        BY <2>1, <1>6
      <4>2. FullLine(ls[i], par, max)
        BY <3>1, <1>2
      <4>3. ~(i > n)
        BY <2>1, <1>2
      <4> QED
        BY <4>1, <4>2, <4>3
  <2>2. CASE ~(i <= n)
    <3>1. i - n \in 1 .. m /\ i - n \in 1 .. m + 1
      BY <2>2, <1>2
    <3>2. t[i] = <<parts[i - n]>>
      <4>1. t[i] = single[i - n]
        BY <2>2, <1>6
      <4> QED
        BY <3>1, <4>1, <1>5
    <3> QED
      BY <3>1, <3>2, <1>4
  <2> QED
    BY <2>1, <2>2
<1>8. \A l, next : FullLine(l, par, max) /\ next[1].word = w.word => EndsBefore(l, next, words, max)
  <2> TAKE l, next
  <2> HAVE FullLine(l, par, max) /\ next[1].word = w.word
  <2>1. LineWidth(l) \in Int /\ LineWidth(l) >= 0
    BY LineWidthTyped DEF FullLine, Lines
  <2>2. words[next[1].word] = PieceWidth(w) /\ PieceWidth(w) \in Int
    BY WidthTyped DEF Words
  <2> DEFINE a == LineWidth(l)
             b == words[next[1].word]
  <2>3. a \in Int /\ a >= 0 /\ b \in Int /\ b > max
    BY <2>1, <2>2
  <2> HIDE DEF a, b
  <2>4. a + 1 + b > max
    BY <2>3
  <2> QED
    BY <2>4 DEF EndsBefore, a, b
<1>9. ASSUME NEW i \in 1 .. (n + m) - 1 PROVE EndsBefore(t[i], t[i + 1], words, max)
  <2>1. n + m \in Nat /\ i \in 1 .. n + m /\ i + 1 \in 1 .. n + m
    BY <1>2
  <2>2. CASE i + 1 <= n
    <3>1. i \in 1 .. n - 1 /\ i <= n
      BY <2>2, <1>2
    <3> QED
      BY <3>1, <2>1, <2>2, <1>2, <1>6
  <2>3. CASE ~(i + 1 <= n)
    <3>1. i + 1 > n
      BY <2>3, <1>2
    <3> QED
      BY <3>1, <2>1, <1>7, <1>8
  <2> QED
    BY <2>2, <2>3
<1>10. FullLines(t, par, words, max)
  BY <1>6, <1>7, <1>9 DEF FullLines
<1>11. m + 1 \in 1 .. m + 1
  OBVIOUS
<1>12. FullLine(<<Last(parts)>>, par, max) /\ LineWidth(<<Last(parts)>>) > 0 /\ Last(parts) \in Pieces
  BY <1>3, <1>4, <1>11
<1>13. t # <<>> => EndsBefore(Last(t), <<Last(parts)>>, words, max)
  <2> HAVE t # <<>>
  <2>1. Len(t) \in 1 .. n + m /\ Last(t) = t[Len(t)]
    BY <1>6, EmptySeq DEF Last
  <2>2. FullLine(Last(t), par, max) /\ <<Last(parts)>>[1].word = w.word
    BY <2>1, <1>3, <1>4, <1>7, <1>11
  <2> QED
    BY <2>2, <1>8
<1>14. Letters(FlattenSeq(t)) \o Letters(<<Last(parts)>>) = Letters(FlattenSeq(ls)) \o Shown(w)
  <2> DEFINE init == SubSeq(parts, 1, m)
  <2>1. init \in Seq(Pieces) /\ Len(init) = m /\ \A i \in 1 .. m : init[i] = parts[i]
    <3>1. 1 \in Int /\ m \in Int /\ \A i \in 1 .. m : parts[i] \in Pieces
      <4>1. ASSUME NEW i \in 1 .. m PROVE parts[i] \in Pieces
        <5>1. i \in 1 .. m + 1
          OBVIOUS
        <5> QED
          BY <5>1, <1>4
      <4> QED
        BY <4>1
    <3>2. /\ init \in Seq(Pieces) /\ Len(init) = IF 1 <= m THEN m - 1 + 1 ELSE 0
          /\ \A i \in 1 .. m - 1 + 1 : init[i] = parts[1 + i - 1]
      BY ONLY <3>1, SubSeqProperties
    <3>3. \A i \in 1 .. m : 1 + i - 1 = i
      OBVIOUS
    <3>4. m - 1 + 1 = m
      OBVIOUS
    <3>5. (1 <= m) \/ m = 0
      OBVIOUS
    <3> HIDE DEF init
    <3>6. Len(init) = m
      BY <3>2, <3>4, <3>5
    <3> QED
      BY <3>2, <3>3, <3>4, <3>6
  <2>2. parts = Append(init, Last(parts))
    <3>1. 1 \in 1 .. Len(parts) /\ m + 1 \in 1 .. Len(parts) /\ (m + 1) - 1 = m
      BY <1>3
    <3>2. SubSeq(parts, 1, m + 1) = SubSeq(parts, 1, (m + 1) - 1) \o <<parts[m + 1]>>
      BY ONLY <3>1, <1>1, SubSeqRecursiveSecond
    <3>3. SubSeq(parts, 1, m + 1) = parts
      BY <1>1, <1>3, SubSeqFull
    <3>4. Append(init, Last(parts)) = init \o <<Last(parts)>>
      BY <1>12, <2>1, AppendIsConcat
    <3> QED
      BY <3>1, <3>2, <3>3, <3>4, <1>3
  <2> HIDE DEF init
  <2>3. single = [i \in 1 .. Len(init) |-> <<init[i]>>]
    <3>1. single = [i \in 1 .. m |-> single[i]]
      BY <1>5, LenProperties
    <3>2. \A i \in 1 .. m : single[i] = <<init[i]>>
      BY <1>5, <2>1
    <3> QED
      BY <3>1, <3>2, <2>1
  <2>4. FlattenSeq(single) = init
    BY <2>1, <2>3, FlattenSingles
  <2>5. Letters(init) \o Shown(Last(parts)) = Shown(w)
    BY <2>1, <2>2, <1>1, <1>12, LettersAppend
  <2>6. FlattenSeq(t) = FlattenSeq(ls) \o init /\ FlattenSeq(ls) \in Seq(Pieces)
    <3>1. ls \in Seq(Seq(Pieces)) /\ single \in Seq(Seq(Pieces))
      BY <1>2, <1>5 DEF Lines
    <3> QED
      BY <3>1, <2>4, FlattenConcat, FlattenTyped DEF t
  <2>7. Letters(FlattenSeq(t)) = Letters(FlattenSeq(ls)) \o Letters(init)
    BY <2>1, <2>6, LettersConcat
  <2>8. /\ Letters(FlattenSeq(ls)) \in Seq(Spots) /\ Letters(init) \in Seq(Spots)
        /\ Shown(Last(parts)) \in Seq(Spots) /\ Letters(<<Last(parts)>>) = Shown(Last(parts))
    BY <2>1, <2>6, <1>12, LettersTyped, ShownTyped, LettersOfOne
  <2>9. (Letters(FlattenSeq(ls)) \o Letters(init)) \o Shown(Last(parts))
          = Letters(FlattenSeq(ls)) \o (Letters(init) \o Shown(Last(parts)))
    BY <2>8, ConcatAssociative
  <2> QED
    BY <2>5, <2>7, <2>8, <2>9
<1> QED
  BY <1>10, <1>12, <1>13, <1>14 DEF t, GoesOn

\* The first words of a paragraph.
FirstWords(par, words, i) == [k \in 1 .. i |-> Piece(par, k, 1, words[k])]

\* They are pieces, one for each word.
LEMMA FirstWordsTyped ==
  ASSUME NEW par \in Nat, NEW words \in Seq(Nat), NEW i \in 0 .. Len(words)
  PROVE  /\ FirstWords(par, words, i) \in Seq(Pieces) /\ Len(FirstWords(par, words, i)) = i
         /\ \A k \in 1 .. i : FirstWords(par, words, i)[k] = Piece(par, k, 1, words[k])
<1>1. i \in Nat /\ \A k \in 1 .. i : k \in 1 .. Len(words)
  BY LenProperties
<1>2. ASSUME NEW k \in 1 .. i PROVE Piece(par, k, 1, words[k]) \in Pieces
  <2>1. k \in Nat /\ words[k] \in Nat
    BY <1>1, ElementOfSeq
  <2> QED
    BY <2>1, WordTyped DEF Words
<1>3. /\ FirstWords(par, words, i) \in [1 .. i -> Pieces]
      /\ \A k \in 1 .. i : FirstWords(par, words, i)[k] = Piece(par, k, 1, words[k])
  BY <1>2 DEF FirstWords
<1> QED
  BY <1>1, <1>3, FunctionIsSeq

\* The letters of the first words are those of the words before the last, and its own.
LEMMA OneMoreWord ==
  ASSUME NEW par \in Nat, NEW words \in Seq(Nat), NEW i \in 1 .. Len(words)
  PROVE  Letters(FirstWords(par, words, i))
           = Letters(FirstWords(par, words, i - 1)) \o Shown(Piece(par, i, 1, words[i]))
<1> DEFINE a == FirstWords(par, words, i)
           b == FirstWords(par, words, i - 1)
           w == Piece(par, i, 1, words[i])
<1>1. i \in Nat /\ i \in 0 .. Len(words) /\ i - 1 \in 0 .. Len(words) /\ i \in 1 .. i /\ words[i] \in Nat
  BY LenProperties, ElementOfSeq
<1>2. w \in Pieces
  BY <1>1, WordTyped DEF Words
<1>3. /\ a \in Seq(Pieces) /\ Len(a) = i
      /\ \A k \in 1 .. i : a[k] = Piece(par, k, 1, words[k])
  BY <1>1, FirstWordsTyped
<1>4. /\ b \in Seq(Pieces) /\ Len(b) = i - 1
      /\ \A k \in 1 .. i - 1 : b[k] = Piece(par, k, 1, words[k])
  BY <1>1, FirstWordsTyped
<1> DEFINE c == Append(b, w)
<1>5. /\ c \in Seq(Pieces) /\ Len(c) = i /\ (\A k \in 1 .. i - 1 : c[k] = b[k]) /\ c[i] = w
  <2>1. /\ c \in Seq(Pieces) /\ Len(c) = Len(b) + 1 /\ (\A k \in 1 .. Len(b) : c[k] = b[k])
        /\ c[Len(b) + 1] = w
    BY <1>2, <1>4, AppendProperties
  <2>2. Len(b) + 1 = i
    BY <1>1, <1>4
  <2> HIDE DEF b, c, w
  <2> QED
    BY <2>1, <2>2, <1>4
<1>6. Letters(c) = Letters(b) \o Shown(w)
  BY <1>2, <1>4, LettersAppend
<1> HIDE DEF a, b, c
<1>7. ASSUME NEW k \in 1 .. i PROVE a[k] = c[k]
  <2>1. CASE k = i
    BY <2>1, <1>3, <1>5
  <2>2. CASE k # i
    <3>1. k \in 1 .. i - 1
      BY <2>2, <1>1
    <3> QED
      BY <3>1, <1>3, <1>4, <1>5
  <2> QED
    BY <2>1, <2>2
<1>8. a = c
  BY <1>3, <1>5, <1>7, SeqEqual
<1> QED
  BY <1>6, <1>8 DEF a, b

\* What the loop over the words has done with the first i of them.
Filled(t, par, words, max, i) ==
  /\ t \in Turn
  /\ FullLines(t.lines, par, words, max)
  /\ t.current # <<>> => FullLine(t.current, par, max)
  /\ t.lines # <<>> => t.current # <<>> /\ EndsBefore(Last(t.lines), t.current, words, max)
  /\ \/ IsLine(t.current) \/ t.current = <<>>
     \/ \E p \in Pieces : t.current = <<p>> /\ PieceWidth(p) <= 0 /\ words[p.word] = 0
  /\ Letters(FlattenSeq(t.lines)) \o Letters(t.current) = Letters(FirstWords(par, words, i))

\* A line without letters shows none.
LEMMA BlankLine ==
  ASSUME NEW par, NEW words, NEW max, NEW i, NEW t, Filled(t, par, words, max, i), ~IsLine(t.current)
  PROVE  Letters(t.current) = <<>>
<1>1. CASE t.current = <<>>
  BY <1>1, LettersTyped
<1>2. CASE t.current # <<>>
  <2>1. PICK p \in Pieces : t.current = <<p>> /\ PieceWidth(p) <= 0
    BY <1>2 DEF Filled
  <2> QED
    BY <2>1, LettersOfOne, ShownNothing
<1> QED
  BY <1>1, <1>2

\* Closing the line that is being filled.
LEMMA ClosedFilled ==
  ASSUME NEW par, NEW words, NEW max, NEW i, NEW t, Filled(t, par, words, max, i)
  PROVE  /\ FullLines(Closed(t), par, words, max)
         /\ Letters(FlattenSeq(Closed(t))) = Letters(FirstWords(par, words, i))
         /\ IsLine(t.current) => Closed(t) # <<>> /\ Last(Closed(t)) = t.current
<1>1. t.lines \in Seq(Lines) /\ t.current \in Lines /\ t.lines \in Seq(Seq(Pieces)) /\ t.current \in Seq(Pieces)
  BY DEF Filled, Turn, Lines
<1>2. FlattenSeq(t.lines) \in Seq(Pieces)
  BY <1>1, FlattenTyped
<1>3. CASE IsLine(t.current)
  <2>1. Closed(t) = Append(t.lines, t.current) /\ t.current # <<>>
    BY <1>3, WidthOfNone DEF Closed, IsLine
  <2>2. FullLine(t.current, par, max) /\ FullLines(t.lines, par, words, max)
        /\ (t.lines # <<>> => EndsBefore(Last(t.lines), t.current, words, max))
    BY <2>1 DEF Filled
  <2>3. FullLines(Closed(t), par, words, max)
    BY <2>1, <2>2, FullLinesAppend
  <2>4. FlattenSeq(Closed(t)) = FlattenSeq(t.lines) \o t.current
    BY <1>1, <2>1, FlattenAppend
  <2>5. Letters(FlattenSeq(Closed(t))) = Letters(FlattenSeq(t.lines)) \o Letters(t.current)
    BY <1>1, <1>2, <2>4, LettersConcat
  <2>6. Closed(t) # <<>> /\ Last(Closed(t)) = t.current
    BY <1>1, <2>1, AppendProperties DEF Last
  <2> QED
    BY <2>3, <2>5, <2>6 DEF Filled
<1>4. CASE ~IsLine(t.current)
  <2>1. Closed(t) = t.lines /\ Letters(t.current) = <<>>
    BY <1>4, BlankLine DEF Closed
  <2>2. Letters(FlattenSeq(t.lines)) \o <<>> = Letters(FlattenSeq(t.lines))
    BY <1>2, LettersTyped, ConcatEmptySeq
  <2> QED
    BY <1>4, <2>1, <2>2 DEF Filled
<1> QED
  BY <1>3, <1>4

\* The line of one word.
LEMMA LineOfWord ==
  ASSUME NEW par \in Nat, NEW words \in Seq(Nat), NEW max \in Nat, NEW i \in 1 .. Len(words),
         NEW w, w = Piece(par, i, 1, words[i])
  PROVE  /\ w \in Words /\ w \in Pieces /\ w.par = par /\ w.word = i /\ <<w>>[1] = w
         /\ words[i] \in Nat /\ words[w.word] = words[i] /\ PieceWidth(w) = words[i]
         /\ LineWidth(<<w>>) = words[i]
         /\ <<w>> \in Lines /\ <<w>> # <<>> /\ Letters(<<w>>) = Shown(w) /\ Shown(w) \in Seq(Spots)
         /\ Fits(<<w>>, max) => FullLine(<<w>>, par, max)
         /\ ~Fits(<<w>>, max) => words[i] > max
         /\ \/ IsLine(<<w>>)
            \/ \E p \in Pieces : <<w>> = <<p>> /\ PieceWidth(p) <= 0 /\ words[p.word] = 0
<1>1. i \in Nat /\ words[i] \in Nat
  BY LenProperties, ElementOfSeq
<1>2. w \in Words /\ PieceWidth(w) = words[i] /\ w.par = par /\ w.word = i
  BY <1>1, WordTyped DEF Piece
<1>3. w \in Pieces
  BY <1>2 DEF Words
<1>4. LineWidth(<<w>>) = words[i] /\ Letters(<<w>>) = Shown(w) /\ Shown(w) \in Seq(Spots)
  BY <1>2, <1>3, WidthOfOne, LettersOfOne, ShownTyped
<1>5. <<w>> \in Lines /\ <<w>> # <<>> /\ Len(<<w>>) = 1 /\ <<w>>[1] = w
  BY <1>3 DEF Lines
<1>6. Fits(<<w>>, max) => FullLine(<<w>>, par, max)
  <2> HAVE Fits(<<w>>, max)
  <2>1. \A j \in 1 .. Len(<<w>>) : <<w>>[j] = w
    BY <1>5
  <2>2. LineWidth(<<w>>) >= 0 /\ LineWidth(<<w>>) <= max /\ PieceWidth(w) >= 0
    BY <1>1, <1>2, <1>4 DEF Fits
  <2> QED
    BY <1>2, <1>5, <2>1, <2>2 DEF FullLine
<1>7. ~Fits(<<w>>, max) => words[i] > max
  BY <1>1, <1>4 DEF Fits
<1>8. IsLine(<<w>>) \/ (PieceWidth(w) <= 0 /\ words[w.word] = 0)
  BY <1>1, <1>2, <1>4 DEF IsLine
<1> QED
  BY <1>1, <1>2, <1>3, <1>4, <1>5, <1>6, <1>7, <1>8

\* One turn of the loop places one word more.
LEMMA PlaceWordFills ==
  ASSUME NEW par \in Nat, NEW words \in Seq(Nat), NEW max \in Nat, NEW i \in 1 .. Len(words),
         NEW t, Filled(t, par, words, max, i - 1)
  PROVE  Filled(PlaceWord(t, Piece(par, i, 1, words[i]), max), par, words, max, i)
<1> DEFINE w == Piece(par, i, 1, words[i])
<1>1. /\ w \in Words /\ w \in Pieces /\ w.par = par /\ w.word = i /\ <<w>>[1] = w
      /\ words[i] \in Nat /\ words[w.word] = words[i] /\ PieceWidth(w) = words[i]
      /\ LineWidth(<<w>>) = words[i]
      /\ <<w>> \in Lines /\ <<w>> # <<>> /\ Letters(<<w>>) = Shown(w) /\ Shown(w) \in Seq(Spots)
      /\ Fits(<<w>>, max) => FullLine(<<w>>, par, max)
      /\ ~Fits(<<w>>, max) => words[i] > max
      /\ \/ IsLine(<<w>>)
         \/ \E p \in Pieces : <<w>> = <<p>> /\ PieceWidth(p) <= 0 /\ words[p.word] = 0
  BY LineOfWord
<1>2. Letters(FirstWords(par, words, i)) = Letters(FirstWords(par, words, i - 1)) \o Shown(w)
  BY OneMoreWord
<1> DEFINE u == PlaceWord(t, w, max)
<1> SUFFICES Filled(u, par, words, max, i)
  OBVIOUS
<1> HIDE DEF w
<1>3. u \in Turn /\ t \in Turn /\ t.lines \in Seq(Lines) /\ t.current \in Seq(Pieces)
  BY <1>1, PlaceWordTyped DEF Filled, Turn, Lines
<1>4. /\ FullLines(Closed(t), par, words, max)
      /\ Letters(FlattenSeq(Closed(t))) = Letters(FirstWords(par, words, i - 1))
      /\ IsLine(t.current) => Closed(t) # <<>> /\ Last(Closed(t)) = t.current
  BY ClosedFilled
<1>5. LineWidth(t.current) \in Int
  BY <1>3, LineWidthTyped
<1>6. CASE Fits(Joined(t.current, w), max) /\ IsLine(t.current)
  <2> DEFINE c == Append(t.current, w)
  <2>1. Joined(t.current, w) = c /\ u = [t EXCEPT !.current = c]
    BY <1>6 DEF PlaceWord, Joined
  <2>2. u.lines = t.lines /\ u.current = c
    BY <1>3, <2>1 DEF Turn
  <2>3. t.current # <<>> /\ FullLine(t.current, par, max)
    BY <1>6, WidthOfNone DEF IsLine, Filled
  <2>4. /\ c \in Seq(Pieces) /\ c # <<>> /\ Len(c) = Len(t.current) + 1
        /\ (\A j \in 1 .. Len(t.current) : c[j] = t.current[j]) /\ c[Len(t.current) + 1] = w
    <3>1. w \in Pieces /\ t.current \in Seq(Pieces)
      BY <1>1, <1>3
    <3> QED
      BY ONLY <3>1, AppendProperties
  <2>5. LineWidth(c) = LineWidth(t.current) + 1 + words[i]
    BY <1>1, <1>3, <2>3, WidthAppend
  <2>6. LineWidth(c) > 0 /\ LineWidth(c) <= max /\ IsLine(c)
    BY <1>1, <1>5, <1>6, <2>1, <2>5 DEF IsLine, Fits
  <2> HIDE DEF c
  <2>7. Len(t.current) \in Nat \ {0}
    BY <1>3, <2>3, EmptySeq
  <2>8. FullLine(c, par, max)
    <3>1. ASSUME NEW j \in 1 .. Len(c) PROVE c[j].par = par /\ PieceWidth(c[j]) >= 0
      <4>1. CASE j = Len(t.current) + 1
        BY <4>1, <1>1, <2>4
      <4>2. CASE j # Len(t.current) + 1
        <5>1. j \in 1 .. Len(t.current)
          BY <4>2, <2>4, <2>7
        <5> QED
          BY <5>1, <2>3, <2>4 DEF FullLine
      <4> QED
        BY <4>1, <4>2
    <3>2. LineWidth(c) >= 0 /\ c \in Lines
      BY <2>4, <2>5, <2>6, <1>1, <1>5 DEF Lines
    <3> QED
      BY <3>1, <3>2, <2>4, <2>6 DEF FullLine
  <2>9. u.lines # <<>> => EndsBefore(Last(u.lines), u.current, words, max)
    <3>1. c[1] = t.current[1]
      BY <2>4, <2>7
    <3> QED
      BY <3>1, <2>2 DEF Filled, EndsBefore
  <2>10. Letters(FlattenSeq(u.lines)) \o Letters(u.current) = Letters(FirstWords(par, words, i))
    <3> DEFINE a == Letters(FlattenSeq(t.lines))
               b == Letters(t.current)
    <3>1. a \in Seq(Spots) /\ b \in Seq(Spots)
      BY <1>3, FlattenTyped, LettersTyped DEF Lines
    <3>2. Letters(c) = b \o Shown(w)
      BY <1>1, <1>3, LettersAppend DEF c
    <3>3. a \o b = Letters(FirstWords(par, words, i - 1))
      BY DEF Filled
    <3>4. u.lines = t.lines /\ u.current = c
      BY <2>2
    <3> HIDE DEF u
    <3>5. Letters(FlattenSeq(u.lines)) \o Letters(u.current) = a \o Letters(c)
      BY <3>4
    <3> HIDE DEF a, b
    <3>6. (a \o b) \o Shown(w) = a \o (b \o Shown(w))
      <4> DEFINE d == Shown(w)
                 V == Spots
      <4>1. a \in Seq(V) /\ b \in Seq(V) /\ d \in Seq(V)
        BY <1>1, <3>1
      <4> HIDE DEF d, V
      <4>2. (a \o b) \o d = a \o (b \o d)
        BY ONLY <4>1, ConcatAssociative
      <4> QED
        BY <4>2 DEF d
    <3> QED
      BY <1>2, <3>2, <3>3, <3>5, <3>6
  <2>11. FullLines(u.lines, par, words, max)
    BY <2>2 DEF Filled
  <2> HIDE DEF u
  <2> QED
    BY <1>3, <2>2, <2>4, <2>6, <2>8, <2>9, <2>10, <2>11 DEF Filled
<1>7. CASE Fits(Joined(t.current, w), max) /\ ~IsLine(t.current)
  <2>1. u = [t EXCEPT !.current = <<w>>] /\ Fits(<<w>>, max)
    BY <1>7 DEF PlaceWord, Joined
  <2>2. u.lines = t.lines /\ u.current = <<w>>
    BY <1>3, <2>1 DEF Turn
  <2>3. Letters(t.current) = <<>> /\ Closed(t) = t.lines
    BY <1>7, BlankLine DEF Closed
  <2>4. ASSUME t.lines # <<>> PROVE EndsBefore(Last(t.lines), <<w>>, words, max)
    <3>1. t.current # <<>> /\ EndsBefore(Last(t.lines), t.current, words, max)
      BY <2>4 DEF Filled
    <3>2. PICK p \in Pieces : t.current = <<p>> /\ words[p.word] = 0
      BY <1>7, <3>1 DEF Filled
    <3>3. t.current[1] = p
      BY <3>2
    <3> DEFINE a == LineWidth(Last(t.lines))
               b == words[i]
    <3>4. a + 1 + 0 > max
      BY <3>1, <3>2, <3>3 DEF EndsBefore
    <3>5. a \in Int /\ b \in Nat
      <4>1. FullLine(Last(t.lines), par, max)
        <5>1. FullLines(t.lines, par, words, max)
          BY DEF Filled
        <5>2. Len(t.lines) \in 1 .. Len(t.lines) /\ Last(t.lines) = t.lines[Len(t.lines)]
          BY <1>3, <2>4, EmptySeq DEF Last
        <5> QED
          BY <5>1, <5>2 DEF FullLines
      <4> QED
        BY <4>1, <1>1, LineWidthTyped DEF FullLine, Lines
    <3> HIDE DEF a, b
    <3>6. a + 1 + b > max
      BY <3>4, <3>5
    <3> QED
      BY <1>1, <3>6 DEF EndsBefore, a, b
  <2>5. Letters(FlattenSeq(u.lines)) \o Letters(u.current) = Letters(FirstWords(par, words, i))
    BY <1>1, <1>2, <1>4, <2>2, <2>3
  <2>6. FullLines(u.lines, par, words, max) /\ FullLine(<<w>>, par, max)
    BY <1>1, <2>1, <2>2 DEF Filled
  <2> HIDE DEF u
  <2> QED
    BY <1>1, <1>3, <2>2, <2>4, <2>5, <2>6 DEF Filled
<1>8. CASE ~Fits(Joined(t.current, w), max) /\ Fits(<<w>>, max)
  <2>1. u = [lines |-> Closed(t), current |-> <<w>>]
    BY <1>8 DEF PlaceWord
  <2>2. u.lines = Closed(t) /\ u.current = <<w>>
    BY <2>1
  <2>3. IsLine(t.current) /\ Joined(t.current, w) = Append(t.current, w)
    BY <1>8 DEF Joined
  <2>4. EndsBefore(t.current, <<w>>, words, max)
    <3>1. t.current # <<>>
      BY <2>3, WidthOfNone DEF IsLine
    <3>2. LineWidth(Append(t.current, w)) = LineWidth(t.current) + 1 + words[i]
      BY <1>1, <1>3, <3>1, WidthAppend
    <3>3. LineWidth(t.current) + 1 + words[i] > max
      BY <1>1, <1>5, <1>8, <2>3, <3>2 DEF Fits
    <3> QED
      BY <1>1, <3>3 DEF EndsBefore
  <2>5. Letters(FlattenSeq(u.lines)) \o Letters(u.current) = Letters(FirstWords(par, words, i))
    BY <1>1, <1>2, <1>4, <2>2
  <2>6. FullLines(u.lines, par, words, max) /\ FullLine(<<w>>, par, max)
    BY <1>1, <1>4, <1>8, <2>2
  <2>7. EndsBefore(Last(u.lines), u.current, words, max)
    BY <1>4, <2>2, <2>3, <2>4
  <2> HIDE DEF u
  <2> QED
    BY <1>1, <1>3, <2>2, <2>5, <2>6, <2>7 DEF Filled
<1>9. CASE ~Fits(Joined(t.current, w), max) /\ ~Fits(<<w>>, max)
  <2> DEFINE parts == HardBreak(w, max)
             m == Len(parts) - 1
             single == [j \in 1 .. m |-> <<parts[j]>>]
  <2>1. u = [lines |-> Closed(t) \o single, current |-> <<Last(parts)>>]
    BY <1>9 DEF PlaceWord, OnLines
  <2>2. PieceWidth(w) > max /\ PieceWidth(w) >= 1
    BY <1>1, <1>9
  <2>3. PartsOf(w, max, parts)
    BY <1>1, <2>2, HardBreakParts
  <2>4. m \in Nat
    BY <2>3, EmptySeq, LenProperties DEF PartsOf
  <2>5. u.lines = Closed(t) \o single /\ u.current = <<Last(parts)>>
    <3> HIDE DEF single
    <3> QED
      BY <2>1
  <2> HIDE DEF parts, u
  <2>6. /\ FullLines(Closed(t) \o single, par, words, max)
        /\ FullLine(<<Last(parts)>>, par, max) /\ LineWidth(<<Last(parts)>>) > 0
        /\ Closed(t) \o single # <<>> => EndsBefore(Last(Closed(t) \o single), <<Last(parts)>>, words, max)
        /\ Letters(FlattenSeq(Closed(t) \o single)) \o Letters(<<Last(parts)>>)
             = Letters(FlattenSeq(Closed(t))) \o Shown(w)
    <3> DEFINE c == Closed(t)
    <3>1. /\ words[w.word] = PieceWidth(w) /\ w \in Words /\ w.par = par
          /\ FullLines(c, par, words, max) /\ PieceWidth(w) > max /\ PartsOf(w, max, parts)
          /\ par \in Nat /\ max \in Nat
      BY <1>1, <1>4, <2>2, <2>3, <2>4
    <3>2. SinglesOf(parts, single)
      <4>1. parts \in Seq(Pieces)
        BY <2>3 DEF PartsOf
      <4>2. \A j \in 1 .. m : <<parts[j]>> \in Lines
        <5>1. \A j \in 1 .. m : j \in 1 .. Len(parts)
          BY <2>4, <4>1, LenProperties
        <5> QED
          BY <4>1, <5>1, ElementOfSeq DEF Lines
      <4>3. m = Len(parts) - 1
        OBVIOUS
      <4> HIDE DEF m
      <4>4. single \in [1 .. m -> Lines] /\ \A j \in 1 .. m : single[j] = <<parts[j]>>
        BY <4>2
      <4> HIDE DEF single
      <4>5. single \in Seq(Lines) /\ Len(single) = m
        BY <2>4, <4>4, FunctionIsSeq
      <4> QED
        BY <4>3, <4>4, <4>5 DEF SinglesOf
    <3> HIDE DEF m, single, c
    <3>3. GoesOn(c, single, parts, w, par, words, max)
      BY ONLY <3>1, <3>2, FullLinesParts
    <3> QED
      BY <3>3 DEF c, GoesOn
  <2> HIDE DEF single
  <2>7. u.current # <<>> /\ IsLine(u.current)
    BY <2>5, <2>6 DEF IsLine
  <2>8. Letters(FlattenSeq(u.lines)) \o Letters(u.current) = Letters(FirstWords(par, words, i))
    BY <1>2, <1>4, <2>5, <2>6
  <2> QED
    BY <1>3, <2>5, <2>6, <2>7, <2>8 DEF Filled
<1> QED
  BY <1>6, <1>7, <1>8, <1>9

\* The lines of a paragraph are filled well and show all of its words.
LEMMA ParagraphFilled ==
  ASSUME NEW par \in Nat, NEW words \in Seq(Nat), NEW max \in Nat
  PROVE  /\ FullLines(ParagraphLines(par, words, max), par, words, max)
         /\ Letters(FlattenSeq(ParagraphLines(par, words, max)))
              = Letters(FirstWords(par, words, Len(words)))
<1> DEFINE n == Len(words)
           ls == ParagraphLines(par, words, max)
           a == [lines |-> <<>>, current |-> <<>>]
<1>1. PICK f \in [0 .. n -> Turn] :
        /\ f[0] = a
        /\ \A i \in 1 .. n : f[i] = PlaceWord(f[i - 1], Piece(par, i, 1, words[i]), max)
        /\ ls = IF words = <<0>> THEN << <<Piece(par, 1, 1, 0)>> >> ELSE Closed(f[n])
  BY ParagraphSteps
<1>2. n \in Nat
  BY LenProperties
<1>3. Letters(FirstWords(par, words, 0)) = <<>>
  <2>1. 0 \in 0 .. Len(words)
    BY <1>2
  <2>2. FirstWords(par, words, 0) \in Seq(Pieces) /\ Len(FirstWords(par, words, 0)) = 0
    BY <2>1, FirstWordsTyped
  <2>3. FirstWords(par, words, 0) = <<>>
    BY <2>2, EmptySeq
  <2> QED
    BY <2>3, LettersTyped
<1>4. CASE words = <<0>>
  <2> DEFINE z == Piece(par, 1, 1, 0)
             l == <<z>>
  <2>1. Len(words) = 1 /\ words[1] = 0 /\ 1 \in 1 .. Len(words) /\ 1 - 1 = 0
    BY <1>4
  <2>2. z = Piece(par, 1, 1, words[1])
    BY <2>1
  <2> HIDE DEF z
  <2>3. /\ LineWidth(l) = words[1] /\ l \in Lines /\ Letters(l) = Shown(z) /\ Shown(z) \in Seq(Spots)
        /\ Fits(l, max) => FullLine(l, par, max)
    BY <2>1, <2>2, LineOfWord
  <2>4. FullLine(l, par, max)
    <3>1. LineWidth(l) <= max
      BY <2>1, <2>3
    <3> QED
      BY <2>3, <3>1 DEF Fits
  <2>5. Letters(FirstWords(par, words, 1)) = Shown(z)
    <3>1. Letters(FirstWords(par, words, 1)) = Letters(FirstWords(par, words, 1 - 1)) \o Shown(z)
      BY <2>1, <2>2, OneMoreWord
    <3> QED
      BY <1>3, <2>1, <2>3, <3>1, ConcatEmptySeq
  <2> HIDE DEF l
  <2>6. ls = <<l>>
    BY <1>1, <1>4 DEF l, z
  <2> HIDE DEF ls
  <2>7. FlattenSeq(ls) = l
    <3>1. l \in Seq(Pieces)
      BY <2>3 DEF Lines
    <3> QED
      BY <2>6, <3>1, FlattenOne
  <2>8. FullLines(ls, par, words, max)
    <3>1. ls \in Seq(Lines) /\ Len(ls) = 1 /\ ls[1] = l
      BY <2>3, <2>6
    <3>2. \A i \in 1 .. Len(ls) : i = 1
      BY <3>1
    <3>3. \A i \in 1 .. Len(ls) - 1 : FALSE
      BY <3>1
    <3> QED
      BY <3>1, <3>2, <3>3, <2>4 DEF FullLines
  <2> QED
    BY <2>1, <2>3, <2>5, <2>7, <2>8 DEF ls, l
<1>5. CASE words # <<0>>
  <2> DEFINE T == {i \in 0 .. n : Filled(f[i], par, words, max, i)}
  <2>1. 0 \in T
    <3>1. f[0].lines = <<>> /\ f[0].current = <<>> /\ f[0] \in Turn
      <4>1. 0 \in 0 .. n
        BY <1>2
      <4> QED
        BY <1>1, <4>1
    <3>2. <<>> \in Seq(Lines) /\ <<>> \in Seq(Spots) /\ Len(<<>>) = 0
      BY EmptySeq
    <3>3. FullLines(<<>>, par, words, max)
      <4>1. (\A i \in 1 .. Len(<<>>) : FALSE) /\ (\A i \in 1 .. Len(<<>>) - 1 : FALSE)
        BY <3>2
      <4> QED
        BY <3>2, <4>1 DEF FullLines
    <3>4. Letters(FlattenSeq(<<>>)) = <<>> /\ Letters(<<>>) = <<>> /\ <<>> \o <<>> = <<>>
      BY <3>2, FlattenNothing, LettersTyped, ConcatEmptySeq
    <3>5. Filled(f[0], par, words, max, 0)
      BY <1>3, <3>1, <3>3, <3>4 DEF Filled
    <3> QED
      BY <1>2, <3>5
  <2>2. ASSUME NEW i \in 1 .. n, i - 1 \in T PROVE i \in T
    <3>1. Filled(f[i - 1], par, words, max, i - 1)
      BY <2>2
    <3>2. Filled(PlaceWord(f[i - 1], Piece(par, i, 1, words[i]), max), par, words, max, i)
      BY <3>1, PlaceWordFills
    <3>3. Filled(f[i], par, words, max, i)
      BY <1>1, <3>2
    <3>4. i \in 0 .. n
      BY <1>2
    <3> QED
      BY <3>3, <3>4
  <2>3. T = 0 .. n
    <3>1. T \in SUBSET (0 .. n)
      OBVIOUS
    <3> HIDE DEF T
    <3> QED
      BY <1>2, <2>1, <2>2, <3>1, UpTo
  <2>4. Filled(f[n], par, words, max, n)
    <3>1. n \in 0 .. n
      BY <1>2
    <3>2. n \in T
      BY <2>3, <3>1, Zenon
    <3> QED
      BY <3>2
  <2>5. ls = Closed(f[n])
    BY <1>1, <1>5
  <2> HIDE DEF ls, n
  <2>6. FullLines(Closed(f[n]), par, words, max)
        /\ Letters(FlattenSeq(Closed(f[n]))) = Letters(FirstWords(par, words, n))
    BY <2>4, ClosedFilled
  <2> QED
    BY <2>5, <2>6 DEF ls, n
<1> QED
  BY <1>4, <1>5

-----------------------------------------------------------------------------
(* Texts that are wrapped well                                             *)

\* Sequences are joined one after another.
LEMMA FlattenFirst ==
  ASSUME NEW S, NEW s \in Seq(Seq(S)), NEW k \in 1 .. Len(s)
  PROVE  /\ FlattenSeq(SubSeq(s, 1, k)) = FlattenSeq(SubSeq(s, 1, k - 1)) \o s[k]
         /\ FlattenSeq(SubSeq(s, 1, k - 1)) \in Seq(S)
<1>1. 1 \in 1 .. Len(s) /\ Len(s) \in Nat
  BY LenProperties
<1>2. SubSeq(s, 1, k) = SubSeq(s, 1, k - 1) \o <<s[k]>> /\ s[k] \in Seq(S)
  BY <1>1, SubSeqRecursiveSecond, ElementOfSeq
<1>3. SubSeq(s, 1, k - 1) \in Seq(Seq(S))
  <2>1. 1 \in Int /\ k - 1 \in Int /\ \A i \in 1 .. k - 1 : s[i] \in Seq(S)
    <3>1. ASSUME NEW i \in 1 .. k - 1 PROVE s[i] \in Seq(S)
      <4>1. i \in 1 .. Len(s)
        BY <1>1
      <4> QED
        BY <4>1, ElementOfSeq
    <3> QED
      BY <1>1, <3>1
  <2> QED
    BY ONLY <2>1, SubSeqProperties
<1>4. SubSeq(s, 1, k) = Append(SubSeq(s, 1, k - 1), s[k])
  BY <1>2, <1>3, AppendIsConcat
<1> QED
  BY <1>2, <1>3, <1>4, FlattenAppend, FlattenTyped

\* The first none of them are joined to nothing.
LEMMA FlattenNone ==
  ASSUME NEW s
  PROVE  FlattenSeq(SubSeq(s, 1, 0)) = <<>>
<1>1. 1 \in Int /\ 0 \in Int /\ 0 < 1 /\ Len(<<>>) = 0
  OBVIOUS
<1>2. SubSeq(s, 1, 0) = <<>>
  BY ONLY <1>1, SubSeqEmpty
<1> QED
  BY <1>1, <1>2, FlattenNothing

\* Lines that are filled well, of the paragraphs up to k.
FilledUpTo(ls, text, max, k) ==
  /\ ls \in Seq(Lines)
  /\ \A i \in 1 .. Len(ls) : \E p \in 1 .. k : FullLine(ls[i], p, max)
  /\ \A i \in 1 .. Len(ls) - 1 :
       ls[i][1].par = ls[i + 1][1].par => EndsBefore(ls[i], ls[i + 1], text[ls[i + 1][1].par], max)

\* A line of a paragraph begins with a piece of it.
LEMMA BeginsWith ==
  ASSUME NEW l, NEW p, NEW max, FullLine(l, p, max)
  PROVE  l[1].par = p
<1>1. 1 \in 1 .. Len(l)
  BY EmptySeq DEF FullLine, Lines
<1> QED
  BY <1>1 DEF FullLine

\* The lines of paragraph k after those of the paragraphs before it.
LEMMA OneMoreParagraph ==
  ASSUME NEW text, NEW max, NEW k \in Nat \ {0}, NEW a, FilledUpTo(a, text, max, k - 1),
         NEW b, FullLines(b, k, text[k], max)
  PROVE  FilledUpTo(a \o b, text, max, k)
<1> DEFINE t == a \o b
           m == Len(a)
           n == Len(b)
<1>1. a \in Seq(Lines) /\ b \in Seq(Lines) /\ m \in Nat /\ n \in Nat
  BY LenProperties DEF FilledUpTo, FullLines
<1>2. /\ t \in Seq(Lines) /\ Len(t) = m + n
      /\ \A i \in 1 .. m + n : t[i] = IF i <= m THEN a[i] ELSE b[i - m]
  BY <1>1, ConcatProperties
<1>3. /\ \A i \in 1 .. m : \E p \in 1 .. k - 1 : FullLine(a[i], p, max)
      /\ \A i \in 1 .. m - 1 :
           a[i][1].par = a[i + 1][1].par => EndsBefore(a[i], a[i + 1], text[a[i + 1][1].par], max)
      /\ \A i \in 1 .. n : FullLine(b[i], k, max)
      /\ \A i \in 1 .. n - 1 : EndsBefore(b[i], b[i + 1], text[k], max)
  BY DEF FilledUpTo, FullLines
<1> HIDE DEF t, m, n
<1>4. ASSUME NEW i \in 1 .. m PROVE t[i] = a[i] /\ \E p \in 1 .. k - 1 : FullLine(t[i], p, max)
  <2>1. i \in 1 .. m + n /\ i <= m
    BY <1>1
  <2>2. t[i] = a[i]
    BY <2>1, <1>2
  <2> QED
    BY <2>2, <1>3
<1>5. ASSUME NEW i \in m + 1 .. m + n
      PROVE  i - m \in 1 .. n /\ t[i] = b[i - m] /\ FullLine(t[i], k, max)
  <2>1. i \in 1 .. m + n /\ ~(i <= m) /\ i - m \in 1 .. n
    BY <1>1
  <2>2. t[i] = b[i - m]
    BY <2>1, <1>2
  <2> QED
    BY <2>1, <2>2, <1>3
<1>6. ASSUME NEW i \in 1 .. m + n PROVE \E p \in 1 .. k : FullLine(t[i], p, max)
  <2>1. CASE i \in 1 .. m
    <3>1. PICK p \in 1 .. k - 1 : FullLine(t[i], p, max)
      BY <2>1, <1>4
    <3>2. p \in 1 .. k
      OBVIOUS
    <3> QED
      BY <3>1, <3>2
  <2>2. CASE i \notin 1 .. m
    <3>1. i \in m + 1 .. m + n /\ k \in 1 .. k
      BY <2>2, <1>1
    <3> QED
      BY <3>1, <1>5
  <2> QED
    BY <2>1, <2>2
<1>7. ASSUME NEW i \in 1 .. (m + n) - 1, t[i][1].par = t[i + 1][1].par
      PROVE  EndsBefore(t[i], t[i + 1], text[t[i + 1][1].par], max)
  <2>1. CASE i + 1 <= m
    <3>1. i \in 1 .. m - 1 /\ i \in 1 .. m /\ i + 1 \in 1 .. m
      BY <2>1, <1>1
    <3>2. t[i] = a[i] /\ t[i + 1] = a[i + 1]
      BY <3>1, <1>4
    <3> QED
      BY <3>1, <3>2, <1>3, <1>7
  <2>2. CASE i = m
    <3>1. i \in 1 .. m /\ i + 1 \in m + 1 .. m + n
      BY <2>2, <1>1
    <3>2. PICK p \in 1 .. k - 1 : FullLine(t[i], p, max)
      BY <3>1, <1>4
    <3>3. t[i][1].par = p /\ t[i + 1][1].par = k
      BY <3>1, <3>2, <1>5, BeginsWith
    <3>4. p # k
      OBVIOUS
    <3> QED
      BY <3>3, <3>4, <1>7
  <2>3. CASE i > m
    <3>1. i \in m + 1 .. m + n /\ i + 1 \in m + 1 .. m + n /\ i - m \in 1 .. n - 1
          /\ (i + 1) - m = (i - m) + 1
      BY <2>3, <1>1
    <3>2. t[i] = b[i - m] /\ t[i + 1] = b[(i - m) + 1] /\ FullLine(t[i + 1], k, max)
      <4>1. t[i + 1] = b[(i + 1) - m] /\ FullLine(t[i + 1], k, max)
        BY <3>1, <1>5
      <4> QED
        BY <3>1, <4>1, <1>5
    <3>3. t[i + 1][1].par = k
      BY <3>2, BeginsWith
    <3> QED
      BY <3>1, <3>2, <3>3, <1>3
  <2> QED
    BY <2>1, <2>2, <2>3, <1>1
<1> QED
  BY <1>2, <1>6, <1>7 DEF FilledUpTo, t

\* Whatever the text and the width, the lines that _wrap_text returns show every
\* letter once and in order, and are filled as far as they can be.
LEMMA WrapTextFills ==
  ASSUME NEW text \in Texts, NEW max \in Nat
  PROVE  /\ FilledUpTo(WrapText(text, max), text, max, Len(text))
         /\ Letters(FlattenSeq(WrapText(text, max))) = TextLetters(text)
<1> DEFINE n == Len(text)
           s == [p \in DOMAIN text |-> ParagraphLines(p, text[p], max)]
           q == [p \in DOMAIN text |-> Letters(FirstWords(p, text[p], Len(text[p])))]
<1>1. n \in Nat /\ DOMAIN text = 1 .. n /\ \A p \in 1 .. n : p \in Nat \ {0} /\ text[p] \in Seq(Nat)
  BY LenProperties, ElementOfSeq DEF Texts
<1>2. ASSUME NEW p \in 1 .. n
      PROVE  /\ FullLines(s[p], p, text[p], max) /\ s[p] \in Seq(Lines)
             /\ Letters(FlattenSeq(s[p])) = q[p] /\ q[p] \in Seq(Spots)
  <2>1. p \in Nat /\ text[p] \in Seq(Nat) /\ p \in DOMAIN text
    BY <1>1
  <2>2. s[p] = ParagraphLines(p, text[p], max) /\ q[p] = Letters(FirstWords(p, text[p], Len(text[p])))
    BY <2>1
  <2> HIDE DEF s, q
  <2>3. FullLines(s[p], p, text[p], max) /\ Letters(FlattenSeq(s[p])) = q[p]
    BY <2>1, <2>2, ParagraphFilled
  <2>4. s[p] \in Seq(Lines)
    BY <2>3 DEF FullLines
  <2>5. q[p] \in Seq(Spots)
    <3>1. s[p] \in Seq(Seq(Pieces))
      BY <2>4 DEF Lines
    <3>2. FlattenSeq(s[p]) \in Seq(Pieces)
      BY <3>1, FlattenTyped
    <3> QED
      BY <2>3, <3>2, LettersTyped
  <2> QED
    BY <2>3, <2>4, <2>5
<1>3. WrapText(text, max) = FlattenSeq(s)
  BY DEF WrapText
<1>4. TextLetters(text) = FlattenSeq(q)
  <2>1. \A p \in DOMAIN text : DOMAIN text[p] = 1 .. Len(text[p])
    BY <1>1, LenProperties
  <2>2. \A p \in DOMAIN text :
          [w \in DOMAIN text[p] |-> Piece(p, w, 1, text[p][w])] = FirstWords(p, text[p], Len(text[p]))
    BY <2>1 DEF FirstWords
  <2>3. [p \in DOMAIN text |-> Letters([w \in DOMAIN text[p] |-> Piece(p, w, 1, text[p][w])])] = q
    BY <2>2
  <2> HIDE DEF q
  <2> QED
    BY <2>3 DEF TextLetters
<1>5. s \in [1 .. n -> Seq(Lines)] /\ q \in [1 .. n -> Seq(Spots)]
  BY <1>1, <1>2
<1> HIDE DEF s, q, n
<1>6. s \in Seq(Seq(Lines)) /\ Len(s) = n /\ q \in Seq(Seq(Spots)) /\ Len(q) = n
  BY <1>1, <1>5, FunctionIsSeq
<1> DEFINE L(k) == FlattenSeq(SubSeq(s, 1, k))
           Q(k) == FlattenSeq(SubSeq(q, 1, k))
           T == {k \in 0 .. n : FilledUpTo(L(k), text, max, k) /\ Letters(FlattenSeq(L(k))) = Q(k)}
<1>7. 0 \in T
  <2>1. L(0) = <<>> /\ Q(0) = <<>>
    BY FlattenNone
  <2> HIDE DEF L, Q
  <2>2. <<>> \in Seq(Lines) /\ Len(<<>>) = 0 /\ FlattenSeq(<<>>) = <<>> /\ Letters(<<>>) = <<>>
    BY FlattenNothing, LettersTyped, EmptySeq
  <2>3. (\A i \in 1 .. Len(<<>>) : FALSE) /\ (\A i \in 1 .. Len(<<>>) - 1 : FALSE)
    BY <2>2
  <2>4. FilledUpTo(<<>>, text, max, 0)
    BY <2>2, <2>3 DEF FilledUpTo
  <2>5. 0 \in 0 .. n
    BY <1>1
  <2> QED
    BY <2>1, <2>2, <2>4, <2>5
<1>8. ASSUME NEW k \in 1 .. n, k - 1 \in T PROVE k \in T
  <2>1. FilledUpTo(L(k - 1), text, max, k - 1) /\ Letters(FlattenSeq(L(k - 1))) = Q(k - 1)
    BY <1>8
  <2>2. L(k) = L(k - 1) \o s[k] /\ L(k - 1) \in Seq(Lines)
    BY <1>6, FlattenFirst
  <2>3. Q(k) = Q(k - 1) \o q[k]
    BY <1>6, FlattenFirst
  <2> HIDE DEF L, Q
  <2>4. k \in Nat \ {0} /\ k \in 0 .. n
    BY <1>1
  <2>5. FullLines(s[k], k, text[k], max) /\ s[k] \in Seq(Lines) /\ Letters(FlattenSeq(s[k])) = q[k]
    BY <1>2
  <2>6. FilledUpTo(L(k), text, max, k)
    BY <2>1, <2>2, <2>4, <2>5, OneMoreParagraph
  <2>7. Letters(FlattenSeq(L(k))) = Q(k)
    <3>1. L(k - 1) \in Seq(Seq(Pieces)) /\ s[k] \in Seq(Seq(Pieces))
      BY <2>2, <2>5 DEF Lines
    <3>2. FlattenSeq(L(k)) = FlattenSeq(L(k - 1)) \o FlattenSeq(s[k])
      BY <2>2, <3>1, FlattenConcat
    <3>3. FlattenSeq(L(k - 1)) \in Seq(Pieces) /\ FlattenSeq(s[k]) \in Seq(Pieces)
      BY <3>1, FlattenTyped
    <3>4. Letters(FlattenSeq(L(k))) = Letters(FlattenSeq(L(k - 1))) \o Letters(FlattenSeq(s[k]))
      BY <3>2, <3>3, LettersConcat
    <3> QED
      BY <2>1, <2>3, <2>5, <3>4
  <2> QED
    BY <2>4, <2>6, <2>7
<1>9. T = 0 .. n
  <2>1. T \in SUBSET (0 .. n)
    OBVIOUS
  <2> HIDE DEF T
  <2> QED
    BY <1>1, <1>7, <1>8, <2>1, UpTo
<1>10. n \in T
  <2>1. n \in 0 .. n
    BY <1>1
  <2> QED
    BY <1>9, <2>1, Zenon
<1>11. SubSeq(s, 1, n) = s /\ SubSeq(q, 1, n) = q
  BY <1>6, SubSeqFull
<1> QED
  BY <1>3, <1>4, <1>10, <1>11 DEF n

\* In the words of the specification.
LEMMA AlwaysWrappedWell ==
  ASSUME NEW text \in Texts, NEW max \in Nat
  PROVE  WrappedWell(text, max)
<1> DEFINE ls == WrapText(text, max)
<1>1. FilledUpTo(ls, text, max, Len(text)) /\ Letters(FlattenSeq(ls)) = TextLetters(text)
  BY WrapTextFills
<1> HIDE DEF ls
<1>2. DOMAIN ls = 1 .. Len(ls)
  BY <1>1, LenProperties DEF FilledUpTo
<1>3. NoLineTooWide(ls, max)
  BY <1>1, <1>2 DEF NoLineTooWide, FilledUpTo, FullLine
<1>4. NoLineEndsEarly(ls, text, max)
  BY <1>1 DEF NoLineEndsEarly, FilledUpTo, EndsBefore
<1> QED
  BY <1>1, <1>3, <1>4 DEF WrappedWell, FilledWell, ls

\* An initial part of the numbers up to n is the numbers up to its size.
LEMMA InitialPart ==
  ASSUME NEW n \in Nat, NEW K \in SUBSET (1 .. n), \A i \in K : i > 1 => i - 1 \in K
  PROVE  Cardinality(K) \in 0 .. n /\ K = 1 .. Cardinality(K)
<1> DEFINE Missing == (1 .. n + 1) \ K
<1>1. Missing \in SUBSET Nat /\ n + 1 \in Missing
  OBVIOUS
<1>2. PICK m \in Missing : \A k \in Missing : m <= k
  <2>1. Missing # {}
    BY <1>1
  <2> HIDE DEF Missing
  <2> QED
    BY <1>1, <2>1, LeastNumber
<1>3. m \in 1 .. n + 1 /\ m \notin K /\ \A k \in 1 .. m - 1 : k \in K
  <2>1. m \in 1 .. n + 1 /\ m \notin K
    OBVIOUS
  <2>2. ASSUME NEW k \in 1 .. m - 1 PROVE k \in K
    <3>1. k \in 1 .. n + 1 /\ ~(m <= k)
      BY <2>1
    <3> QED
      BY <3>1, <1>2
  <2> QED
    BY <2>1, <2>2
<1>4. ASSUME NEW k \in K PROVE k \in 1 .. m - 1
  <2> SUFFICES ASSUME k >= m PROVE FALSE
    BY <1>3
  <2> DEFINE U == {j \in 0 .. n - m : m + j \notin K}
  <2>1. n - m \in Nat /\ 0 \in U
    BY <1>3
  <2>2. ASSUME NEW j \in 1 .. n - m, j - 1 \in U PROVE j \in U
    <3>1. m + (j - 1) \notin K /\ m + (j - 1) = (m + j) - 1 /\ m + j > 1 /\ j \in 0 .. n - m
      BY <1>3, <2>1, <2>2
    <3> QED
      BY <3>1
  <2>3. U = 0 .. n - m
    <3>1. U \in SUBSET (0 .. n - m)
      OBVIOUS
    <3> HIDE DEF U
    <3> QED
      BY <2>1, <2>2, <3>1, UpTo
  <2>4. k - m \in 0 .. n - m /\ m + (k - m) = k
    BY <1>3
  <2>5. k - m \in U
    BY <2>3, <2>4, Zenon
  <2> QED
    BY <2>4, <2>5
<1>5. K = 1 .. m - 1 /\ m - 1 \in 0 .. n
  <2>1. m - 1 \in 0 .. n
    BY <1>3
  <2>2. K \subseteq 1 .. m - 1
    BY <1>4
  <2>3. 1 .. m - 1 \subseteq K
    BY <1>3
  <2> QED
    BY <2>1, <2>2, <2>3
<1>6. Cardinality(1 .. m - 1) = m - 1
  <2>1. 1 \in Int /\ m - 1 \in Int
    BY <1>5
  <2>2. Cardinality(1 .. m - 1) = IF 1 > m - 1 THEN 0 ELSE m - 1 - 1 + 1
    BY ONLY <2>1, FS_Interval
  <2> QED
    BY <2>2, <1>5
<1> QED
  BY <1>5, <1>6

-----------------------------------------------------------------------------
(* Lines that are cut                                                      *)

\* Pieces that end no earlier than before they begin.
Spans == {p \in Pieces : PieceWidth(p) >= 0}

\* Where the pieces of a line begin and end.
LEMMA BeginsAndEnds ==
  ASSUME NEW line \in Seq(Spans), NEW i \in 1 .. Len(line)
  PROVE  /\ SubSeq(line, 1, i - 1) \in Seq(Pieces) /\ SubSeq(line, 1, i) \in Seq(Pieces)
         /\ SubSeq(line, 1, i) = Append(SubSeq(line, 1, i - 1), line[i])
         /\ (SubSeq(line, 1, i - 1) = <<>>) <=> (i = 1)
         /\ Begins(line, i) \in Int
         /\ Begins(line, i) = LineWidth(SubSeq(line, 1, i - 1)) + IF i = 1 THEN 0 ELSE 1
         /\ LineWidth(SubSeq(line, 1, i)) = Begins(line, i) + PieceWidth(line[i])
         /\ PieceWidth(line[i]) \in Nat
<1> DEFINE b == SubSeq(line, 1, i - 1)
           n == Len(line)
<1>1. n \in Nat /\ line \in Seq(Pieces) /\ \A j \in 1 .. n : line[j] \in Spans /\ line[j] \in Pieces
  <2>1. \A j \in 1 .. n : line[j] \in Spans
    BY ElementOfSeq
  <2>2. Spans \subseteq Pieces
    BY DEF Spans
  <2>3. line \in Seq(Pieces)
    BY <2>2, SeqMonotonic
  <2> QED
    BY <2>1, <2>2, <2>3, LenProperties
<1>2. b \in Seq(Pieces) /\ Len(b) = i - 1
  <2>1. ASSUME NEW j \in 1 .. i - 1 PROVE line[j] \in Pieces
    <3>1. j \in 1 .. n
      BY <1>1
    <3> QED
      BY <3>1, <1>1
  <2>2. 1 \in Int /\ i - 1 \in Int /\ \A j \in 1 .. i - 1 : line[j] \in Pieces
    BY <1>1, <2>1
  <2>3. b \in Seq(Pieces) /\ Len(b) = IF 1 <= i - 1 THEN i - 1 - 1 + 1 ELSE 0
    BY ONLY <2>2, SubSeqProperties
  <2> HIDE DEF b
  <2> QED
    BY <2>3, <1>1
<1>3. SubSeq(line, 1, i) = Append(b, line[i])
  <2>1. 1 \in 1 .. Len(line)
    BY <1>1
  <2>2. SubSeq(line, 1, i) = b \o <<line[i]>>
    BY <2>1, <1>1, SubSeqRecursiveSecond
  <2>3. line[i] \in Pieces
    BY <1>1
  <2> HIDE DEF b
  <2> QED
    BY <2>2, <2>3, <1>2, AppendIsConcat
<1>4. PieceWidth(line[i]) \in Nat /\ line[i] \in Pieces
  BY <1>1, WidthTyped DEF Spans
<1> HIDE DEF n
<1>5. Begins(line, i) = IF i = 1 THEN 0 ELSE LineWidth(b) + 1
  BY DEF Begins
<1> HIDE DEF b
<1>6. (b = <<>>) <=> (i = 1)
  BY <1>2, EmptySeq
<1>7. Append(b, line[i]) \in Seq(Pieces)
  BY <1>2, <1>4, AppendProperties
<1>8. LineWidth(b) \in Int /\ (i = 1 => LineWidth(b) = 0)
  BY <1>2, <1>6, LineWidthTyped, WidthOfNone
<1>9. LineWidth(Append(b, line[i])) = LineWidth(b) + (IF b = <<>> THEN 0 ELSE 1) + PieceWidth(line[i])
  BY <1>2, <1>4, WidthAppend
<1>10. Begins(line, i) \in Int /\ Begins(line, i) = LineWidth(b) + IF i = 1 THEN 0 ELSE 1
  BY <1>5, <1>8
<1>11. LineWidth(SubSeq(line, 1, i)) = Begins(line, i) + PieceWidth(line[i])
  BY <1>3, <1>4, <1>6, <1>8, <1>9, <1>10
<1> QED
  BY <1>2, <1>3, <1>4, <1>6, <1>7, <1>10, <1>11 DEF b

\* A piece begins after the one before it and a space.
LEMMA BeginsLater ==
  ASSUME NEW line \in Seq(Spans), NEW i \in 2 .. Len(line)
  PROVE  Begins(line, i) = Begins(line, i - 1) + PieceWidth(line[i - 1]) + 1
<1>1. i \in 1 .. Len(line) /\ i - 1 \in 1 .. Len(line) /\ i # 1
  BY LenProperties
<1>2. Begins(line, i) = LineWidth(SubSeq(line, 1, i - 1)) + 1
  BY <1>1 DEF Begins
<1>3. LineWidth(SubSeq(line, 1, i - 1)) = Begins(line, i - 1) + PieceWidth(line[i - 1])
  BY <1>1, BeginsAndEnds
<1> QED
  BY <1>2, <1>3

\* Letters a are the beginning of letters b.
Begin(a, b) == \E r \in Seq(Spots) : b = a \o r

\* A piece that is cut shows the beginning of it.
LEMMA CutPiece ==
  ASSUME NEW p \in Spans, NEW room \in Nat \ {0}, room < PieceWidth(p)
  PROVE  LET c == [p EXCEPT !.to = @ - PieceWidth(p) + room]
         IN  c \in Pieces /\ PieceWidth(c) = room /\ Begin(Shown(c), Shown(p))
<1> DEFINE c == [p EXCEPT !.to = @ - PieceWidth(p) + room]
           n == PieceWidth(p)
<1>1. p \in Pieces /\ n \in Nat /\ p.from \in Nat /\ p.to \in Nat /\ n = p.to - p.from + 1
      /\ p.par \in Nat /\ p.word \in Nat
  BY DEF Spans, Pieces, PieceWidth
<1>2. c.par = p.par /\ c.word = p.word /\ c.from = p.from /\ c.to = p.to - n + room
  BY <1>1 DEF Pieces
<1>3. c \in Pieces
  <2>1. p.to - PieceWidth(p) + room \in Nat
    BY <1>1
  <2> QED
    BY <1>1, <2>1 DEF Pieces
<1> HIDE DEF c, n
<1>4. PieceWidth(c) = room
  BY <1>1, <1>2 DEF PieceWidth
<1> DEFINE At(i) == <<p.par, p.word, p.from + i - 1>>
           r == [i \in 1 .. n - room |-> At(room + i)]
<1>5. Shown(p) = [i \in 1 .. n |-> At(i)] /\ Shown(c) = [i \in 1 .. room |-> At(i)]
  BY <1>2, <1>4 DEF Shown, n
<1>6. \A i \in Nat \ {0} : At(i) \in Spots
  BY <1>1 DEF Spots
<1>7. n - room \in Nat /\ room < n /\ n \in Nat
  BY <1>1 DEF n
<1> HIDE DEF At
<1>8. /\ Shown(p) \in Seq(Spots) /\ Len(Shown(p)) = n /\ \A i \in 1 .. n : Shown(p)[i] = At(i)
  <2>1. Shown(p) \in [1 .. n -> Spots] /\ \A i \in 1 .. n : Shown(p)[i] = At(i)
    BY <1>5, <1>6, <1>1
  <2> QED
    BY <2>1, <1>1, FunctionIsSeq
<1>9. /\ Shown(c) \in Seq(Spots) /\ Len(Shown(c)) = room /\ \A i \in 1 .. room : Shown(c)[i] = At(i)
  <2>1. Shown(c) \in [1 .. room -> Spots] /\ \A i \in 1 .. room : Shown(c)[i] = At(i)
    BY <1>5, <1>6, <1>1
  <2> QED
    BY <2>1, FunctionIsSeq
<1>10. /\ r \in Seq(Spots) /\ Len(r) = n - room /\ \A i \in 1 .. n - room : r[i] = At(room + i)
  <2>1. \A i \in 1 .. n - room : room + i \in Nat \ {0}
    BY <1>7
  <2>2. r \in [1 .. n - room -> Spots] /\ \A i \in 1 .. n - room : r[i] = At(room + i)
    BY <2>1, <1>6
  <2> HIDE DEF r
  <2> QED
    BY <2>2, <1>7, FunctionIsSeq
<1> HIDE DEF r
<1> DEFINE a == Shown(c)
           t == a \o r
<1>11. /\ t \in Seq(Spots) /\ Len(t) = n
       /\ \A i \in 1 .. n : t[i] = IF i <= room THEN a[i] ELSE r[i - room]
  <2>1. a \in Seq(Spots) /\ Len(a) = room
    BY <1>9
  <2> HIDE DEF a
  <2>2. /\ t \in Seq(Spots) /\ Len(t) = Len(a) + Len(r)
        /\ \A i \in 1 .. Len(a) + Len(r) : t[i] = IF i <= Len(a) THEN a[i] ELSE r[i - Len(a)]
    BY <2>1, <1>10, ConcatProperties
  <2>3. Len(a) = room /\ Len(a) + Len(r) = n
    BY <2>1, <1>1, <1>10
  <2> HIDE DEF t
  <2> QED
    BY <2>2, <2>3
<1> HIDE DEF t
<1>12. ASSUME NEW i \in 1 .. n PROVE Shown(p)[i] = t[i]
  <2>1. CASE i <= room
    <3>1. i \in 1 .. room
      BY <2>1
    <3> QED
      BY <3>1, <2>1, <1>8, <1>9, <1>11
  <2>2. CASE ~(i <= room)
    <3>1. i - room \in 1 .. n - room /\ room + (i - room) = i
      BY <2>2, <1>7
    <3>2. t[i] = r[i - room]
      BY <2>2, <1>11
    <3>3. r[i - room] = At(room + (i - room))
      BY <3>1, <1>10
    <3> QED
      BY <3>1, <3>2, <3>3, <1>8
  <2> QED
    BY <2>1, <2>2
<1>13. Shown(p) = t
  BY <1>8, <1>11, <1>12, SeqEqual
<1>14. Begin(Shown(c), Shown(p))
  BY <1>10, <1>13 DEF Begin, t
<1> QED
  BY <1>3, <1>4, <1>14 DEF c

\* The first characters of a line: no more than there is room for, and the
\* beginning of what the line shows.
LEMMA FirstCharsBegin ==
  ASSUME NEW line \in Seq(Spans), NEW n \in Nat
  PROVE  /\ FirstChars(line, n) \in Seq(Pieces)
         /\ LineWidth(FirstChars(line, n)) <= n
         /\ Begin(Letters(FirstChars(line, n)), Letters(line))
<1> DEFINE kept == {i \in DOMAIN line : Begins(line, i) < n}
           m == Cardinality(kept)
           N == Len(line)
           Room(i) == n - Begins(line, i)
           Part(i) == IF PieceWidth(line[i]) <= Room(i) THEN line[i]
                      ELSE [line[i] EXCEPT !.to = @ - PieceWidth(line[i]) + Room(i)]
           fc == FirstChars(line, n)
<1>1. N \in Nat /\ DOMAIN line = 1 .. N /\ line \in Seq(Pieces)
      /\ \A i \in 1 .. N : line[i] \in Spans /\ line[i] \in Pieces
  <2>1. Spans \subseteq Pieces
    BY DEF Spans
  <2> QED
    BY <2>1, LenProperties, ElementOfSeq, SeqMonotonic
<1>2. \A i \in 1 .. N : Begins(line, i) \in Int /\ PieceWidth(line[i]) \in Nat
  BY BeginsAndEnds
<1>3. \A i \in 2 .. N : Begins(line, i) = Begins(line, i - 1) + PieceWidth(line[i - 1]) + 1
  BY BeginsLater
<1>4. fc = [i \in 1 .. m |-> Part(i)]
  BY DEF FirstChars
<1>5. kept \in SUBSET (1 .. N) /\ \A i \in kept : i > 1 => i - 1 \in kept
  <2>1. kept \in SUBSET (1 .. N)
    BY <1>1
  <2>2. ASSUME NEW i \in kept, i > 1 PROVE i - 1 \in kept
    <3>1. i \in 2 .. N /\ i - 1 \in 1 .. N
      BY <2>1, <2>2
    <3>2. Begins(line, i) = Begins(line, i - 1) + PieceWidth(line[i - 1]) + 1 /\ Begins(line, i) < n
      BY <3>1, <1>3
    <3>3. Begins(line, i - 1) \in Int /\ PieceWidth(line[i - 1]) \in Nat
      BY <3>1, <1>2
    <3>4. Begins(line, i - 1) < n
      BY <3>2, <3>3
    <3> QED
      BY <3>1, <3>4, <1>1
  <2> QED
    BY <2>1, <2>2
<1>6. \A i \in kept : Begins(line, i) < n
  OBVIOUS
<1> HIDE DEF kept
<1>7. m \in 0 .. N /\ kept = 1 .. m
  BY <1>1, <1>5, InitialPart
<1> HIDE DEF m, N, fc
<1>8. \A i \in 1 .. m : i \in 1 .. N /\ Begins(line, i) < n
  BY <1>1, <1>6, <1>7
<1>9. ASSUME NEW i \in 1 .. m - 1 PROVE Part(i) = line[i]
  <2>1. i + 1 \in 1 .. m /\ i + 1 \in 2 .. N /\ (i + 1) - 1 = i /\ i \in 1 .. N
    BY <1>1, <1>7
  <2>2. Begins(line, i + 1) = Begins(line, i) + PieceWidth(line[i]) + 1 /\ Begins(line, i + 1) < n
    BY <2>1, <1>3, <1>8
  <2>3. Begins(line, i) \in Int /\ PieceWidth(line[i]) \in Nat
    BY <2>1, <1>2
  <2>4. PieceWidth(line[i]) <= Room(i)
    BY <2>2, <2>3
  <2> QED
    BY <2>4
<1>10. CASE m = 0
  <2>1. fc = <<>>
    <3>1. fc \in [1 .. 0 -> Pieces]
      BY <1>4, <1>10
    <3>2. fc \in Seq(Pieces) /\ Len(fc) = 0
      BY <3>1, FunctionIsSeq
    <3> QED
      BY <3>2, EmptySeq
  <2>2. Letters(line) \in Seq(Spots) /\ <<>> \o Letters(line) = Letters(line)
    BY <1>1, LettersTyped, ConcatEmptySeq
  <2>3. Begin(<<>>, Letters(line))
    BY <2>2 DEF Begin
  <2>4. LineWidth(<<>>) = 0 /\ Letters(<<>>) = <<>> /\ <<>> \in Seq(Pieces)
    BY WidthOfNone, LettersTyped, EmptySeq
  <2> QED
    BY <2>1, <2>3, <2>4 DEF fc
<1>11. CASE m # 0
  <2> DEFINE b == SubSeq(line, 1, m - 1)
             p == line[m]
             c == Part(m)
  <2>1. m \in 1 .. m /\ m \in 1 .. N /\ m - 1 \in 0 .. N
    BY <1>1, <1>7, <1>11
  <2>2. /\ b \in Seq(Pieces) /\ SubSeq(line, 1, m) = Append(b, p)
        /\ (b = <<>>) <=> (m = 1)
        /\ Begins(line, m) = LineWidth(b) + IF m = 1 THEN 0 ELSE 1
        /\ Begins(line, m) \in Int /\ PieceWidth(p) \in Nat /\ p \in Spans /\ p \in Pieces
        /\ Begins(line, m) < n
    <3>1. m \in 1 .. Len(line)
      BY <2>1 DEF N
    <3> QED
      BY <3>1, <2>1, <1>1, <1>8, BeginsAndEnds
  <2>3. Len(b) = m - 1 /\ \A i \in 1 .. m - 1 : b[i] = line[i]
    <3>1. 1 \in Int /\ m - 1 \in Int /\ \A i \in 1 .. m - 1 : line[i] \in Pieces
      <4>1. ASSUME NEW i \in 1 .. m - 1 PROVE line[i] \in Pieces
        <5>1. i \in 1 .. N
          BY <2>1, <1>1
        <5> QED
          BY <5>1, <1>1
      <4> QED
        BY <2>1, <4>1
    <3>2. /\ Len(b) = IF 1 <= m - 1 THEN m - 1 - 1 + 1 ELSE 0
          /\ \A i \in 1 .. m - 1 - 1 + 1 : b[i] = line[1 + i - 1]
      BY ONLY <3>1, SubSeqProperties
    <3> HIDE DEF b
    <3>3. m - 1 - 1 + 1 = m - 1 /\ \A i \in 1 .. m - 1 : 1 + i - 1 = i
      BY <2>1
    <3>4. Len(b) = m - 1
      BY <3>2, <2>1
    <3> QED
      BY <3>2, <3>3, <3>4
  <2>4. /\ c \in Pieces /\ PieceWidth(c) \in Nat /\ PieceWidth(c) <= n - Begins(line, m)
        /\ Begin(Shown(c), Shown(p))
    <3>1. CASE PieceWidth(p) <= Room(m)
      <4>1. c = p
        BY <3>1
      <4>2. Shown(p) \in Seq(Spots) /\ Shown(p) \o <<>> = Shown(p) /\ <<>> \in Seq(Spots)
        BY <2>2, ShownTyped, ConcatEmptySeq, EmptySeq
      <4>3. Begin(Shown(p), Shown(p))
        BY <4>2 DEF Begin
      <4> QED
        BY <3>1, <4>1, <4>3, <2>2
    <3>2. CASE ~(PieceWidth(p) <= Room(m))
      <4> DEFINE room == n - Begins(line, m)
      <4>1. room \in Nat \ {0} /\ room < PieceWidth(p)
        BY <2>2, <3>2
      <4>2. c = [p EXCEPT !.to = @ - PieceWidth(p) + room]
        BY <3>2
      <4> HIDE DEF room, c, p
      <4>3. c \in Pieces /\ PieceWidth(c) = room /\ Begin(Shown(c), Shown(p))
        BY <4>1, <4>2, <2>2, CutPiece
      <4> QED
        BY <4>1, <4>3 DEF room
    <3> QED
      BY <3>1, <3>2
  <2>5. \A i \in 1 .. m : fc[i] = Part(i)
    BY <1>4
  <2>6. DOMAIN fc = 1 .. m /\ fc = [i \in 1 .. m |-> fc[i]]
    BY <1>4
  <2>7. ASSUME NEW i \in 1 .. m - 1 PROVE fc[i] = b[i]
    <3>1. i \in 1 .. m
      BY <2>1
    <3> HIDE DEF Part, b
    <3> QED
      BY <3>1, <2>3, <2>5, <1>9
  <2>8. fc[m] = c
    BY <2>1, <2>5
  <2> HIDE DEF b, p, c, Part, Room
  <2> DEFINE a == Append(b, c)
  <2>9. /\ a \in Seq(Pieces) /\ Len(a) = m /\ (\A i \in 1 .. m - 1 : a[i] = b[i]) /\ a[m] = c
    <3>1. /\ a \in Seq(Pieces) /\ Len(a) = Len(b) + 1 /\ (\A i \in 1 .. Len(b) : a[i] = b[i])
          /\ a[Len(b) + 1] = c
      BY <2>2, <2>4, AppendProperties
    <3>2. Len(b) = m - 1 /\ Len(b) + 1 = m
      BY <2>1, <2>3
    <3> HIDE DEF a
    <3> QED
      BY <3>1, <3>2
  <2>10. LineWidth(a) = LineWidth(b) + (IF b = <<>> THEN 0 ELSE 1) + PieceWidth(c)
    BY <2>2, <2>4, WidthAppend
  <2>11. Letters(a) = Letters(b) \o Shown(c)
    BY <2>2, <2>4, LettersAppend
  <2> HIDE DEF a
  <2>12. fc = a
    <3>1. \A i \in 1 .. m : fc[i] = a[i]
      <4> TAKE i \in 1 .. m
      <4>1. i = m \/ i \in 1 .. m - 1
        BY <2>1
      <4> QED
        BY <4>1, <2>7, <2>8, <2>9
    <3>2. fc \in [1 .. m -> Pieces]
      <4>1. \A i \in 1 .. m : a[i] \in Pieces
        BY <2>9, ElementOfSeq
      <4> QED
        BY <4>1, <3>1, <2>6
    <3>3. fc \in Seq(Pieces) /\ Len(fc) = m
      <4>1. m \in Nat
        BY <2>1
      <4> QED
        BY <4>1, <3>2, FunctionIsSeq
    <3> QED
      BY <3>1, <3>3, <2>9, SeqEqual
  <2>13. LineWidth(fc) <= n
    <3> DEFINE x == Begins(line, m)
               z == PieceWidth(c)
               y == LineWidth(b)
    <3>1. y \in Int
      BY <2>2, LineWidthTyped
    <3>2. x \in Int /\ z \in Nat /\ z <= n - x /\ x = y + IF m = 1 THEN 0 ELSE 1
      BY <2>2, <2>4
    <3>3. LineWidth(fc) = y + (IF m = 1 THEN 0 ELSE 1) + z
      BY <2>2, <2>10, <2>12
    <3> HIDE DEF x, y, z
    <3> QED
      BY <3>1, <3>2, <3>3
  <2>14. Begin(Letters(fc), Letters(line))
    <3>1. PICK r \in Seq(Spots) : Shown(p) = Shown(c) \o r
      BY <2>4 DEF Begin
    <3> DEFINE rest == SubSeq(line, m + 1, N)
               d == Letters(rest)
               e == Letters(b)
               u == Shown(c)
    <3>2. rest \in Seq(Pieces) /\ line = Append(b, p) \o rest
      <4>1. 1 \in 1 .. Len(line) + 1 /\ m \in 1 - 1 .. Len(line) /\ N \in m .. Len(line)
        BY <1>1, <2>1 DEF N
      <4>2. SubSeq(line, 1, m) \o rest = SubSeq(line, 1, N)
        BY ONLY <4>1, <1>1, ConcatAdjacentSubSeq
      <4>3. SubSeq(line, 1, N) = line
        BY <1>1, SubSeqFull DEF N
      <4>4. m + 1 \in Int /\ N \in Int /\ \A i \in m + 1 .. N : line[i] \in Pieces
        <5>1. \A i \in m + 1 .. N : i \in 1 .. N
          BY <1>1, <2>1
        <5> QED
          BY <5>1, <1>1, <2>1
      <4>5. rest \in Seq(Pieces)
        BY ONLY <4>4, SubSeqProperties
      <4> QED
        BY <4>2, <4>3, <4>5, <2>2
    <3> HIDE DEF rest
    <3>3. Append(b, p) \in Seq(Pieces) /\ Letters(Append(b, p)) = e \o Shown(p)
      BY <2>2, AppendProperties, LettersAppend
    <3>4. Letters(line) = (e \o Shown(p)) \o d
      BY <3>2, <3>3, LettersConcat
    <3>5. d \in Seq(Spots) /\ e \in Seq(Spots) /\ u \in Seq(Spots)
      BY <3>2, <2>2, <2>4, LettersTyped, ShownTyped
    <3> HIDE DEF d, e, u
    <3>6. Letters(line) = (e \o (u \o r)) \o d
      BY <3>1, <3>4 DEF u
    <3>7. e \o (u \o r) = (e \o u) \o r /\ e \o u \in Seq(Spots)
      BY <3>5, ConcatAssociative, ConcatProperties
    <3>8. ((e \o u) \o r) \o d = (e \o u) \o (r \o d) /\ r \o d \in Seq(Spots)
      <4>1. \A v, w, x \in Seq(Spots) : (v \o w) \o x = v \o (w \o x)
        BY ConcatAssociative
      <4>2. r \o d \in Seq(Spots)
        BY <3>5, ConcatProperties
      <4>3. ((e \o u) \o r) \o d = (e \o u) \o (r \o d)
        BY <3>5, <3>7, <4>1, Zenon
      <4> QED
        BY <4>2, <4>3
    <3>9. Letters(fc) = e \o u
      BY <2>11, <2>12 DEF e, u
    <3> QED
      BY <3>6, <3>7, <3>8, <3>9 DEF Begin
  <2> QED
    BY <2>9, <2>12, <2>13, <2>14 DEF fc
<1> QED
  BY <1>10, <1>11

\* Such a beginning is what IsPrefix says.
LEMMA BeginIsPrefix ==
  ASSUME NEW a \in Seq(Spots), NEW b \in Seq(Spots), Begin(a, b)
  PROVE  IsPrefix(a, b)
<1> DEFINE m == Len(a)
<1>1. PICK r \in Seq(Spots) : b = a \o r
  BY DEF Begin
<1>2. m \in Nat /\ Len(b) = m + Len(r) /\ Len(r) \in Nat
      /\ \A i \in 1 .. m + Len(r) : b[i] = IF i <= m THEN a[i] ELSE r[i - m]
  BY <1>1, ConcatProperties, LenProperties
<1>3. SubSeq(a, 1, m) = a
  BY SubSeqFull
<1>4. \A i \in 1 .. m : b[i] = a[i] /\ a[i] \in Spots
  <2>1. \A i \in 1 .. m : a[i] \in Spots
    BY ElementOfSeq
  <2> HIDE DEF m
  <2> QED
    BY <2>1, <1>2
<1>5. SubSeq(b, 1, m) \in Seq(Spots) /\ Len(SubSeq(b, 1, m)) = m /\ \A i \in 1 .. m : SubSeq(b, 1, m)[i] = b[i]
  <2> HIDE DEF m
  <2>1. 1 \in Int /\ m \in Int /\ \A i \in 1 .. m : b[i] \in Spots
    BY <1>2, <1>4
  <2> DEFINE c == SubSeq(b, 1, m)
  <2>2. /\ c \in Seq(Spots) /\ Len(c) = IF 1 <= m THEN m - 1 + 1 ELSE 0
        /\ \A i \in 1 .. m - 1 + 1 : c[i] = b[1 + i - 1]
    BY ONLY <2>1, SubSeqProperties
  <2> HIDE DEF c
  <2>3. m - 1 + 1 = m /\ (\A i \in 1 .. m : 1 + i - 1 = i) /\ (1 <= m \/ m = 0)
    BY <1>2
  <2>4. Len(c) = m
    BY <2>2, <2>3
  <2>5. c \in Seq(Spots) /\ Len(c) = m /\ \A i \in 1 .. m : c[i] = b[i]
    BY <2>2, <2>3, <2>4
  <2> QED
    BY <2>5 DEF c
<1>6. SubSeq(b, 1, m) = a
  <2> DEFINE c == SubSeq(b, 1, m)
  <2>1. c \in Seq(Spots) /\ Len(c) = Len(a) /\ \A i \in 1 .. Len(c) : c[i] = a[i]
    BY <1>4, <1>5
  <2> HIDE DEF c
  <2>2. c = a
    BY <2>1, SeqEqual
  <2> QED
    BY <2>2 DEF c
<1>7. m <= Len(b)
  <2> HIDE DEF m
  <2> QED
    BY <1>2
<1> QED
  BY <1>3, <1>6, <1>7 DEF IsPrefix

\* Lines of whole pieces, from which titles are made.
LEMMA WrapTextSpans ==
  ASSUME NEW text \in Texts, NEW max \in Nat
  PROVE  /\ WrapText(text, max) \in Seq(Seq(Spans))
         /\ \A i \in 1 .. Len(WrapText(text, max)) :
              LET l == WrapText(text, max)[i]
              IN  l \in Seq(Spans) /\ LineWidth(l) \in Int /\ (LineWidth(l) <= max \/ LineWidth(l) = 1)
<1> DEFINE ls == WrapText(text, max)
<1>1. FilledUpTo(ls, text, max, Len(text))
  BY WrapTextFills
<1> HIDE DEF ls
<1>2. ls \in Seq(Lines)
  BY <1>1 DEF FilledUpTo
<1>3. ASSUME NEW i \in 1 .. Len(ls)
      PROVE  ls[i] \in Seq(Spans) /\ LineWidth(ls[i]) \in Int /\ (LineWidth(ls[i]) <= max \/ LineWidth(ls[i]) = 1)
  <2>1. PICK p \in 1 .. Len(text) : FullLine(ls[i], p, max)
    BY <1>1 DEF FilledUpTo
  <2> DEFINE l == ls[i]
  <2>2. l \in Seq(Pieces) /\ (\A j \in 1 .. Len(l) : PieceWidth(l[j]) >= 0)
        /\ (LineWidth(l) <= max \/ LineWidth(l) = 1)
    BY <2>1 DEF FullLine, Lines
  <2> HIDE DEF l
  <2>3. \A j \in 1 .. Len(l) : l[j] \in Spans
    BY <2>2, ElementOfSeq DEF Spans
  <2>4. Len(l) \in Nat /\ l \in [1 .. Len(l) -> Pieces]
    BY <2>2, LenProperties
  <2>5. l \in [1 .. Len(l) -> Spans]
    BY <2>3, <2>4
  <2>6. l \in Seq(Spans)
    BY <2>4, <2>5, FunctionIsSeq
  <2>7. LineWidth(l) \in Int
    BY <2>2, LineWidthTyped
  <2> QED
    BY <2>2, <2>6, <2>7 DEF l
<1>4. ls \in Seq(Seq(Spans))
  <2>1. Len(ls) \in Nat /\ ls \in [1 .. Len(ls) -> Lines]
    BY <1>2, LenProperties
  <2>2. ls \in [1 .. Len(ls) -> Seq(Spans)]
    BY <1>3, <2>1
  <2> QED
    BY <2>1, <2>2, FunctionIsSeq
<1> QED
  BY <1>3, <1>4 DEF ls

\* The beginning of a text is still its beginning under another beginning.
LEMMA BeginAfter ==
  ASSUME NEW a \in Seq(Spots), NEW b \in Seq(Spots), NEW c \in Seq(Spots), Begin(b, c)
  PROVE  Begin(a \o b, a \o c)
<1>1. PICK r \in Seq(Spots) : c = b \o r
  BY DEF Begin
<1>2. a \o (b \o r) = (a \o b) \o r
  BY ConcatAssociative
<1> QED
  BY <1>1, <1>2 DEF Begin

\* A title is cut to two lines within its column that show its beginning.
LEMMA TitleIsTruthful ==
  ASSUME NEW text \in Texts, NEW max \in Nat, Ellipsis <= max
  PROVE  /\ ShowsBeginning(Wrap2Lines(text, max), text, max)
         /\ \A k \in DOMAIN Wrap2Lines(text, max) :
              LineWidth(Wrap2Lines(text, max)[k].pieces)
                + (IF Wrap2Lines(text, max)[k].dots THEN Ellipsis ELSE 0) <= max
<1> DEFINE ls == WrapText(text, max)
           n == Len(ls)
           lines == Wrap2Lines(text, max)
           shown == [i \in DOMAIN lines |-> lines[i].pieces]
           all == TextLetters(text)
<1>1. /\ ls \in Seq(Seq(Spans))
      /\ \A i \in 1 .. n :
           ls[i] \in Seq(Spans) /\ LineWidth(ls[i]) \in Int /\ (LineWidth(ls[i]) <= max \/ LineWidth(ls[i]) = 1)
  BY WrapTextSpans
<1>2. Letters(FlattenSeq(ls)) = all
  BY WrapTextFills
<1>3. lines = IF n <= 2 THEN [i \in DOMAIN ls |-> Whole(ls[i])]
              ELSE <<Whole(ls[1]), Clip(FlattenSeq(Tail(ls)), max)>>
  BY DEF Wrap2Lines, FirstTwo
<1>4. ShowsBeginning(lines, text, max)
        <=> /\ IsPrefix(Letters(FlattenSeq(shown)), all)
            /\ Letters(FlattenSeq(shown)) # all => \E i \in DOMAIN lines : lines[i].dots
            /\ (\E i \in DOMAIN lines : lines[i].dots) => n > 2
  BY DEF ShowsBeginning
<1>5. 3 <= max /\ Spans \subseteq Pieces
  BY DEF Ellipsis, Spans
<1> HIDE DEF ls, lines, all
<1>6. n \in Nat /\ DOMAIN ls = 1 .. n
  BY <1>1, LenProperties
<1>7. all \in Seq(Spots)
  <2>1. FlattenSeq(ls) \in Seq(Spans)
    BY <1>1, FlattenTyped
  <2>2. FlattenSeq(ls) \in Seq(Pieces)
    BY <2>1, <1>5, SeqMonotonic
  <2> QED
    BY <2>2, <1>2, LettersTyped
<1>8. \A a \in Seq(Spots) : Begin(a, a)
  <2> TAKE a \in Seq(Spots)
  <2>1. a \o <<>> = a /\ <<>> \in Seq(Spots)
    BY ConcatEmptySeq, EmptySeq
  <2> QED
    BY <2>1 DEF Begin
<1>9. CASE n <= 2
  <2>1. DOMAIN lines = 1 .. n /\ \A i \in 1 .. n : lines[i].pieces = ls[i] /\ lines[i].dots = FALSE
    BY <1>3, <1>6, <1>9 DEF Whole
  <2>2. shown = ls
    <3>1. ls = [i \in 1 .. n |-> ls[i]]
      BY <1>1, <1>6, LenProperties
    <3>2. shown = [i \in 1 .. n |-> ls[i]]
      BY <2>1
    <3> QED
      BY <3>1, <3>2
  <2>3. IsPrefix(all, all)
    BY <1>7, <1>8, BeginIsPrefix
  <2>4. \A k \in 1 .. n : LineWidth(lines[k].pieces) + (IF lines[k].dots THEN Ellipsis ELSE 0) <= max
    <3> TAKE k \in 1 .. n
    <3>1. LineWidth(lines[k].pieces) = LineWidth(ls[k]) /\ ~lines[k].dots
      BY <2>1
    <3>2. LineWidth(ls[k]) \in Int /\ LineWidth(ls[k]) <= max
      BY <1>1, <1>5
    <3> QED
      BY <3>1, <3>2
  <2> HIDE DEF shown, n
  <2>5. ShowsBeginning(lines, text, max)
    BY <1>2, <1>4, <2>1, <2>2, <2>3
  <2> QED
    BY <2>1, <2>4, <2>5 DEF lines
<1>10. CASE ~(n <= 2)
  <2> DEFINE rest == FlattenSeq(Tail(ls))
             l == ls[1]
             clip == Clip(rest, max)
             c == clip.pieces
  <2>1. lines = <<Whole(l), clip>>
    BY <1>3, <1>10
  <2>2. /\ l \in Seq(Spans) /\ l \in Seq(Pieces) /\ LineWidth(l) \in Int /\ LineWidth(l) <= max
    <3>1. 1 \in 1 .. n
      BY <1>6, <1>10
    <3> QED
      BY <3>1, <1>1, <1>5, SeqMonotonic
  <2>3. Tail(ls) \in Seq(Seq(Spans)) /\ ls = <<l>> \o Tail(ls)
    <3>1. ls # <<>> /\ 1 \in 1 .. Len(ls) /\ Len(ls) \in 1 .. Len(ls)
      <4>1. ls = <<>> => n = 0
        BY EmptySeq
      <4> QED
        BY <1>6, <1>10, <4>1
    <3>2. Tail(ls) = SubSeq(ls, 2, Len(ls)) /\ Tail(ls) \in Seq(Seq(Spans))
      BY <1>1, <3>1, TailIsSubSeq, HeadTailProperties
    <3>3. SubSeq(ls, 1, Len(ls)) = <<ls[1]>> \o SubSeq(ls, 1 + 1, Len(ls))
      BY <1>1, <3>1, SubSeqRecursiveFirst
    <3>4. SubSeq(ls, 1, Len(ls)) = ls /\ 1 + 1 = 2
      BY <1>1, SubSeqFull
    <3> QED
      BY <3>2, <3>3, <3>4
  <2>4. rest \in Seq(Spans) /\ rest \in Seq(Pieces) /\ FlattenSeq(ls) = l \o rest
    <3>1. rest \in Seq(Spans)
      BY <2>3, FlattenTyped
    <3>2. <<l>> \in Seq(Seq(Spans)) /\ FlattenSeq(<<l>>) = l
      BY <2>2, FlattenOne
    <3>3. FlattenSeq(<<l>> \o Tail(ls)) = l \o rest
      BY <2>3, <3>2, FlattenConcat
    <3> QED
      BY <3>1, <3>3, <2>3, <1>5, SeqMonotonic
  <2> HIDE DEF rest, l
  <2>5. /\ c \in Seq(Pieces) /\ Begin(Letters(c), Letters(rest))
        /\ ~clip.dots => c = rest
        /\ LineWidth(c) + (IF clip.dots THEN Ellipsis ELSE 0) <= max
    <3>1. CASE Fits(rest, max)
      <4>1. c = rest /\ ~clip.dots
        BY <3>1 DEF Clip, Whole
      <4>2. Letters(rest) \in Seq(Spots) /\ LineWidth(rest) \in Int /\ LineWidth(rest) <= max
        BY <2>4, <3>1, LettersTyped, LineWidthTyped DEF Fits
      <4> HIDE DEF c, clip
      <4>3. LineWidth(c) + 0 <= max
        BY <4>1, <4>2
      <4> QED
        BY <4>1, <4>2, <4>3, <2>4, <1>8
    <3>2. CASE ~Fits(rest, max)
      <4> DEFINE m == max - 3
      <4>1. m \in Nat /\ (IF max > Ellipsis THEN max - Ellipsis ELSE 0) = m
        BY <1>5 DEF Ellipsis
      <4>2. clip = [pieces |-> FirstChars(rest, IF max > Ellipsis THEN max - Ellipsis ELSE 0), dots |-> TRUE]
        BY <3>2 DEF Clip
      <4>3. c = FirstChars(rest, m) /\ clip.dots
        BY <4>1, <4>2
      <4> HIDE DEF c, clip
      <4>4. c \in Seq(Pieces) /\ LineWidth(c) <= m /\ Begin(Letters(c), Letters(rest))
        <5> HIDE DEF m
        <5> QED
          BY <2>4, <4>1, <4>3, FirstCharsBegin
      <4>5. LineWidth(c) \in Int
        BY <4>4, LineWidthTyped
      <4>6. LineWidth(c) + Ellipsis <= max
        BY <4>4, <4>5 DEF Ellipsis
      <4> QED
        BY <4>3, <4>4, <4>6
    <3> QED
      BY <3>1, <3>2
  <2>6. shown = <<l, c>>
    BY <2>1 DEF Whole
  <2>7. DOMAIN lines = 1 .. 2 /\ lines[1].pieces = l /\ ~lines[1].dots /\ lines[2] = clip
    BY <2>1 DEF Whole
  <2> HIDE DEF clip, shown
  <2>8. FlattenSeq(shown) = l \o c
    <3> DEFINE one == <<l>>
    <3>1. <<l, c>> = Append(one, c)
      OBVIOUS
    <3>2. one \in Seq(Seq(Pieces)) /\ FlattenSeq(one) = l
      BY <2>2, FlattenOne
    <3> HIDE DEF one, c
    <3>3. FlattenSeq(Append(one, c)) = FlattenSeq(one) \o c
      BY <2>5, <3>2, FlattenAppend
    <3> QED
      BY <2>6, <3>1, <3>2, <3>3
  <2> HIDE DEF c
  <2>9. Letters(FlattenSeq(shown)) = Letters(l) \o Letters(c) /\ all = Letters(l) \o Letters(rest)
    BY <1>2, <2>2, <2>4, <2>5, <2>8, LettersConcat
  <2>10. Letters(l) \in Seq(Spots) /\ Letters(c) \in Seq(Spots) /\ Letters(rest) \in Seq(Spots)
    BY <2>2, <2>4, <2>5, LettersTyped
  <2>11. Letters(FlattenSeq(shown)) \in Seq(Spots) /\ Begin(Letters(FlattenSeq(shown)), all)
    BY <2>5, <2>9, <2>10, BeginAfter, ConcatProperties
  <2>12. IsPrefix(Letters(FlattenSeq(shown)), all)
    BY <1>7, <2>11, BeginIsPrefix
  <2>13. Letters(FlattenSeq(shown)) # all => \E i \in DOMAIN lines : lines[i].dots
    <3> HAVE Letters(FlattenSeq(shown)) # all
    <3>1. c # rest
      BY <2>9
    <3>2. lines[2].dots /\ 2 \in DOMAIN lines
      BY <2>5, <2>7, <3>1
    <3> QED
      BY <3>2
  <2>14. n > 2
    BY <1>6, <1>10
  <2>15. ShowsBeginning(lines, text, max)
    BY <1>4, <2>12, <2>13, <2>14
  <2>16. ASSUME NEW k \in DOMAIN lines
         PROVE  LineWidth(lines[k].pieces) + (IF lines[k].dots THEN Ellipsis ELSE 0) <= max
    <3>1. k = 1 \/ k = 2
      BY <2>7
    <3>2. CASE k = 1
      BY <2>2, <2>7, <3>2
    <3>3. CASE k = 2
      BY <2>5, <2>7, <3>3 DEF c
    <3> QED
      BY <3>1, <3>2, <3>3
  <2> QED
    BY <2>15, <2>16 DEF lines
<1> QED
  BY <1>9, <1>10

=============================================================================
