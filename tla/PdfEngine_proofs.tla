---------------------------- MODULE PdfEngine_proofs ----------------------------
(***************************************************************************)
(* Proofs about stamped files, for any pages, boxes, captions and notes,   *)
(* and about the audit report, for any history, signers, file and width of *)
(* the columns.                                                            *)
(***************************************************************************)
EXTENDS PdfEngine, TextLayout_proofs

-----------------------------------------------------------------------------
(* Places on a page                                                        *)

\* A fraction of a side that is a multiple of the grid.
LEMMA Fraction ==
  ASSUME NEW g \in Nat, g # 0, NEW q \in Int, NEW a \in Int
  PROVE  (a * (g * q)) \div g = a * q
<1> DEFINE n == a * q
           m == a * (g * q)
           d == m \div g
<1>1. n \in Int /\ m \in Int /\ m = n * g
  OBVIOUS
<1> HIDE DEF n, m
<1>2. d \in Int /\ d * g <= m /\ m < d * g + g
  BY <1>1
<1> HIDE DEF d
<1>3. (d - n) * g <= 0 /\ 0 < (d - n + 1) * g
  BY <1>1, <1>2
<1>4. d - n <= 0 /\ 0 < d - n + 1
  <2> DEFINE e == d - n
  <2>1. e \in Int
    BY <1>1, <1>2
  <2>2. e * g <= 0 /\ 0 < (e + 1) * g
    BY <1>3
  <2> HIDE DEF e
  <2>3. e <= 0 /\ 0 < e + 1
    BY <2>1, <2>2
  <2> QED
    BY <2>3 DEF e
<1>5. d = n
  BY <1>1, <1>2, <1>4
<1> QED
  BY <1>5 DEF d, n, m

LEMMA Times ==
  ASSUME NEW a \in Int, NEW b \in Int, NEW q \in Nat, a <= b
  PROVE  a * q <= b * q
  OBVIOUS

\* A side that is a multiple of the grid.
LEMMA Multiple ==
  ASSUME NEW g \in Nat, g # 0, NEW m \in Nat, m % g = 0
  PROVE  \E q \in Nat : m = g * q
<1>1. m \div g \in Nat /\ m = g * (m \div g)
  OBVIOUS
<1> QED
  BY <1>1

\* A valid box lies on its page, where the client has drawn it.
LEMMA BoxOnPage ==
  ASSUME NEW box \in Box, NEW size \in Pages
  PROVE  LET r == OnPage(box, size)
         IN  /\ r.x \in Int /\ r.y \in Int /\ r.w \in Int /\ r.h \in Int
             /\ \A n : Valid(box, n) =>
                  /\ r.x * Grid = box.x * size.w /\ (size.h - r.y - r.h) * Grid = box.y * size.h
                  /\ r.w * Grid = box.w * size.w /\ r.h * Grid = box.h * size.h
                  /\ 0 <= r.x /\ r.x + r.w <= size.w /\ 0 <= r.y /\ r.y + r.h <= size.h
<1> DEFINE r == OnPage(box, size)
<1>1. Grid \in Nat /\ Grid # 0 /\ size.w \in Nat /\ size.h \in Nat /\ size.w % Grid = 0 /\ size.h % Grid = 0
  BY PdfStampingAssumption
<1>2. box.x \in Int /\ box.y \in Int /\ box.w \in Int /\ box.h \in Int
  BY DEF Box
<1>3. PICK q \in Nat : size.w = Grid * q
  BY <1>1, Multiple
<1>4. PICK p \in Nat : size.h = Grid * p
  BY <1>1, Multiple
<1>5. r.x = box.x * q /\ r.w = box.w * q
  <2>1. (box.x * (Grid * q)) \div Grid = box.x * q /\ (box.w * (Grid * q)) \div Grid = box.w * q
    BY <1>1, <1>2, Fraction
  <2> QED
    BY <1>3, <2>1 DEF OnPage
<1>6. r.h = box.h * p /\ r.y = size.h - (box.y + box.h) * p
  <2>1. box.y + box.h \in Int
    BY <1>2
  <2>2. /\ (box.h * (Grid * p)) \div Grid = box.h * p
        /\ ((box.y + box.h) * (Grid * p)) \div Grid = (box.y + box.h) * p
    BY <1>1, <1>2, <2>1, Fraction
  <2> QED
    BY <1>4, <2>2 DEF OnPage
<1>7. r.x \in Int /\ r.y \in Int /\ r.w \in Int /\ r.h \in Int
  BY <1>1, <1>2, <1>5, <1>6
<1>8. ASSUME NEW n, Valid(box, n)
      PROVE  /\ r.x * Grid = box.x * size.w /\ (size.h - r.y - r.h) * Grid = box.y * size.h
             /\ r.w * Grid = box.w * size.w /\ r.h * Grid = box.h * size.h
             /\ 0 <= r.x /\ r.x + r.w <= size.w /\ 0 <= r.y /\ r.y + r.h <= size.h
  <2>1. 0 <= box.x /\ 0 <= box.y /\ box.x + box.w <= Grid /\ box.y + box.h <= Grid
    BY <1>8 DEF Valid
  <2>2. r.x * Grid = box.x * size.w
    BY <1>1, <1>2, <1>3, <1>5
  <2>3. (box.y + box.h) * p = box.y * p + box.h * p
    BY <1>2
  <2>4. size.h - r.y - r.h = box.y * p
    BY <1>1, <1>2, <1>6, <2>3
  <2>5. (size.h - r.y - r.h) * Grid = box.y * size.h
    BY <1>1, <1>2, <1>4, <2>4
  <2>6. 0 * q <= box.x * q /\ (box.x + box.w) * q <= Grid * q
    <3>1. box.x + box.w \in Int /\ Grid \in Int /\ 0 \in Int
      BY <1>1, <1>2
    <3> QED
      BY <1>2, <2>1, <3>1, Times
  <2>7. (box.y + box.h) * p <= Grid * p /\ 0 * p <= box.y * p
    <3>1. box.y + box.h \in Int /\ Grid \in Int /\ 0 \in Int
      BY <1>1, <1>2
    <3> QED
      BY <1>2, <2>1, <3>1, Times
  <2>8. (box.x + box.w) * q = box.x * q + box.w * q
    BY <1>2
  <2>9. 0 <= r.x /\ r.x + r.w <= size.w
    BY <1>1, <1>2, <1>3, <1>5, <2>6, <2>8
  <2>10. 0 <= r.y /\ r.y + r.h <= size.h
    <3>1. box.y * p \in Int /\ box.h * p \in Int /\ 0 * p = 0
      BY <1>2
    <3>2. 0 <= size.h - (box.y + box.h) * p
      BY <1>1, <1>4, <2>3, <2>7, <3>1
    <3>3. size.h - (box.y * p + box.h * p) + box.h * p <= size.h
      BY <1>1, <2>7, <3>1
    <3> QED
      BY <1>6, <2>3, <3>2, <3>3
  <2>11. r.w * Grid = box.w * size.w /\ r.h * Grid = box.h * size.h
    <3>1. (box.w * q) * Grid = box.w * (Grid * q)
      BY <1>1, <1>2
    <3>2. (box.h * p) * Grid = box.h * (Grid * p)
      BY <1>1, <1>2
    <3> QED
      BY <1>3, <1>4, <1>5, <1>6, <3>1, <3>2
  <2> QED
    BY <2>2, <2>5, <2>9, <2>10, <2>11
<1> QED
  BY <1>7, <1>8

\* The font of a caption: as large as fits, between 4 and 6.5 points.
LEMMA SizeFits ==
  ASSUME NEW c \in Nat, NEW w \in Int
  PROVE  LET s == CaptionSize(c, w)
         IN  /\ s \in 16 .. 26 /\ CaptionWidth(c, s) \in Int
             /\ CaptionWidth(c, s) <= w \/ s = 16
             /\ s = 26 \/ CaptionWidth(c, s + 1) > w
<1> DEFINE fits == {s \in 16 .. 26 : CaptionWidth(c, s) <= w}
           s == CaptionSize(c, w)
<1>1. \A t \in 16 .. 26 : CaptionWidth(c, t) \in Int
  BY DEF CaptionWidth
<1>2. CASE fits = {}
  <2>1. s = 16
    BY <1>2 DEF CaptionSize
  <2>2. 17 \notin fits /\ 17 \in 16 .. 26 /\ CaptionWidth(c, 17) \in Int
    BY <1>1, <1>2
  <2> QED
    BY <1>1, <2>1, <2>2
<1>3. CASE fits # {}
  <2>1. \E m \in fits : \A t \in fits : t <= m
    <3> DEFINE Less == {26 - t : t \in fits}
    <3>1. Less \in SUBSET Nat /\ Less # {}
      BY <1>3
    <3>2. PICK l \in Less : \A k \in Less : l <= k
      BY <3>1, LeastNumber
    <3>3. PICK m \in fits : l = 26 - m
      BY <3>2
    <3>4. ASSUME NEW t \in fits PROVE t <= m
      <4>1. 26 - t \in Less /\ t \in 16 .. 26 /\ m \in 16 .. 26
        BY <3>4
      <4> HIDE DEF Less, fits
      <4>2. 26 - m <= 26 - t
        BY <3>2, <3>3, <4>1
      <4> QED
        BY <4>1, <4>2
    <3> QED
      BY <3>4
  <2>2. s = CHOOSE m \in fits : \A t \in fits : t <= m
    BY <1>3 DEF CaptionSize
  <2>3. s \in fits /\ \A t \in fits : t <= s
    BY <2>1, <2>2
  <2>4. s \in 16 .. 26 /\ CaptionWidth(c, s) <= w
    BY <2>3
  <2>5. s = 26 \/ CaptionWidth(c, s + 1) > w
    <3>1. SUFFICES ASSUME s # 26 PROVE CaptionWidth(c, s + 1) > w
      OBVIOUS
    <3>2. s + 1 \in 16 .. 26 /\ s + 1 \notin fits
      BY <2>3, <2>4, <3>1
    <3> QED
      BY <1>1, <3>2
  <2> QED
    BY <1>1, <2>4, <2>5
<1> QED
  BY <1>2, <1>3

-----------------------------------------------------------------------------
(* What is said of the marks of a call                                     *)

\* Marks by what they are drawn for; the paper of a note has number 0.
NoteKinds == {"highlight", "drawing", "text"}
Stamps(ms) == {k \in DOMAIN ms : ms[k].kind \in {"stamp", "box"}}
Captioning(ms) == {k \in DOMAIN ms : ms[k].kind = "caption"}
Papers(ms) == {k \in DOMAIN ms : ms[k].kind \in NoteKinds /\ ms[k].size = 0}

\* The place of a mark is the one of the box it was drawn for.
MarkInPlace(m) ==
  /\ m.kind \in {"stamp", "box", "caption"} =>
       m.from \in DOMAIN call.signatures /\ m.page = call.signatures[m.from].box.page
  /\ m.kind \in {"stamp", "box"} =>
       LET r == OnPage(call.signatures[m.from].box, call.pages[m.page])
       IN  m.x = r.x /\ m.y = r.y /\ m.w = r.w /\ m.h = r.h
  /\ m.kind = "caption" =>
       LET s == call.signatures[m.from]
           r == OnPage(s.box, call.pages[m.page])
       IN  /\ s.caption # NoCaption
           /\ m.x = r.x /\ 0 <= m.y /\ m.y + m.size < r.y
           /\ m.w = CaptionWidth(s.caption, m.size) /\ (m.w <= r.w \/ m.size = 16)
           /\ m.size = 26 \/ CaptionWidth(s.caption, m.size + 1) > r.w
  /\ m.kind \in NoteKinds =>
       m.from \in DOMAIN call.annotations /\ m.page = call.annotations[m.from].box.page

\* A stamp high enough on its page has a caption; a caption comes after its stamp
\* and is the only one.
HasCaption(ms) ==
  /\ \A k \in DOMAIN ms :
       ms[k].kind = "stamp" /\ call.signatures[ms[k].from].caption # NoCaption /\ ms[k].y >= 32 =>
         \E j \in Captioning(ms) : ms[j].from = ms[k].from
  /\ \A k \in Captioning(ms) :
       \E j \in DOMAIN ms : j < k /\ ms[j].kind = "stamp" /\ ms[j].from = ms[k].from
  /\ \A j, k \in Captioning(ms) : ms[j].from = ms[k].from => j = k

\* The marks H are one for each item in D.
OneEach(ms, H, D) ==
  /\ \A k \in H : ms[k].from \in D
  /\ \A i \in D : \E k \in H : ms[k].from = i
  /\ \A j, k \in H : ms[j].from = ms[k].from => j = k

InOrder(ms) ==
  \A k \in Papers(ms) :
    /\ \A j \in Stamps(ms) \cup Captioning(ms) : j < k
    /\ \A j \in Papers(ms) : j < k /\ ms[j].page = ms[k].page => ms[j].from < ms[k].from

\* The marks once the signatures S and the annotations N have been drawn.
Drawn(ms, S, N) ==
  /\ \A k \in DOMAIN ms : MarkInPlace(ms[k])
  /\ HasCaption(ms) /\ InOrder(ms)
  /\ OneEach(ms, Stamps(ms), S) /\ OneEach(ms, Papers(ms), N)

\* The items of a list on the pages up to p, and what has been drawn at each stage.
Before(list, p) == {i \in DOMAIN list : 1 <= list[i].box.page /\ list[i].box.page < p}

SignaturesDrawn ==
  IF stage = "signatures" THEN 1 .. turn - 1
  ELSE IF stage = "boxes" THEN Before(call.signatures, turn)
  ELSE DOMAIN call.signatures

NotesDrawn ==
  IF stage = "annotations" THEN Before(call.annotations, turn)
  ELSE IF stage = "written" THEN Before(call.annotations, Len(call.pages) + 1)
  ELSE {}

\* The inductive invariant of a call.
StampInv ==
  /\ StampTypeOK /\ turn >= 1
  /\ \A i \in DOMAIN call.signatures : Valid(call.signatures[i].box, Len(call.pages))
  /\ stage = "boxes" => call.annotations = <<>>
  /\ stage = "signatures" => turn <= Len(call.signatures) + 1
  /\ stage = "annotations" => turn <= Len(call.pages) + 1
  /\ Drawn(marks, SignaturesDrawn, NotesDrawn)

-----------------------------------------------------------------------------
(* Lists of marks                                                          *)

\* What the steps of Merged establish holds of the marks it returns.
LEMMA MergedKeeps ==
  ASSUME NEW list, NEW p, NEW new, Len(list) \in Nat, marks \in Seq(Mark),
         \A i \in 1 .. Len(list) : list[i].box.page = p => new[i] \in Seq(Mark),
         NEW P \in SUBSET (Seq(Mark) \X (0 .. Len(list))), <<marks, 0>> \in P,
         \A ms \in Seq(Mark), i \in 1 .. Len(list) :
           <<ms, i - 1>> \in P =>
             <<IF list[i].box.page = p THEN ms \o new[i] ELSE ms, i>> \in P
  PROVE  <<Merged(list, p, new), Len(list)>> \in P
<1> DEFINE n == Len(list)
           V == Seq(Mark)
           step(ms, i) == IF list[i].box.page = p THEN ms \o new[i] ELSE ms
           g == [x \in V \X (1 .. n) |-> step(x[1], x[2])]
           Unfolded(h) ==
             [i \in 0 .. n |-> IF i = 0 THEN marks
                               ELSE IF list[i].box.page = p THEN h[i - 1] \o new[i] ELSE h[i - 1]]
           f == CHOOSE h : h = Unfolded(h)
<1>1. Merged(list, p, new) = f[n]
  BY DEF Merged
<1>2. \A ms \in V, i \in 1 .. n : step(ms, i) \in V
  <2> TAKE ms \in V, i \in 1 .. n
  <2>1. CASE list[i].box.page = p
    <3>1. new[i] \in V
      BY <2>1
    <3>2. ms \o new[i] \in V
      BY <3>1, ConcatProperties
    <3> QED
      BY <2>1, <3>2
  <2>2. CASE list[i].box.page # p
    BY <2>2
  <2> QED
    BY <2>1, <2>2
<1> HIDE DEF n, V
<1>3. g \in [V \X (1 .. n) -> V] /\ \A ms \in V, i \in 1 .. n : g[<<ms, i>>] = step(ms, i)
  BY <1>2
<1> HIDE DEF g
<1>4. marks \in V /\ n \in Nat
  BY DEF V, n
<1>5. \E h : h = Unfolded(h)
  <2>1. PICK h : Iteration(h, V, marks, n, g)
    BY <1>3, <1>4, Iterates, Zenon
  <2>2. h \in [0 .. n -> V] /\ h[0] = marks /\ \A i \in 1 .. n : h[i] = g[<<h[i - 1], i>>]
    BY <2>1 DEF Iteration
  <2>3. ASSUME NEW i \in 1 .. n PROVE h[i] = step(h[i - 1], i)
    <3>1. i - 1 \in 0 .. n
      BY <1>4
    <3>2. h[i - 1] \in V
      BY <2>2, <3>1
    <3> QED
      BY <2>2, <3>2, <1>3
  <2>4. \A i \in 0 .. n : h[i] = IF i = 0 THEN marks ELSE step(h[i - 1], i)
    <3> TAKE i \in 0 .. n
    <3>1. i = 0 \/ i \in 1 .. n
      BY <1>4
    <3> QED
      BY <3>1, <2>2, <2>3
  <2>5. h = Unfolded(h)
    BY <2>2, <2>4
  <2> QED
    BY <2>5
<1>6. f = Unfolded(f)
  BY <1>5
<1> HIDE DEF f
<1>7. f[0] = marks /\ \A i \in 1 .. n : f[i] = step(f[i - 1], i)
  <2>1. 0 \in 0 .. n /\ \A i \in 1 .. n : i \in 0 .. n /\ i # 0
    BY <1>4
  <2> QED
    BY <1>6, <2>1
<1> DEFINE T == {i \in 0 .. n : f[i] \in V /\ <<f[i], i>> \in P}
<1>8. 0 \in T
  BY <1>4, <1>7
<1>9. ASSUME NEW i \in 1 .. n, i - 1 \in T PROVE i \in T
  <2>1. f[i - 1] \in V /\ <<f[i - 1], i - 1>> \in P /\ i \in 0 .. n
    BY <1>4, <1>9
  <2>2. f[i] = step(f[i - 1], i) /\ step(f[i - 1], i) \in V
    BY <1>2, <1>7, <2>1
  <2>3. <<step(f[i - 1], i), i>> \in P
    BY <2>1 DEF V, n
  <2> QED
    BY <2>1, <2>2, <2>3
<1>10. T = 0 .. n
  <2>1. T \in SUBSET (0 .. n)
    OBVIOUS
  <2> HIDE DEF T
  <2> QED
    BY <1>4, <1>8, <1>9, <2>1, UpTo
<1>11. <<f[n], n>> \in P
  BY <1>4, <1>10
<1> QED
  BY <1>1, <1>11 DEF n

\* The marks of a longer list: the old ones where they were, the new ones after them.
LEMMA After ==
  ASSUME NEW ms \in Seq(Mark), NEW new \in Seq(Mark)
  PROVE  /\ ms \o new \in Seq(Mark)
         /\ \A k \in DOMAIN (ms \o new) :
              \/ k \in DOMAIN ms /\ (ms \o new)[k] = ms[k]
              \/ \E j \in DOMAIN new : k = Len(ms) + j /\ (ms \o new)[k] = new[j]
         /\ \A k \in DOMAIN ms : k \in DOMAIN (ms \o new) /\ (ms \o new)[k] = ms[k]
         /\ \A j \in DOMAIN new : Len(ms) + j \in DOMAIN (ms \o new) /\ (ms \o new)[Len(ms) + j] = new[j]
         /\ \A k \in DOMAIN ms : k \in 1 .. Len(ms)
         /\ \A j \in DOMAIN new : j \in Nat /\ j >= 1
<1>1. /\ ms \o new \in Seq(Mark) /\ Len(ms \o new) = Len(ms) + Len(new)
      /\ \A i \in 1 .. Len(ms) + Len(new) :
           (ms \o new)[i] = IF i <= Len(ms) THEN ms[i] ELSE new[i - Len(ms)]
  BY ConcatProperties
<1> DEFINE m == Len(ms)
           n == Len(new)
           all == ms \o new
<1>2. m \in Nat /\ n \in Nat /\ DOMAIN ms = 1 .. m /\ DOMAIN new = 1 .. n
  BY LenProperties
<1>3. DOMAIN all = 1 .. m + n /\ \A i \in 1 .. m + n : all[i] = IF i <= m THEN ms[i] ELSE new[i - m]
  BY <1>1, LenProperties
<1>4. all \in Seq(Mark)
  BY <1>1
<1> HIDE DEF m, n, all
<1>5. \A k \in 1 .. m : k \in 1 .. m + n /\ all[k] = ms[k]
  BY <1>2, <1>3
<1>6. \A j \in 1 .. n : m + j \in 1 .. m + n /\ all[m + j] = new[j]
  BY <1>2, <1>3
<1>7. ASSUME NEW k \in 1 .. m + n
      PROVE  k \in 1 .. m \/ \E j \in 1 .. n : k = m + j
  <2>1. CASE k <= m
    BY <1>2, <2>1
  <2>2. CASE k > m
    <3>1. k - m \in 1 .. n /\ k = m + (k - m)
      BY <1>2, <2>2
    <3> QED
      BY <3>1
  <2> QED
    BY <1>2, <2>1, <2>2
<1>8. \A k \in 1 .. m + n :
        (k \in 1 .. m /\ all[k] = ms[k]) \/ \E j \in 1 .. n : k = m + j /\ all[k] = new[j]
  BY <1>5, <1>6, <1>7
<1>9. \A k \in DOMAIN all :
        (k \in DOMAIN ms /\ all[k] = ms[k]) \/ \E j \in DOMAIN new : k = m + j /\ all[k] = new[j]
  BY <1>2, <1>3, <1>8
<1>10. \A k \in DOMAIN ms : k \in DOMAIN all /\ all[k] = ms[k] /\ k \in 1 .. m
  BY <1>2, <1>3, <1>5
<1>11. \A j \in DOMAIN new : m + j \in DOMAIN all /\ all[m + j] = new[j] /\ j \in Nat /\ j >= 1
  BY <1>2, <1>3, <1>6
<1> QED
  BY <1>4, <1>9, <1>10, <1>11, Zenon DEF m, n, all

\* New marks leave the old ones one for each item, and the first of them may be
\* the one of a new item.
LEMMA OneMore ==
  ASSUME NEW ms \in Seq(Mark), NEW new \in Seq(Mark), NEW H \in SUBSET DOMAIN ms, NEW D,
         OneEach(ms, H, D)
  PROVE  /\ OneEach(ms \o new, H, D)
         /\ \A i : i \notin D /\ 1 \in DOMAIN new /\ new[1].from = i =>
              OneEach(ms \o new, H \cup {Len(ms) + 1}, D \cup {i})
<1> DEFINE all == ms \o new
           m == Len(ms)
<1>1. \A k \in H : all[k] = ms[k] /\ k \in 1 .. m
  BY After
<1>2. m \in Nat
  BY LenProperties
<1>3. 1 \in DOMAIN new => all[m + 1] = new[1]
  BY After
<1>4. /\ \A k \in H : ms[k].from \in D
      /\ \A i \in D : \E k \in H : ms[k].from = i
      /\ \A j, k \in H : ms[j].from = ms[k].from => j = k
  BY DEF OneEach
<1> HIDE DEF all, m
<1>5. OneEach(all, H, D)
  BY <1>1, <1>4 DEF OneEach
<1>6. ASSUME NEW i, i \notin D, 1 \in DOMAIN new, new[1].from = i
      PROVE  OneEach(all, H \cup {m + 1}, D \cup {i})
  <2>1. all[m + 1].from = i /\ m + 1 \notin H
    BY <1>1, <1>2, <1>3, <1>6
  <2>2. \A k \in H : all[k].from \in D
    BY <1>1, <1>4
  <2>3. \A d \in D : \E k \in H : all[k].from = d
    BY <1>1, <1>4
  <2>4. \A j, k \in H : all[j].from = all[k].from => j = k
    BY <1>1, <1>4
  <2>5. \A k \in H : all[k].from # i
    BY <2>2, <1>6
  <2> QED
    BY <2>1, <2>2, <2>3, <2>4, <2>5 DEF OneEach
<1> QED
  BY <1>5, <1>6 DEF all, m

\* Which marks of a longer list are stamps, captions and papers.
LEMMA Kinds ==
  ASSUME NEW ms \in Seq(Mark), NEW new \in Seq(Mark)
  PROVE  LET Both(A, B) == A \cup {Len(ms) + j : j \in B}
         IN  /\ Stamps(ms \o new) = Both(Stamps(ms), Stamps(new))
             /\ Captioning(ms \o new) = Both(Captioning(ms), Captioning(new))
             /\ Papers(ms \o new) = Both(Papers(ms), Papers(new))
<1> DEFINE all == ms \o new
           m == Len(ms)
<1>1. \A k \in DOMAIN all :
        (k \in DOMAIN ms /\ all[k] = ms[k]) \/ \E j \in DOMAIN new : k = m + j /\ all[k] = new[j]
  BY After
<1>2. \A k \in DOMAIN ms : k \in DOMAIN all /\ all[k] = ms[k]
  BY After
<1>3. \A j \in DOMAIN new : m + j \in DOMAIN all /\ all[m + j] = new[j]
  BY After
<1> HIDE DEF all, m
<1>4. Stamps(all) = Stamps(ms) \cup {m + j : j \in Stamps(new)}
  BY <1>1, <1>2, <1>3 DEF Stamps
<1>5. Captioning(all) = Captioning(ms) \cup {m + j : j \in Captioning(new)}
  BY <1>1, <1>2, <1>3 DEF Captioning
<1>6. Papers(all) = Papers(ms) \cup {m + j : j \in Papers(new)}
  BY <1>1, <1>2, <1>3 DEF Papers
<1> QED
  BY <1>4, <1>5, <1>6 DEF all, m

\* Stamps that had their captions keep them, and new ones bring theirs.
LEMMA CaptionsStay ==
  ASSUME NEW ms \in Seq(Mark), NEW new \in Seq(Mark), HasCaption(ms), HasCaption(new),
         \A j \in Captioning(new), k \in Stamps(ms) : new[j].from # ms[k].from
  PROVE  HasCaption(ms \o new)
<1> DEFINE all == ms \o new
           m == Len(ms)
           Due(mark) == mark.kind = "stamp" /\ call.signatures[mark.from].caption # NoCaption /\ mark.y >= 32
<1>1. \A k \in DOMAIN all :
        (k \in DOMAIN ms /\ all[k] = ms[k]) \/ \E j \in DOMAIN new : k = m + j /\ all[k] = new[j]
  BY After
<1>2. \A k \in DOMAIN ms : k \in DOMAIN all /\ all[k] = ms[k]
  BY After
<1>3. \A j \in DOMAIN new : m + j \in DOMAIN all /\ all[m + j] = new[j] /\ j \in Nat
  BY After
<1>4. Captioning(all) = Captioning(ms) \cup {m + j : j \in Captioning(new)}
  BY Kinds
<1>5. m \in Nat
  BY LenProperties
<1> HIDE DEF all, m
<1>6. ASSUME NEW k \in DOMAIN all, Due(all[k])
      PROVE  \E j \in Captioning(all) : all[j].from = all[k].from
  <2>1. CASE k \in DOMAIN ms /\ all[k] = ms[k]
    <3>1. PICK j \in Captioning(ms) : ms[j].from = ms[k].from
      BY <1>6, <2>1 DEF HasCaption
    <3>2. j \in DOMAIN ms
      BY DEF Captioning
    <3> QED
      BY <1>2, <1>4, <2>1, <3>1, <3>2
  <2>2. CASE \E j \in DOMAIN new : k = m + j /\ all[k] = new[j]
    <3>1. PICK i \in DOMAIN new : k = m + i /\ all[k] = new[i]
      BY <2>2
    <3>2. PICK j \in Captioning(new) : new[j].from = new[i].from
      BY <1>6, <3>1 DEF HasCaption
    <3>3. j \in DOMAIN new
      BY DEF Captioning
    <3>4. m + j \in Captioning(all) /\ all[m + j].from = all[k].from
      BY <1>3, <1>4, <3>1, <3>2, <3>3
    <3> QED
      BY <3>4
  <2> QED
    BY <1>1, <2>1, <2>2
<1>7. ASSUME NEW k \in Captioning(ms)
      PROVE  k \in DOMAIN ms /\ \E j \in DOMAIN ms : j < k /\ j \in Stamps(ms) /\ ms[j].kind = "stamp"
                                                  /\ ms[j].from = ms[k].from
  BY DEF HasCaption, Captioning, Stamps
<1>8. ASSUME NEW k \in Captioning(new)
      PROVE  k \in DOMAIN new /\ \E j \in DOMAIN new : j < k /\ new[j].kind = "stamp"
                                                   /\ new[j].from = new[k].from
  BY DEF HasCaption, Captioning
<1>9. ASSUME NEW k \in Captioning(all)
      PROVE  \E j \in DOMAIN all : j < k /\ all[j].kind = "stamp" /\ all[j].from = all[k].from
  <2>1. CASE k \in Captioning(ms)
    BY <1>2, <1>7, <2>1
  <2>2. CASE k \in {m + j : j \in Captioning(new)}
    <3>1. PICK i \in Captioning(new) : k = m + i
      BY <2>2
    <3>2. PICK j \in DOMAIN new : j < i /\ new[j].kind = "stamp" /\ new[j].from = new[i].from
      BY <1>8
    <3>3. m + j < k
      BY <1>3, <1>5, <1>8, <3>1, <3>2
    <3>4. all[k] = new[i] /\ all[m + j] = new[j] /\ m + j \in DOMAIN all
      BY <1>3, <1>8, <3>1
    <3> QED
      BY <3>2, <3>3, <3>4
  <2> QED
    BY <1>4, <2>1, <2>2
<1>10. ASSUME NEW j \in Captioning(ms), NEW k \in Captioning(new)
       PROVE  all[j].from # all[m + k].from
  <2>1. all[j] = ms[j] /\ all[m + k] = new[k]
    BY <1>2, <1>3, <1>7, <1>8
  <2> QED
    BY <1>7, <2>1
<1>11. ASSUME NEW j \in Captioning(all), NEW k \in Captioning(all), all[j].from = all[k].from
       PROVE  j = k
  <2>1. CASE j \in Captioning(ms) /\ k \in Captioning(ms)
    <3>1. ms[j].from = ms[k].from
      BY <1>2, <1>7, <1>11, <2>1
    <3> QED
      BY <2>1, <3>1 DEF HasCaption
  <2>2. CASE j \in {m + i : i \in Captioning(new)} /\ k \in {m + i : i \in Captioning(new)}
    <3>1. PICK i \in Captioning(new), h \in Captioning(new) : j = m + i /\ k = m + h
      BY <2>2
    <3>2. new[i].from = new[h].from
      BY <1>3, <1>8, <1>11, <3>1
    <3> QED
      BY <3>1, <3>2 DEF HasCaption
  <2>3. CASE j \in Captioning(ms) /\ k \in {m + i : i \in Captioning(new)}
    BY <1>10, <1>11, <2>3
  <2>4. CASE k \in Captioning(ms) /\ j \in {m + i : i \in Captioning(new)}
    BY <1>10, <1>11, <2>4
  <2> QED
    BY <1>4, <2>1, <2>2, <2>3, <2>4
<1> QED
  BY <1>6, <1>9, <1>11 DEF HasCaption, all

\* The marks of one more signature, as long as no annotation is drawn.
LEMMA SignatureAdded ==
  ASSUME NEW ms \in Seq(Mark), NEW new \in Seq(Mark), NEW D, NEW i, i \notin D, Drawn(ms, D, {}),
         1 \in DOMAIN new, new[1].kind \in {"stamp", "box"}, new[1].from = i,
         \A j \in DOMAIN new : MarkInPlace(new[j]) /\ (j # 1 => new[j].kind \in {"rule", "caption"}),
         HasCaption(new)
  PROVE  Drawn(ms \o new, D \cup {i}, {})
<1> DEFINE all == ms \o new
           m == Len(ms)
<1>1. \A k \in DOMAIN all :
        (k \in DOMAIN ms /\ all[k] = ms[k]) \/ \E j \in DOMAIN new : k = m + j /\ all[k] = new[j]
  BY After
<1>2. /\ \A k \in DOMAIN ms : MarkInPlace(ms[k])
      /\ HasCaption(ms) /\ OneEach(ms, Stamps(ms), D) /\ OneEach(ms, Papers(ms), {})
  BY DEF Drawn
<1>3. Stamps(new) = {1} /\ Papers(new) = {}
  <2>1. \A j \in DOMAIN new : new[j].kind \notin NoteKinds
    BY DEF NoteKinds
  <2> QED
    BY <2>1 DEF Stamps, Papers
<1>4. Papers(ms) = {}
  BY <1>2 DEF OneEach
<1>5. Stamps(all) = Stamps(ms) \cup {m + 1} /\ Papers(all) = {}
  <2>1. /\ Stamps(all) = Stamps(ms) \cup {m + j : j \in Stamps(new)}
        /\ Papers(all) = Papers(ms) \cup {m + j : j \in Papers(new)}
    BY Kinds
  <2> HIDE DEF all, m
  <2> QED
    BY <1>3, <1>4, <2>1
<1>6. HasCaption(all)
  <2>1. ASSUME NEW j \in Captioning(new) PROVE new[j].from = i
    <3>1. PICK k \in DOMAIN new : new[k].kind = "stamp" /\ new[k].from = new[j].from
      BY DEF HasCaption
    <3>2. k = 1
      BY <3>1
    <3> QED
      BY <3>1, <3>2
  <2>2. \A k \in Stamps(ms) : ms[k].from # i
    BY <1>2 DEF OneEach
  <2> QED
    BY <1>2, <2>1, <2>2, CaptionsStay
<1>7. Stamps(ms) \in SUBSET DOMAIN ms
  BY DEF Stamps
<1>8. OneEach(all, Stamps(ms) \cup {m + 1}, D \cup {i})
  BY <1>2, <1>7, OneMore
<1> HIDE DEF all, m
<1>9. \A k \in DOMAIN all : MarkInPlace(all[k])
  BY <1>1, <1>2
<1>10. InOrder(all) /\ OneEach(all, Papers(all), {})
  BY <1>5 DEF InOrder, OneEach
<1> QED
  BY <1>5, <1>6, <1>8, <1>9, <1>10 DEF Drawn, all

\* The marks of one more annotation, after those of its page with smaller numbers.
LEMMA NoteAdded ==
  ASSUME NEW ms \in Seq(Mark), NEW new \in Seq(Mark), NEW S, NEW D, NEW i \in Nat, i \notin D,
         Drawn(ms, S, D), 1 \in DOMAIN new, new[1].from = i, new[1].size = 0, NEW p,
         \A j \in DOMAIN new : /\ MarkInPlace(new[j]) /\ new[j].kind \in NoteKinds
                               /\ new[j].page = p /\ (j # 1 => new[j].size # 0),
         \A k \in Papers(ms) : ms[k].page = p => ms[k].from < i
  PROVE  Drawn(ms \o new, S, D \cup {i})
<1> DEFINE all == ms \o new
           m == Len(ms)
<1>1. \A k \in DOMAIN all :
        (k \in DOMAIN ms /\ all[k] = ms[k]) \/ \E j \in DOMAIN new : k = m + j /\ all[k] = new[j]
  BY After
<1>2. /\ \A k \in DOMAIN ms : MarkInPlace(ms[k])
      /\ HasCaption(ms) /\ OneEach(ms, Stamps(ms), S) /\ OneEach(ms, Papers(ms), D)
      /\ InOrder(ms)
  BY DEF Drawn
<1>3. \A j \in DOMAIN new : new[j].kind \notin {"stamp", "box", "caption"}
  BY DEF NoteKinds
<1>4. Stamps(new) = {} /\ Captioning(new) = {} /\ Papers(new) = {1} /\ HasCaption(new)
  BY <1>3 DEF Stamps, Captioning, Papers, HasCaption
<1>5. Stamps(all) = Stamps(ms) /\ Captioning(all) = Captioning(ms) /\ Papers(all) = Papers(ms) \cup {m + 1}
  <2>1. /\ Stamps(all) = Stamps(ms) \cup {m + j : j \in Stamps(new)}
        /\ Captioning(all) = Captioning(ms) \cup {m + j : j \in Captioning(new)}
        /\ Papers(all) = Papers(ms) \cup {m + j : j \in Papers(new)}
    BY Kinds
  <2> HIDE DEF all, m
  <2> QED
    BY <1>4, <2>1
<1>6. HasCaption(all)
  BY <1>2, <1>4, CaptionsStay
<1>7. Stamps(ms) \in SUBSET DOMAIN ms /\ Papers(ms) \in SUBSET DOMAIN ms /\ Captioning(ms) \in SUBSET DOMAIN ms
  BY DEF Stamps, Papers, Captioning
<1>8. OneEach(all, Stamps(ms), S) /\ OneEach(all, Papers(ms) \cup {m + 1}, D \cup {i})
  BY <1>2, <1>7, OneMore
<1>9. all[m + 1] = new[1] /\ m \in Nat /\ \A k \in DOMAIN ms : k \in 1 .. m /\ all[k] = ms[k]
  BY After
<1> HIDE DEF all, m
<1>10. \A k \in DOMAIN all : MarkInPlace(all[k])
  BY <1>1, <1>2
<1>11. InOrder(all)
  <2>1. SUFFICES ASSUME NEW k \in Papers(all)
                 PROVE  /\ \A j \in Stamps(all) \cup Captioning(all) : j < k
                        /\ \A j \in Papers(all) : j < k /\ all[j].page = all[k].page => all[j].from < all[k].from
    BY DEF InOrder
  <2>2. CASE k \in Papers(ms)
    <3>1. ASSUME NEW j \in Papers(all), j < k PROVE j \in Papers(ms)
      BY <1>5, <1>7, <1>9, <2>2, <3>1
    <3>2. \A j \in Papers(ms) : all[j] = ms[j]
      BY <1>7, <1>9
    <3> QED
      BY <1>2, <1>5, <2>2, <3>1, <3>2 DEF InOrder
  <2>3. CASE k = m + 1
    <3>1. \A j \in Stamps(all) \cup Captioning(all) : j < k
      BY <1>5, <1>7, <1>9, <2>3
    <3>2. ASSUME NEW j \in Papers(all), j < k, all[j].page = all[k].page PROVE all[j].from < all[k].from
      <4>1. j \in Papers(ms) /\ all[j] = ms[j]
        BY <1>5, <1>7, <1>9, <2>3, <3>2
      <4>2. all[k].page = p /\ all[k].from = i
        BY <1>9, <2>3
      <4> QED
        BY <3>2, <4>1, <4>2
    <3> QED
      BY <3>1, <3>2
  <2> QED
    BY <1>5, <2>1, <2>2, <2>3
<1> QED
  BY <1>5, <1>6, <1>8, <1>10, <1>11 DEF Drawn, all

-----------------------------------------------------------------------------
(* The marks of an annotation and of a signature                           *)

\* A mark followed by others.
LEMMA FirstAndRest ==
  ASSUME NEW first \in Mark, NEW c \in Nat, NEW rest \in [1 .. c -> Mark]
  PROVE  /\ <<first>> \o rest \in Seq(Mark) /\ DOMAIN (<<first>> \o rest) = 1 .. c + 1
         /\ (<<first>> \o rest)[1] = first
         /\ \A j \in 2 .. c + 1 : (<<first>> \o rest)[j] = rest[j - 1]
<1> DEFINE one == <<first>>
           all == one \o rest
<1>1. one \in Seq(Mark) /\ Len(one) = 1 /\ one[1] = first
  OBVIOUS
<1>2. rest \in Seq(Mark) /\ Len(rest) = c
  BY FunctionIsSeq
<1> HIDE DEF one
<1>3. /\ all \in Seq(Mark) /\ Len(all) = 1 + c
      /\ \A j \in 1 .. 1 + c : all[j] = IF j <= 1 THEN one[j] ELSE rest[j - 1]
  <2>1. /\ all \in Seq(Mark) /\ Len(all) = Len(one) + Len(rest)
        /\ \A j \in 1 .. Len(one) + Len(rest) :
             all[j] = IF j <= Len(one) THEN one[j] ELSE rest[j - Len(one)]
    BY <1>1, <1>2, ConcatProperties
  <2> HIDE DEF all
  <2> QED
    BY <1>1, <1>2, <2>1
<1>4. DOMAIN all = 1 .. 1 + c
  BY <1>3, LenProperties
<1> HIDE DEF all
<1>5. all[1] = first
  <2>1. 1 \in 1 .. 1 + c
    OBVIOUS
  <2> QED
    BY <1>1, <1>3, <2>1
<1>6. \A j \in 2 .. c + 1 : all[j] = rest[j - 1]
  <2>1. \A j \in 2 .. c + 1 : j \in 1 .. 1 + c /\ ~(j <= 1)
    OBVIOUS
  <2> QED
    BY <1>3, <2>1
<1>7. 1 .. 1 + c = 1 .. c + 1
  OBVIOUS
<1> QED
  BY <1>3, <1>4, <1>5, <1>6, <1>7 DEF all, one

\* The marks of a note: its paper first, then its lines.
PaperFirst(new, p, i) ==
  /\ new \in Seq(Mark) /\ 1 \in DOMAIN new /\ new[1].size = 0
  /\ \A j \in DOMAIN new :
       /\ new[j].kind \in NoteKinds /\ new[j].page = p /\ new[j].from = i
       /\ j # 1 => new[j].size # 0

\* The lines of a note that stay above its lower margin, and how one is drawn.
ShownLines(note, r) == {l \in DOMAIN NoteLines(note, r) : LineY(r, l) >= r.y + 16}
LineMark(note, p, i, r, l) ==
  MarkAt("text", p, i, [x |-> r.x + 16, y |-> LineY(r, l), h |-> 36,
                        w |-> 18 * LineWidth(NoteLines(note, r)[l])], l)

\* The marks of a text note: its paper, then as many lines as are shown.
PaperAndLines(new, note, p, i, r, c) ==
  /\ new \in Seq(Mark) /\ DOMAIN new = 1 .. c + 1 /\ new[1] = MarkAt("text", p, i, r, 0)
  /\ \A j \in DOMAIN new : j # 1 => j - 1 \in 1 .. c /\ new[j] = LineMark(note, p, i, r, j - 1)

\* The lines of a note.
LEMMA NoteLinesTyped ==
  ASSUME NEW note \in Notes, NEW r, r.w \in Int
  PROVE  /\ NoteRoom(r) \in Nat /\ 18 * NoteRoom(r) <= (IF r.w - 32 < 4 THEN 4 ELSE r.w - 32)
         /\ r.w - 32 < 4 => NoteRoom(r) = 0
         /\ NoteLines(note, r) \in Seq(Lines) /\ note.text \in Texts
         /\ DOMAIN NoteLines(note, r) = 1 .. Len(NoteLines(note, r)) /\ Len(NoteLines(note, r)) \in Nat
         /\ \A l \in DOMAIN NoteLines(note, r) : LineWidth(NoteLines(note, r)[l]) \in Int /\ l \in Nat \ {0}
<1> DEFINE lines == NoteLines(note, r)
<1>1. note.text \in Texts
  BY PdfStampingAssumption DEF Texts
<1>2. /\ NoteRoom(r) \in Nat /\ 18 * NoteRoom(r) <= (IF r.w - 32 < 4 THEN 4 ELSE r.w - 32)
      /\ r.w - 32 < 4 => NoteRoom(r) = 0
  <2> DEFINE inner == IF r.w - 32 < 4 THEN 4 ELSE r.w - 32
  <2>1. inner \in Nat /\ (r.w - 32 < 4 => inner = 4)
    OBVIOUS
  <2>2. NoteRoom(r) = inner \div 18
    BY DEF NoteRoom
  <2> HIDE DEF inner
  <2>3. inner \div 18 \in Nat /\ 18 * (inner \div 18) <= inner /\ (inner = 4 => inner \div 18 = 0)
    BY <2>1
  <2> QED
    BY <2>1, <2>2, <2>3 DEF inner
<1>3. lines \in Seq(Lines)
  BY <1>1, <1>2, WrapTextTyped DEF NoteLines
<1>4. DOMAIN lines = 1 .. Len(lines) /\ Len(lines) \in Nat
  BY <1>3, LenProperties
<1>5. \A l \in DOMAIN lines : LineWidth(lines[l]) \in Int /\ l \in Nat \ {0}
  <2> TAKE l \in DOMAIN lines
  <2>1. l \in 1 .. Len(lines) /\ l \in Nat \ {0}
    BY <1>4
  <2>2. lines[l] \in Seq(Pieces)
    BY <1>3, <2>1, LenProperties DEF Lines
  <2> QED
    BY <2>1, <2>2, LineWidthTyped
<1> QED
  BY <1>1, <1>2, <1>3, <1>4, <1>5

\* The lines that are shown are the first ones.
LEMMA FirstLinesShown ==
  ASSUME NEW note \in Notes, NEW r, r.y \in Int, r.w \in Int, r.h \in Int
  PROVE  /\ Cardinality(ShownLines(note, r)) \in Nat
         /\ ShownLines(note, r) = 1 .. Cardinality(ShownLines(note, r))
         /\ \A l \in ShownLines(note, r) : LineY(r, l) \in Int
<1> DEFINE n == Len(NoteLines(note, r))
           K == ShownLines(note, r)
<1>1. n \in Nat /\ DOMAIN NoteLines(note, r) = 1 .. n
  BY NoteLinesTyped
<1> HIDE DEF n
<1>2. \A l \in 1 .. n : LineY(r, l) \in Int /\ LineY(r, l - 1) = LineY(r, l) + 44
  BY <1>1 DEF LineY
<1>3. K \in SUBSET (1 .. n) /\ \A l \in 1 .. n : l \in K <=> LineY(r, l) >= r.y + 16
  BY <1>1 DEF ShownLines
<1> HIDE DEF K
<1>4. \A l \in K : l > 1 => l - 1 \in K
  <2> TAKE l \in K
  <2> HAVE l > 1
  <2>1. l \in 1 .. n /\ l - 1 \in 1 .. n
    BY <1>1, <1>3
  <2>2. LineY(r, l) >= r.y + 16 /\ LineY(r, l) \in Int /\ LineY(r, l - 1) = LineY(r, l) + 44
    BY <1>2, <1>3, <2>1
  <2>3. LineY(r, l - 1) >= r.y + 16
    BY <2>2
  <2> QED
    BY <1>3, <2>1, <2>3
<1>5. Cardinality(K) \in 0 .. n /\ K = 1 .. Cardinality(K)
  BY <1>1, <1>3, <1>4, InitialPart
<1>6. \A l \in K : LineY(r, l) \in Int
  BY <1>2, <1>3
<1>7. Cardinality(K) \in Nat
  BY <1>1, <1>5
<1> QED
  BY <1>5, <1>6, <1>7 DEF K

\* Such are those that NoteMarks returns for a text note.
LEMMA TextNoteMarks ==
  ASSUME NEW note \in Notes, note.kind = "text", NEW p \in Nat, NEW i \in Nat, NEW r,
         r.x \in Int, r.y \in Int, r.w \in Int, r.h \in Int
  PROVE  PaperAndLines(NoteMarks(note, p, i, r), note, p, i, r, Cardinality(ShownLines(note, r)))
<1> DEFINE new == NoteMarks(note, p, i, r)
           c == Cardinality(ShownLines(note, r))
           paper == MarkAt("text", p, i, r, 0)
           rest == [l \in 1 .. c |-> LineMark(note, p, i, r, l)]
<1>1. new = <<paper>> \o rest
  BY DEF NoteMarks, ShownLines, LineMark
<1>2. paper \in Mark
  BY DEF MarkAt, Mark
<1>3. c \in Nat /\ ShownLines(note, r) = 1 .. c /\ \A l \in 1 .. c : LineY(r, l) \in Int
  BY FirstLinesShown
<1>4. \A l \in 1 .. c : LineWidth(NoteLines(note, r)[l]) \in Int /\ l \in Nat \ {0}
  <2>1. \A l \in ShownLines(note, r) : l \in DOMAIN NoteLines(note, r)
    BY DEF ShownLines
  <2> QED
    BY <1>3, <2>1, NoteLinesTyped
<1> HIDE DEF c
<1>5. ASSUME NEW l \in 1 .. c PROVE LineMark(note, p, i, r, l) \in Mark
  <2>1. LineWidth(NoteLines(note, r)[l]) \in Int /\ l \in Nat /\ LineY(r, l) \in Int
    BY <1>3, <1>4
  <2> QED
    BY <2>1 DEF LineMark, MarkAt, Mark
<1>6. rest \in [1 .. c -> Mark] /\ \A l \in 1 .. c : rest[l] = LineMark(note, p, i, r, l)
  BY <1>5
<1> HIDE DEF paper, rest
<1> DEFINE all == <<paper>> \o rest
<1>7. /\ all \in Seq(Mark) /\ DOMAIN all = 1 .. c + 1 /\ all[1] = paper
      /\ \A j \in 2 .. c + 1 : all[j] = rest[j - 1]
  BY <1>2, <1>3, <1>6, FirstAndRest
<1> HIDE DEF all
<1>8. \A j \in DOMAIN all : j # 1 => j \in 2 .. c + 1 /\ j - 1 \in 1 .. c
  BY <1>3, <1>7
<1>9. \A j \in DOMAIN all : j # 1 => j - 1 \in 1 .. c /\ all[j] = LineMark(note, p, i, r, j - 1)
  BY <1>6, <1>7, <1>8, Zenon
<1>10. PaperAndLines(all, note, p, i, r, c)
  BY <1>7, <1>9 DEF PaperAndLines, paper
<1> QED
  BY <1>1, <1>10 DEF all, c

\* Marks of a note are its paper first, and its lines after it.
LEMMA NoteMarksTyped ==
  ASSUME NEW note \in Notes, NEW p \in Nat, NEW i \in Nat, NEW r,
         r.x \in Int, r.y \in Int, r.w \in Int, r.h \in Int
  PROVE  PaperFirst(NoteMarks(note, p, i, r), p, i)
<1> DEFINE new == NoteMarks(note, p, i, r)
           c == Cardinality(ShownLines(note, r))
<1>1. CASE note.kind # "text"
  <2> DEFINE mark == MarkAt(note.kind, p, i, r, 0)
  <2>1. note.kind \in NoteKinds
    BY PdfStampingAssumption DEF NoteKinds
  <2>2. new = <<mark>>
    BY <1>1 DEF NoteMarks
  <2>3. mark \in Mark /\ mark.kind \in NoteKinds /\ mark.page = p /\ mark.from = i /\ mark.size = 0
    BY <2>1 DEF MarkAt, Mark, NoteKinds
  <2> HIDE DEF mark, new
  <2>4. PaperFirst(new, p, i)
    BY <2>2, <2>3 DEF PaperFirst
  <2> QED
    BY <2>4 DEF new
<1>2. CASE note.kind = "text"
  <2>1. PaperAndLines(new, note, p, i, r, c) /\ c \in Nat
    BY <1>2, TextNoteMarks, FirstLinesShown
  <2> HIDE DEF new, c
  <2>2. /\ new \in Seq(Mark) /\ DOMAIN new = 1 .. c + 1 /\ new[1] = MarkAt("text", p, i, r, 0)
        /\ \A j \in DOMAIN new : j # 1 => j - 1 \in 1 .. c /\ new[j] = LineMark(note, p, i, r, j - 1)
    BY <2>1, Zenon DEF PaperAndLines
  <2>3. 1 \in DOMAIN new
    BY <2>1, <2>2
  <2>4. /\ new[1].size = 0
        /\ \A j \in DOMAIN new :
             /\ new[j].kind \in NoteKinds /\ new[j].page = p /\ new[j].from = i
             /\ j # 1 => new[j].size # 0
    BY <2>1, <2>2 DEF LineMark, MarkAt, NoteKinds
  <2>5. PaperFirst(new, p, i)
    BY <2>2, <2>3, <2>4 DEF PaperFirst
  <2> QED
    BY <2>5 DEF new
<1> QED
  BY <1>1, <1>2

\* A mark before none, one or two others.
LEMMA Tuples ==
  ASSUME NEW a \in Mark, NEW b \in Mark, NEW c \in Mark
  PROVE  /\ <<a>> \o <<>> = <<a>>
         /\ <<a>> \o <<b>> = <<a, b>>
         /\ <<a>> \o <<b, c>> = <<a, b, c>>
<1>1. <<a>> \o <<>> = <<a>>
  OBVIOUS
<1>2. <<a>> \o <<b>> = <<a, b>>
  <2> DEFINE rest == <<b>>
             all == <<a>> \o rest
             n == 1
  <2>1. n \in Nat /\ rest \in [1 .. n -> Mark] /\ rest[1] = b
    OBVIOUS
  <2> HIDE DEF rest, n
  <2>2. all \in Seq(Mark) /\ DOMAIN all = 1 .. n + 1 /\ all[1] = a /\ \A j \in 2 .. n + 1 : all[j] = rest[j - 1]
    BY <2>1, FirstAndRest
  <2> HIDE DEF all
  <2>3. all[2] = b
    BY <2>1, <2>2 DEF n
  <2>4. Len(all) = 2
    BY <2>2, LenProperties DEF n
  <2>5. all = <<a, b>>
    BY <2>2, <2>3, <2>4 DEF n
  <2> QED
    BY <2>5 DEF all, rest
<1>3. <<a>> \o <<b, c>> = <<a, b, c>>
  <2> DEFINE rest == <<b, c>>
             all == <<a>> \o rest
             n == 2
  <2>1. n \in Nat /\ rest \in [1 .. n -> Mark] /\ rest[1] = b /\ rest[2] = c
    OBVIOUS
  <2> HIDE DEF rest, n
  <2>2. all \in Seq(Mark) /\ DOMAIN all = 1 .. n + 1 /\ all[1] = a /\ \A j \in 2 .. n + 1 : all[j] = rest[j - 1]
    BY <2>1, FirstAndRest
  <2> HIDE DEF all
  <2>3. all[2] = b /\ all[3] = c
    BY <2>1, <2>2 DEF n
  <2>4. Len(all) = 3
    BY <2>2, LenProperties DEF n
  <2>5. all = <<a, b, c>>
    BY <2>2, <2>3, <2>4 DEF n
  <2> QED
    BY <2>5 DEF all, rest
<1> QED
  BY <1>1, <1>2, <1>3

\* The marks of a signature are a stamp on its region and, at the most, a rule and a caption below it.
LEMMA SignatureMarksTyped ==
  ASSUME StampTypeOK, NEW i \in DOMAIN call.signatures,
         Valid(call.signatures[i].box, Len(call.pages))
  PROVE  LET new == SignatureMarks(i)
         IN  /\ new \in Seq(Mark) /\ 1 \in DOMAIN new /\ new[1].kind = "stamp" /\ new[1].from = i
             /\ \A j \in DOMAIN new : MarkInPlace(new[j]) /\ (j # 1 => new[j].kind \in {"rule", "caption"})
             /\ HasCaption(new)
<1> DEFINE s == call.signatures[i]
           p == s.box.page
           r == OnPage(s.box, call.pages[p])
           size == CaptionSize(s.caption, r.w)
           new == SignatureMarks(i)
           stamp == MarkAt("stamp", p, i, r, 0)
           rule == MarkAt("rule", p, i, [r EXCEPT !.h = 0], 3)
           text == [x |-> r.x, w |-> CaptionWidth(s.caption, size), y |-> r.y - size - 6, h |-> size]
           caption == MarkAt("caption", p, i, text, size)
<1> SUFFICES /\ new \in Seq(Mark) /\ 1 \in DOMAIN new /\ new[1].kind = "stamp" /\ new[1].from = i
             /\ \A j \in DOMAIN new : MarkInPlace(new[j]) /\ (j # 1 => new[j].kind \in {"rule", "caption"})
             /\ HasCaption(new)
  BY Zenon
<1>1. /\ i \in Nat /\ s.box \in Box /\ s.caption \in Captions
      /\ p \in Nat /\ call.pages[p] \in Pages
  <2>1. call.signatures \in Seq([box: Boxes, caption: Captions]) /\ call.pages \in Seq(Pages)
    BY DEF StampTypeOK
  <2>2. i \in 1 .. Len(call.signatures) /\ s \in [box: Boxes, caption: Captions]
    BY <2>1, LenProperties
  <2>3. s.box \in Box /\ s.caption \in Captions /\ i \in Nat
    BY <2>1, <2>2, LenProperties, PdfStampingAssumption
  <2>4. p \in 1 .. Len(call.pages)
    <3>1. 1 <= p /\ p <= Len(call.pages) /\ p \in Int
      BY <2>3 DEF Valid, Box
    <3> QED
      BY <3>1, <2>1, LenProperties
  <2> QED
    BY <2>1, <2>3, <2>4, LenProperties
<1>2. r.x \in Int /\ r.y \in Int /\ r.w \in Int /\ r.h \in Int
  BY <1>1, BoxOnPage
<1>3. stamp \in Mark /\ stamp.kind = "stamp" /\ stamp.from = i /\ stamp.page = p
      /\ stamp.x = r.x /\ stamp.y = r.y /\ stamp.w = r.w /\ stamp.h = r.h
  BY <1>1, <1>2 DEF MarkAt, Mark
<1>4. rule \in Mark /\ rule.kind = "rule"
  <2>1. [r EXCEPT !.h = 0].x = r.x /\ [r EXCEPT !.h = 0].y = r.y /\ [r EXCEPT !.h = 0].w = r.w
        /\ [r EXCEPT !.h = 0].h = 0
    BY DEF OnPage
  <2> HIDE DEF r
  <2> QED
    BY <1>1, <1>2, <2>1 DEF MarkAt, Mark
<1>5. MarkInPlace(stamp)
  <2> HIDE DEF stamp
  <2> QED
    BY <1>3 DEF MarkInPlace, NoteKinds
<1>6. MarkInPlace(rule)
  <2> HIDE DEF rule
  <2> QED
    BY <1>4 DEF MarkInPlace, NoteKinds
<1>7. ASSUME s.caption # NoCaption
      PROVE  /\ caption \in Mark /\ caption.kind = "caption" /\ caption.from = i
             /\ text.y >= 0 => MarkInPlace(caption)
             /\ stamp.y >= 32 => text.y >= 0
  <2>1. s.caption \in Nat
    BY <1>1, <1>7, PdfStampingAssumption
  <2>2. /\ size \in 16 .. 26 /\ CaptionWidth(s.caption, size) \in Int
        /\ CaptionWidth(s.caption, size) <= r.w \/ size = 16
        /\ size = 26 \/ CaptionWidth(s.caption, size + 1) > r.w
    <3> HIDE DEF r
    <3> QED
      BY <1>2, <2>1, SizeFits
  <2> HIDE DEF r, size, s
  <2>3. /\ text.x = r.x /\ text.w = CaptionWidth(s.caption, size)
        /\ text.y = r.y - size - 6 /\ text.h = size
    OBVIOUS
  <2> HIDE DEF text
  <2>4. /\ caption \in Mark /\ caption.kind = "caption" /\ caption.from = i /\ caption.page = p
        /\ caption.x = text.x /\ caption.y = text.y /\ caption.w = text.w /\ caption.size = size
    <3>1. text.x \in Int /\ text.y \in Int /\ text.w \in Int /\ text.h \in Int /\ size \in Int
      BY <1>2, <2>2, <2>3
    <3> HIDE DEF p
    <3>2. p \in Nat /\ i \in Nat
      BY <1>1
    <3> QED
      BY <3>1, <3>2 DEF MarkAt, Mark
  <2>5. stamp.y >= 32 => text.y >= 0
    BY <1>2, <1>3, <2>2, <2>3
  <2>6. ASSUME text.y >= 0 PROVE MarkInPlace(caption)
    <3>1. caption.x = r.x /\ 0 <= caption.y /\ caption.y + caption.size < r.y
      BY <1>2, <2>2, <2>3, <2>4, <2>6
    <3>2. caption.w = CaptionWidth(s.caption, caption.size) /\ (caption.w <= r.w \/ caption.size = 16)
      BY <2>2, <2>3, <2>4
    <3>3. caption.size = 26 \/ CaptionWidth(s.caption, caption.size + 1) > r.w
      BY <2>2, <2>4
    <3>4. caption.from \in DOMAIN call.signatures /\ caption.page = call.signatures[caption.from].box.page
          /\ call.signatures[caption.from] = s /\ OnPage(s.box, call.pages[caption.page]) = r
          /\ caption.kind = "caption"
      BY <2>4 DEF s, r
    <3> HIDE DEF caption
    <3> QED
      BY <1>7, <3>1, <3>2, <3>3, <3>4 DEF MarkInPlace, NoteKinds
  <2> QED
    BY <2>4, <2>5, <2>6
<1>8. /\ s.caption = NoCaption => new = <<stamp>>
      /\ s.caption # NoCaption /\ ~(text.y >= 0) => new = <<stamp, rule>>
      /\ s.caption # NoCaption /\ text.y >= 0 => new = <<stamp, rule, caption>>
  <2> DEFINE tail == <<rule>> \o IF text.y >= 0 THEN <<caption>> ELSE <<>>
  <2>1. new = <<stamp>> \o IF s.caption = NoCaption THEN <<>> ELSE tail
    BY DEF SignatureMarks, CaptionMarks
  <2> HIDE DEF stamp, rule, caption, text, s, new
  <2>2. <<stamp>> \o <<>> = <<stamp>>
    BY <1>3, Tuples, Zenon
  <2>3. <<rule>> \o <<>> = <<rule>> /\ <<stamp>> \o <<rule>> = <<stamp, rule>>
    BY <1>3, <1>4, Tuples, Zenon
  <2>4. ASSUME s.caption # NoCaption
        PROVE  <<rule>> \o <<caption>> = <<rule, caption>> /\ <<stamp>> \o <<rule, caption>> = <<stamp, rule, caption>>
    BY <1>3, <1>4, <1>7, <2>4, Tuples, Zenon
  <2>5. /\ ~(text.y >= 0) => tail = <<rule>>
        /\ s.caption # NoCaption /\ text.y >= 0 => tail = <<rule, caption>>
    BY <2>3, <2>4
  <2> HIDE DEF tail
  <2> QED
    BY <2>1, <2>2, <2>3, <2>4, <2>5
<1> HIDE DEF stamp, rule, caption, text, new
<1>9. CASE s.caption = NoCaption
  <2>1. new = <<stamp>>
    BY <1>8, <1>9
  <2>2. HasCaption(new)
    <3>1. \A k \in DOMAIN new : call.signatures[new[k].from].caption = NoCaption
      BY <1>3, <1>9, <2>1
    <3>2. Captioning(new) = {}
      BY <1>3, <2>1 DEF Captioning
    <3> QED
      BY <3>1, <3>2 DEF HasCaption
  <2> HIDE DEF s
  <2> QED
    BY <1>3, <1>5, <2>1, <2>2
<1>10. CASE s.caption # NoCaption /\ ~(text.y >= 0)
  <2>1. new = <<stamp, rule>>
    BY <1>8, <1>10
  <2>2. HasCaption(new)
    <3>1. \A k \in DOMAIN new : new[k].kind = "stamp" => ~(new[k].y >= 32)
      BY <1>3, <1>4, <1>7, <1>10, <2>1
    <3>2. Captioning(new) = {}
      BY <1>3, <1>4, <2>1 DEF Captioning
    <3> QED
      BY <3>1, <3>2 DEF HasCaption
  <2> HIDE DEF s
  <2> QED
    BY <1>3, <1>4, <1>5, <1>6, <2>1, <2>2
<1>11. CASE s.caption # NoCaption /\ text.y >= 0
  <2>1. new = <<stamp, rule, caption>>
    BY <1>8, <1>11
  <2> HIDE DEF s
  <2>2. caption \in Mark /\ caption.kind = "caption" /\ caption.from = i /\ MarkInPlace(caption)
    BY <1>7, <1>11
  <2>3. HasCaption(new)
    <3>1. \A k \in DOMAIN new : new[k].kind = "stamp" => new[k].from = i
      BY <1>3, <1>4, <2>1, <2>2
    <3>2. Captioning(new) = {3} /\ new[3].from = i
      BY <1>3, <1>4, <2>1, <2>2 DEF Captioning
    <3>3. 1 \in DOMAIN new /\ 1 < 3 /\ new[1].kind = "stamp" /\ new[1].from = i
      BY <1>3, <2>1
    <3> QED
      BY <3>1, <3>2, <3>3 DEF HasCaption
  <2>4. \A j \in DOMAIN new : MarkInPlace(new[j])
    BY <1>5, <1>6, <2>1, <2>2
  <2>5. new \in Seq(Mark) /\ 1 \in DOMAIN new /\ new[1] = stamp
    BY <1>3, <1>4, <2>1, <2>2
  <2>6. \A j \in DOMAIN new : j # 1 => new[j].kind \in {"rule", "caption"}
    BY <1>4, <2>1, <2>2
  <2> QED
    BY <1>3, <2>3, <2>4, <2>5, <2>6
<1> QED
  BY <1>9, <1>10, <1>11

-----------------------------------------------------------------------------
(* The steps of a call                                                     *)

\* What is said of marks is about the call, which no step changes.
LEMMA SameCall ==
  ASSUME UNCHANGED call, NEW S, NEW N, Drawn(marks', S, N), SignaturesDrawn' = S, NotesDrawn' = N
  PROVE  Drawn(marks, SignaturesDrawn, NotesDrawn)'
  BY DEF Drawn, MarkInPlace, HasCaption, InOrder, OneEach, Stamps, Papers, Captioning

\* The call, taken apart.
LEMMA CallTyped ==
  ASSUME StampTypeOK
  PROVE  /\ call.pages \in Seq(Pages) /\ Len(call.pages) \in Nat
         /\ \A p \in 1 .. Len(call.pages) : call.pages[p] \in Pages
         /\ Len(call.signatures) \in Nat /\ DOMAIN call.signatures = 1 .. Len(call.signatures)
         /\ \A i \in DOMAIN call.signatures : call.signatures[i].box \in Box /\ i \in Nat
         /\ Len(call.annotations) \in Nat /\ DOMAIN call.annotations = 1 .. Len(call.annotations)
         /\ \A i \in DOMAIN call.annotations : /\ call.annotations[i] \in Notes /\ i \in Nat
                                               /\ call.annotations[i].box \in Box
<1>1. /\ call.signatures \in Seq([box: Boxes, caption: Captions]) /\ call.pages \in Seq(Pages)
      /\ call.annotations \in Seq(Notes)
  BY DEF StampTypeOK
<1>2. Len(call.pages) \in Nat /\ \A p \in 1 .. Len(call.pages) : call.pages[p] \in Pages
  BY <1>1, LenProperties
<1>3. /\ Len(call.signatures) \in Nat /\ DOMAIN call.signatures = 1 .. Len(call.signatures)
      /\ \A i \in 1 .. Len(call.signatures) : call.signatures[i] \in [box: Boxes, caption: Captions]
  BY <1>1, LenProperties
<1>4. /\ Len(call.annotations) \in Nat /\ DOMAIN call.annotations = 1 .. Len(call.annotations)
      /\ \A i \in 1 .. Len(call.annotations) : call.annotations[i] \in Notes
  BY <1>1, LenProperties
<1>5. \A i \in DOMAIN call.signatures : call.signatures[i].box \in Box /\ i \in Nat
  BY <1>3, PdfStampingAssumption
<1>6. \A i \in DOMAIN call.annotations : call.annotations[i].box \in Box /\ i \in Nat
  BY <1>4, PdfStampingAssumption
<1> QED
  BY <1>1, <1>2, <1>3, <1>4, <1>5, <1>6

\* StampSignature draws the next signature.
LEMMA SignatureStep ==
  ASSUME StampInv, StampSignature
  PROVE  StampInv'
<1> DEFINE new == SignatureMarks(turn)
<1>1. /\ StampTypeOK /\ turn >= 1 /\ stage = "signatures" /\ turn <= Len(call.signatures)
      /\ \A i \in DOMAIN call.signatures : Valid(call.signatures[i].box, Len(call.pages))
      /\ Drawn(marks, SignaturesDrawn, NotesDrawn)
  BY DEF StampInv, StampSignature
<1>2. UNCHANGED <<call, stage>> /\ turn' = turn + 1 /\ turn \in Nat /\ marks \in Seq(Mark)
  BY DEF StampSignature, StampInv, StampTypeOK
<1>3. turn \in DOMAIN call.signatures /\ Len(call.signatures) \in Nat
  BY <1>1, <1>2, CallTyped
<1>4. /\ new \in Seq(Mark) /\ 1 \in DOMAIN new /\ new[1].kind = "stamp" /\ new[1].from = turn
      /\ \A j \in DOMAIN new : MarkInPlace(new[j]) /\ (j # 1 => new[j].kind \in {"rule", "caption"})
      /\ HasCaption(new)
  BY <1>1, <1>3, SignatureMarksTyped, Zenon
<1>5. marks' = marks \o new
  BY DEF StampSignature
<1> HIDE DEF new
<1>6. Drawn(marks, 1 .. turn - 1, {})
  BY <1>1 DEF SignaturesDrawn, NotesDrawn
<1>7. Drawn(marks', (1 .. turn - 1) \cup {turn}, {})
  <2>1. turn \notin 1 .. turn - 1
    BY <1>2
  <2>2. new[1].kind \in {"stamp", "box"}
    BY <1>4
  <2> QED
    BY <1>2, <1>4, <1>5, <1>6, <2>1, <2>2, SignatureAdded
<1>8. SignaturesDrawn' = (1 .. turn - 1) \cup {turn} /\ NotesDrawn' = {}
  <2>1. (1 .. turn - 1) \cup {turn} = 1 .. turn + 1 - 1
    BY <1>1, <1>2
  <2> QED
    BY <1>1, <1>2, <2>1 DEF SignaturesDrawn, NotesDrawn
<1>9. Drawn(marks, SignaturesDrawn, NotesDrawn)'
  BY <1>2, <1>7, <1>8, SameCall
<1>10. marks' \in Seq(Mark)
  BY <1>2, <1>4, <1>5, After
<1>11. StampTypeOK'
  BY <1>1, <1>2, <1>10 DEF StampTypeOK
<1> QED
  BY <1>1, <1>2, <1>3, <1>9, <1>11 DEF StampInv

\* EndSignatures turns to the annotations.
LEMMA EndSignaturesStep ==
  ASSUME StampInv, EndSignatures
  PROVE  StampInv'
<1>1. /\ StampTypeOK /\ stage = "signatures" /\ turn > Len(call.signatures) /\ turn <= Len(call.signatures) + 1
      /\ \A i \in DOMAIN call.signatures : Valid(call.signatures[i].box, Len(call.pages))
      /\ Drawn(marks, SignaturesDrawn, NotesDrawn)
  BY DEF StampInv, EndSignatures
<1>2. /\ UNCHANGED <<call, marks>> /\ turn' = 1 /\ turn \in Nat
      /\ stage' = IF call.annotations = <<>> THEN "written" ELSE "annotations"
  BY DEF EndSignatures, StampInv, StampTypeOK
<1>3. Drawn(marks', DOMAIN call.signatures, {})
  <2>1. 1 .. turn - 1 = DOMAIN call.signatures
    BY <1>1, <1>2, CallTyped
  <2> QED
    BY <1>1, <1>2, <2>1 DEF SignaturesDrawn, NotesDrawn
<1>4. SignaturesDrawn' = DOMAIN call.signatures /\ NotesDrawn' = {}
  <2>1. Before(call.annotations, 1) = {}
    BY <1>1, CallTyped DEF Before, Box
  <2>2. call.annotations = <<>> => \A p : Before(call.annotations, p) = {}
    BY DEF Before
  <2> QED
    BY <1>2, <2>1, <2>2 DEF SignaturesDrawn, NotesDrawn
<1>5. Drawn(marks, SignaturesDrawn, NotesDrawn)'
  BY <1>2, <1>3, <1>4, SameCall
<1>6. StampTypeOK'
  BY <1>1, <1>2 DEF StampTypeOK
<1>7. Len(call.pages) \in Nat
  BY <1>1, CallTyped
<1> QED
  BY <1>1, <1>2, <1>5, <1>6, <1>7 DEF StampInv

\* WriteFile is reached when all is drawn.
LEMMA WriteStep ==
  ASSUME StampInv, WriteFile
  PROVE  StampInv'
<1>1. /\ StampTypeOK /\ stage \in {"annotations", "boxes"} /\ turn > Len(call.pages)
      /\ stage = "annotations" => turn <= Len(call.pages) + 1
      /\ stage = "boxes" => call.annotations = <<>>
      /\ \A i \in DOMAIN call.signatures : Valid(call.signatures[i].box, Len(call.pages))
      /\ Drawn(marks, SignaturesDrawn, NotesDrawn)
  BY DEF StampInv, WriteFile
<1>2. UNCHANGED <<call, marks, turn>> /\ stage' = "written" /\ turn \in Nat /\ turn >= 1
  BY DEF WriteFile, StampInv, StampTypeOK
<1>3. SignaturesDrawn' = SignaturesDrawn
  <2>1. Before(call.signatures, turn) = DOMAIN call.signatures
    BY <1>1, <1>2, CallTyped DEF Before, Valid, Box
  <2> QED
    BY <1>1, <1>2, <2>1 DEF SignaturesDrawn
<1>4. NotesDrawn' = NotesDrawn
  <2>1. CASE stage = "annotations"
    <3>1. turn = Len(call.pages) + 1
      BY <1>1, <1>2, <2>1, CallTyped
    <3> QED
      BY <1>2, <2>1, <3>1 DEF NotesDrawn
  <2>2. CASE stage = "boxes"
    <3>1. \A p : Before(call.annotations, p) = {}
      BY <1>1, <2>2 DEF Before
    <3> QED
      BY <1>2, <2>2, <3>1 DEF NotesDrawn
  <2> QED
    BY <1>1, <2>1, <2>2
<1>5. Drawn(marks, SignaturesDrawn, NotesDrawn)'
  BY <1>1, <1>2, <1>3, <1>4, SameCall
<1>6. StampTypeOK'
  BY <1>1, <1>2 DEF StampTypeOK
<1> QED
  BY <1>1, <1>2, <1>5, <1>6 DEF StampInv

\* BurnPage draws the annotations of the page after all that has been drawn.
LEMMA BurnStep ==
  ASSUME StampInv, BurnPage
  PROVE  StampInv'
<1> DEFINE notes == call.annotations
           n == Len(notes)
           R(i) == OnPage(notes[i].box, call.pages[turn])
           new == [i \in DOMAIN notes |-> NoteMarks(notes[i], turn, i, R(i))]
           S == DOMAIN call.signatures
           Done(i) == Before(notes, turn) \cup {j \in 1 .. i : notes[j].box.page = turn}
           P == {x \in Seq(Mark) \X (0 .. n) : Drawn(x[1], S, Done(x[2]))}
<1>1. /\ StampTypeOK /\ turn >= 1 /\ stage = "annotations" /\ turn <= Len(call.pages)
      /\ \A i \in DOMAIN call.signatures : Valid(call.signatures[i].box, Len(call.pages))
      /\ Drawn(marks, SignaturesDrawn, NotesDrawn)
  BY DEF StampInv, BurnPage
<1>2. /\ UNCHANGED <<call, stage>> /\ turn' = turn + 1 /\ turn \in Nat /\ marks \in Seq(Mark)
      /\ marks' = Merged(notes, turn, new)
  BY DEF BurnPage, StampInv, StampTypeOK
<1>3. /\ n \in Nat /\ DOMAIN notes = 1 .. n /\ turn \in 1 .. Len(call.pages) /\ call.pages[turn] \in Pages
      /\ \A i \in 1 .. n : notes[i] \in Notes /\ notes[i].box \in Box /\ notes[i].box.page \in Int /\ i \in Nat
  <2>1. Len(call.pages) \in Nat /\ turn \in 1 .. Len(call.pages)
    BY <1>1, <1>2, CallTyped
  <2>2. \A i \in 1 .. n : notes[i].box \in Box => notes[i].box.page \in Int
    BY DEF Box
  <2> QED
    BY <1>1, <2>1, <2>2, CallTyped
<1> HIDE DEF n
<1>4. ASSUME NEW i \in 1 .. n
      PROVE  /\ new[i] \in Seq(Mark) /\ 1 \in DOMAIN new[i] /\ new[i][1].size = 0
             /\ \A j \in DOMAIN new[i] :
                  /\ new[i][j].kind \in NoteKinds /\ new[i][j].page = turn /\ new[i][j].from = i
                  /\ j # 1 => new[i][j].size # 0
  <2>1. new[i] = NoteMarks(notes[i], turn, i, R(i))
    BY <1>3
  <2>2. R(i).x \in Int /\ R(i).y \in Int /\ R(i).w \in Int /\ R(i).h \in Int
    BY <1>3, BoxOnPage
  <2> DEFINE r == R(i)
             note == notes[i]
             drawn == NoteMarks(note, turn, i, r)
  <2>3. r.x \in Int /\ r.y \in Int /\ r.w \in Int /\ r.h \in Int /\ note \in Notes /\ i \in Nat
    BY <1>3, <2>2
  <2>4. new[i] = drawn
    BY <2>1
  <2> HIDE DEF new, r, note
  <2>5. PaperFirst(drawn, turn, i)
    BY <1>2, <2>3, NoteMarksTyped
  <2> HIDE DEF drawn
  <2> QED
    BY <2>4, <2>5 DEF PaperFirst
<1> HIDE DEF new
<1>5. <<marks, 0>> \in P
  <2>1. Drawn(marks, S, Before(notes, turn))
    BY <1>1 DEF SignaturesDrawn, NotesDrawn
  <2>2. Done(0) = Before(notes, turn)
    OBVIOUS
  <2>3. 0 \in 0 .. n
    BY <1>3
  <2> HIDE DEF Done
  <2> QED
    BY <1>2, <2>1, <2>2, <2>3
<1>6. ASSUME NEW ms \in Seq(Mark), NEW i \in 1 .. n, <<ms, i - 1>> \in P
      PROVE  <<IF notes[i].box.page = turn THEN ms \o new[i] ELSE ms, i>> \in P
  <2>1. Drawn(ms, S, Done(i - 1)) /\ i \in 0 .. n
    <3> HIDE DEF Done
    <3> QED
      BY <1>3, <1>6
  <2>2. CASE notes[i].box.page = turn
    <3>1. i \notin Done(i - 1) /\ Done(i) = Done(i - 1) \cup {i}
      BY <1>2, <1>3, <2>2 DEF Before
    <3>2. \A j \in DOMAIN new[i] : MarkInPlace(new[i][j])
      <4> TAKE j \in DOMAIN new[i]
      <4>1. new[i][j].kind \in NoteKinds /\ new[i][j].page = turn /\ new[i][j].from = i
        BY <1>4
      <4> QED
        BY <1>3, <2>2, <4>1 DEF MarkInPlace, NoteKinds
    <3>3. ASSUME NEW k \in Papers(ms), ms[k].page = turn PROVE ms[k].from < i
      <4>1. ms[k].from \in Done(i - 1)
        BY <2>1 DEF Drawn, OneEach
      <4>2. k \in DOMAIN ms /\ ms[k].kind \in NoteKinds /\ MarkInPlace(ms[k])
        BY <2>1 DEF Papers, Drawn
      <4>3. notes[ms[k].from].box.page = turn
        BY <3>3, <4>2 DEF MarkInPlace
      <4> QED
        BY <1>2, <1>3, <4>1, <4>3 DEF Before
    <3>4. new[i] \in Seq(Mark) /\ 1 \in DOMAIN new[i] /\ new[i][1].from = i /\ new[i][1].size = 0 /\ i \in Nat
      BY <1>3, <1>4
    <3>5. \A j \in DOMAIN new[i] : /\ MarkInPlace(new[i][j]) /\ new[i][j].kind \in NoteKinds
                                   /\ new[i][j].page = turn /\ (j # 1 => new[i][j].size # 0)
      BY <1>4, <3>2
    <3> HIDE DEF Done
    <3>6. Drawn(ms \o new[i], S, Done(i - 1) \cup {i})
      BY <2>1, <3>1, <3>3, <3>4, <3>5, NoteAdded
    <3>7. ms \o new[i] \in Seq(Mark)
      BY <3>4, After
    <3> QED
      BY <2>1, <2>2, <3>1, <3>6, <3>7
  <2>3. CASE notes[i].box.page # turn
    <3>1. Done(i) = Done(i - 1)
      BY <1>3, <2>3
    <3> HIDE DEF Done
    <3> QED
      BY <2>1, <2>3, <3>1
  <2> QED
    BY <2>2, <2>3
<1>7. <<marks', n>> \in P
  <2>1. P \in SUBSET (Seq(Mark) \X (0 .. n))
    OBVIOUS
  <2>2. \A i \in 1 .. n : notes[i].box.page = turn => new[i] \in Seq(Mark)
    BY <1>4
  <2> HIDE DEF P
  <2> QED
    BY <1>2, <1>3, <1>5, <1>6, <2>1, <2>2, MergedKeeps DEF n
<1>8. marks' \in Seq(Mark) /\ Drawn(marks', S, Done(n))
  <2> HIDE DEF Done, S
  <2> QED
    BY <1>7
<1>9. SignaturesDrawn' = S /\ NotesDrawn' = Done(n)
  <2>1. Before(notes, turn + 1) = Done(n)
    BY <1>1, <1>2, <1>3 DEF Before
  <2> QED
    BY <1>1, <1>2, <2>1 DEF SignaturesDrawn, NotesDrawn
<1>10. Drawn(marks, SignaturesDrawn, NotesDrawn)'
  BY <1>2, <1>8, <1>9, SameCall
<1>11. StampTypeOK'
  BY <1>1, <1>2, <1>8 DEF StampTypeOK
<1>12. Len(call.pages) \in Nat
  BY <1>1, CallTyped
<1> QED
  BY <1>1, <1>2, <1>10, <1>11, <1>12 DEF StampInv

\* DrawBoxes draws the empty boxes of the page.
LEMMA BoxesStep ==
  ASSUME StampInv, DrawBoxes
  PROVE  StampInv'
<1> DEFINE regions == call.signatures
           n == Len(regions)
           R(i) == OnPage(regions[i].box, call.pages[turn])
           B(i) == MarkAt("box", turn, i, R(i), 6)
           new == [i \in DOMAIN regions |-> <<B(i)>>]
           Done(i) == Before(regions, turn) \cup {j \in 1 .. i : regions[j].box.page = turn}
           P == {x \in Seq(Mark) \X (0 .. n) : Drawn(x[1], Done(x[2]), {})}
<1>1. /\ StampTypeOK /\ turn >= 1 /\ stage = "boxes" /\ turn <= Len(call.pages)
      /\ call.annotations = <<>>
      /\ \A i \in DOMAIN call.signatures : Valid(call.signatures[i].box, Len(call.pages))
      /\ Drawn(marks, SignaturesDrawn, NotesDrawn)
  BY DEF StampInv, DrawBoxes
<1>2. /\ UNCHANGED <<call, stage>> /\ turn' = turn + 1 /\ turn \in Nat /\ marks \in Seq(Mark)
      /\ marks' = Merged(regions, turn, new)
  BY DEF DrawBoxes, StampInv, StampTypeOK
<1>3. /\ n \in Nat /\ DOMAIN regions = 1 .. n /\ turn \in 1 .. Len(call.pages) /\ call.pages[turn] \in Pages
      /\ \A i \in 1 .. n : regions[i].box \in Box /\ regions[i].box.page \in Int /\ i \in Nat
  <2>1. Len(call.pages) \in Nat /\ turn \in 1 .. Len(call.pages)
    BY <1>1, <1>2, CallTyped
  <2>2. \A i \in 1 .. n : regions[i].box \in Box => regions[i].box.page \in Int
    BY DEF Box
  <2> QED
    BY <1>1, <2>1, <2>2, CallTyped
<1> HIDE DEF n
<1>4. ASSUME NEW i \in 1 .. n
      PROVE  /\ new[i] \in Seq(Mark) /\ DOMAIN new[i] = {1} /\ new[i][1] = B(i) /\ B(i).kind = "box" /\ B(i).from = i
             /\ regions[i].box.page = turn => MarkInPlace(B(i))
  <2>1. new[i] = <<B(i)>>
    BY <1>3
  <2>2. R(i).x \in Int /\ R(i).y \in Int /\ R(i).w \in Int /\ R(i).h \in Int
    BY <1>3, BoxOnPage
  <2> DEFINE r == R(i)
             b == B(i)
  <2>3. r.x \in Int /\ r.y \in Int /\ r.w \in Int /\ r.h \in Int /\ b = MarkAt("box", turn, i, r, 6)
    BY <2>2
  <2>4. i \in Nat
    BY <1>3
  <2> HIDE DEF r, b
  <2>5. b \in Mark /\ b.kind = "box" /\ b.from = i /\ b.page = turn /\ b.x = r.x /\ b.y = r.y /\ b.w = r.w /\ b.h = r.h
    BY <1>2, <2>3, <2>4 DEF MarkAt, Mark
  <2>6. ASSUME regions[i].box.page = turn PROVE MarkInPlace(b)
    <3>1. b.from \in DOMAIN regions /\ r = OnPage(call.signatures[b.from].box, call.pages[b.page])
      BY <1>3, <2>5 DEF r
    <3> QED
      BY <2>5, <2>6, <3>1 DEF MarkInPlace, NoteKinds
  <2>7. <<b>> \in Seq(Mark) /\ DOMAIN <<b>> = {1} /\ <<b>>[1] = b
    BY <2>5
  <2> QED
    BY <2>1, <2>5, <2>6, <2>7, Zenon DEF b
<1> HIDE DEF new, B
<1>5. <<marks, 0>> \in P
  <2>1. Drawn(marks, Before(regions, turn), {})
    BY <1>1 DEF SignaturesDrawn, NotesDrawn
  <2>2. Done(0) = Before(regions, turn)
    OBVIOUS
  <2>3. 0 \in 0 .. n
    BY <1>3
  <2> HIDE DEF Done
  <2> QED
    BY <1>2, <2>1, <2>2, <2>3
<1>6. ASSUME NEW ms \in Seq(Mark), NEW i \in 1 .. n, <<ms, i - 1>> \in P
      PROVE  <<IF regions[i].box.page = turn THEN ms \o new[i] ELSE ms, i>> \in P
  <2>1. Drawn(ms, Done(i - 1), {}) /\ i \in 0 .. n
    <3> HIDE DEF Done
    <3> QED
      BY <1>3, <1>6
  <2>2. CASE regions[i].box.page = turn
    <3>1. i \notin Done(i - 1) /\ Done(i) = Done(i - 1) \cup {i}
      BY <1>2, <1>3, <2>2 DEF Before
    <3>2. /\ new[i] \in Seq(Mark) /\ DOMAIN new[i] = {1} /\ new[i][1] = B(i) /\ B(i).kind = "box" /\ B(i).from = i
          /\ MarkInPlace(B(i))
      BY <1>4, <2>2, Zenon
    <3>3. HasCaption(new[i])
      <4>1. Captioning(new[i]) = {} /\ \A k \in DOMAIN new[i] : new[i][k].kind # "stamp"
        BY <3>2 DEF Captioning
      <4> QED
        BY <4>1 DEF HasCaption
    <3>4. /\ 1 \in DOMAIN new[i] /\ new[i][1].kind \in {"stamp", "box"} /\ new[i][1].from = i
          /\ \A j \in DOMAIN new[i] : MarkInPlace(new[i][j]) /\ (j # 1 => new[i][j].kind \in {"rule", "caption"})
      BY <3>2
    <3> HIDE DEF Done
    <3>5. Drawn(ms \o new[i], Done(i - 1) \cup {i}, {})
      BY <2>1, <3>1, <3>2, <3>3, <3>4, SignatureAdded
    <3>6. ms \o new[i] \in Seq(Mark)
      BY <3>2, After
    <3> QED
      BY <2>1, <2>2, <3>1, <3>5, <3>6
  <2>3. CASE regions[i].box.page # turn
    <3>1. Done(i) = Done(i - 1)
      BY <1>3, <2>3
    <3> HIDE DEF Done
    <3> QED
      BY <2>1, <2>3, <3>1
  <2> QED
    BY <2>2, <2>3
<1>7. <<marks', n>> \in P
  <2>1. P \in SUBSET (Seq(Mark) \X (0 .. n))
    OBVIOUS
  <2>2. \A i \in 1 .. n : regions[i].box.page = turn => new[i] \in Seq(Mark)
    BY <1>4, Zenon
  <2> HIDE DEF P
  <2> QED
    BY <1>2, <1>3, <1>5, <1>6, <2>1, <2>2, MergedKeeps DEF n
<1>8. marks' \in Seq(Mark) /\ Drawn(marks', Done(n), {})
  <2> HIDE DEF Done
  <2> QED
    BY <1>7
<1>9. SignaturesDrawn' = Done(n) /\ NotesDrawn' = {}
  <2>1. Before(regions, turn + 1) = Done(n)
    BY <1>1, <1>2, <1>3 DEF Before
  <2> QED
    BY <1>1, <1>2, <2>1 DEF SignaturesDrawn, NotesDrawn
<1>10. Drawn(marks, SignaturesDrawn, NotesDrawn)'
  BY <1>2, <1>8, <1>9, SameCall
<1>11. StampTypeOK'
  BY <1>1, <1>2, <1>8 DEF StampTypeOK
<1> QED
  BY <1>1, <1>2, <1>10, <1>11 DEF StampInv

\* Before anything is drawn.
LEMMA NothingDrawn == Drawn(<<>>, {}, {})
<1>1. DOMAIN <<>> = {}
  OBVIOUS
<1> QED
  BY <1>1 DEF Drawn, HasCaption, InOrder, OneEach, Stamps, Captioning, Papers

\* A call begins with nothing drawn, and while there is none nothing is.
LEMMA StampStarts ==
  ASSUME StampInit \/ StampIdle
  PROVE  StampInv
<1>1. marks = <<>> /\ turn = 1 /\ marks \in Seq(Mark)
  BY EmptySeq DEF StampInit, StampIdle
<1>2. CASE StampIdle
  <2>1. /\ call = [method |-> "apply_signatures", pages |-> <<>>, signatures |-> <<>>, annotations |-> <<>>]
        /\ stage = "idle"
    BY <1>2 DEF StampIdle
  <2>2. StampTypeOK
    BY <1>1, <2>1, EmptySeq DEF StampTypeOK
  <2>3. DOMAIN call.signatures = {}
    BY <2>1
  <2>4. SignaturesDrawn = {} /\ NotesDrawn = {}
    BY <2>1, <2>3 DEF SignaturesDrawn, NotesDrawn
  <2> QED
    BY <1>1, <2>1, <2>2, <2>3, <2>4, NothingDrawn DEF StampInv
<1>3. CASE StampInit
  <2>1. PICK pages \in UNION {[1 .. n -> Pages] : n \in 1 .. MaxPages},
            signatures \in Placements, annotations \in Drawings :
          /\ \A i \in DOMAIN signatures : Valid(signatures[i].box, Len(pages))
          /\ \/ /\ call = [method |-> "apply_signatures", pages |-> pages,
                           signatures |-> signatures, annotations |-> annotations]
                /\ stage = "signatures"
             \/ /\ call = [method |-> "render_region_boxes", pages |-> pages,
                           signatures |-> signatures, annotations |-> <<>>]
                /\ annotations = <<>> /\ stage = "boxes"
    BY <1>3 DEF StampInit
  <2>2. /\ pages \in Seq(Pages) /\ signatures \in Seq([box: Boxes, caption: Captions])
        /\ annotations \in Seq(Notes) /\ <<>> \in Seq(Notes)
    <3>1. PICK n \in 1 .. MaxPages : pages \in [1 .. n -> Pages]
      OBVIOUS
    <3>2. n \in Nat
      BY PdfStampingAssumption
    <3> QED
      BY <3>1, <3>2, FunctionIsSeq, EmptySeq, PdfStampingAssumption
  <2>3. StampTypeOK
    BY <1>1, <2>1, <2>2 DEF StampTypeOK
  <2>4. \A i \in DOMAIN call.signatures : Valid(call.signatures[i].box, Len(call.pages))
    BY <2>1
  <2>5. Len(call.signatures) \in Nat
    BY <2>3, CallTyped
  <2>6. SignaturesDrawn = {} /\ NotesDrawn = {}
    <3>1. Before(call.signatures, 1) = {}
      BY <2>3, CallTyped DEF Before, Box
    <3>2. 1 .. 1 - 1 = {}
      OBVIOUS
    <3> QED
      BY <1>1, <2>1, <3>1, <3>2 DEF SignaturesDrawn, NotesDrawn
  <2> QED
    BY <1>1, <2>1, <2>3, <2>4, <2>5, <2>6, NothingDrawn DEF StampInv
<1> QED
  BY <1>2, <1>3

\* Steps of the call, and steps that leave it alone.
LEMMA StampStep ==
  ASSUME StampInv, StampNext \/ UNCHANGED stampVars
  PROVE  StampInv'
<1>1. CASE UNCHANGED stampVars
  <2>1. UNCHANGED call /\ UNCHANGED turn /\ UNCHANGED stage /\ UNCHANGED marks
    BY <1>1 DEF stampVars
  <2>2. SignaturesDrawn' = SignaturesDrawn /\ NotesDrawn' = NotesDrawn
    BY <2>1 DEF SignaturesDrawn, NotesDrawn, Before
  <2>3. Drawn(marks, SignaturesDrawn, NotesDrawn)'
    <3>1. Drawn(marks', SignaturesDrawn, NotesDrawn)
      BY <2>1 DEF StampInv
    <3> QED
      BY <2>1, <2>2, <3>1, SameCall
  <2> QED
    BY <2>1, <2>3 DEF StampInv, StampTypeOK
<1> QED
  BY <1>1, SignatureStep, EndSignaturesStep, BurnStep, BoxesStep, WriteStep DEF StampNext

\* One mark for an item, if the item has been drawn.
LEMMA JustOne ==
  ASSUME NEW ms, NEW H, NEW D, OneEach(ms, H, D), NEW i
  PROVE  Cardinality({k \in H : ms[k].from = i}) = IF i \in D THEN 1 ELSE 0
<1> DEFINE K == {k \in H : ms[k].from = i}
<1>1. CASE i \in D
  <2>1. PICK k \in H : ms[k].from = i
    BY <1>1 DEF OneEach
  <2>2. K = {k}
    BY <2>1 DEF OneEach
  <2> QED
    BY <1>1, <2>2, FS_Singleton
<1>2. CASE i \notin D
  <2>1. K = {}
    BY <1>2 DEF OneEach
  <2> QED
    BY <1>2, <2>1, FS_EmptySet
<1> QED
  BY <1>1, <1>2

\* The invariant is what the property says of the marks.
LEMMA StampInvPlaces ==
  ASSUME StampInv
  PROVE  MarksAreInPlace
<1>1. /\ StampTypeOK /\ Drawn(marks, SignaturesDrawn, NotesDrawn)
      /\ \A i \in DOMAIN call.signatures : Valid(call.signatures[i].box, Len(call.pages))
  BY DEF StampInv
<1>2. /\ \A k \in DOMAIN marks : MarkInPlace(marks[k])
      /\ HasCaption(marks) /\ InOrder(marks)
      /\ OneEach(marks, Stamps(marks), SignaturesDrawn) /\ OneEach(marks, Papers(marks), NotesDrawn)
  BY <1>1 DEF Drawn
<1>3. /\ Marks({"stamp", "box"}) = Stamps(marks) /\ Marks({"caption"}) = Captioning(marks)
      /\ Marks({"stamp"}) \subseteq DOMAIN marks
      /\ {k \in Marks({"highlight", "drawing", "text"}) : marks[k].size = 0} = Papers(marks)
      /\ Marks({"stamp", "caption"}) \subseteq Stamps(marks) \cup Captioning(marks)
  BY DEF Marks, Stamps, Captioning, Papers, NoteKinds
<1>4. StampEnded => /\ SignaturesDrawn = DOMAIN call.signatures
                    /\ NotesDrawn = {i \in DOMAIN call.annotations : call.annotations[i].box.page \in DOMAIN call.pages}
  <2>1. DOMAIN call.pages = 1 .. Len(call.pages) /\ Len(call.pages) \in Nat
    BY <1>1, CallTyped, LenProperties
  <2>2. \A i \in DOMAIN call.annotations : call.annotations[i].box.page \in Int
    BY <1>1, CallTyped DEF Box
  <2>3. Before(call.annotations, Len(call.pages) + 1) =
          {i \in DOMAIN call.annotations : call.annotations[i].box.page \in DOMAIN call.pages}
    BY <2>1, <2>2 DEF Before
  <2> QED
    BY <2>3 DEF StampEnded, SignaturesDrawn, NotesDrawn
<1>5. StampsSitOnRegions
  <2>1. ASSUME NEW k \in Stamps(marks)
        PROVE  LET m    == marks[k]
                   box  == call.signatures[m.from].box
                   size == call.pages[m.page]
               IN  /\ m.page = box.page
                   /\ m.x * Grid = box.x * size.w /\ (size.h - m.y - m.h) * Grid = box.y * size.h
                   /\ m.w * Grid = box.w * size.w /\ m.h * Grid = box.h * size.h
                   /\ 0 <= m.x /\ m.x + m.w <= size.w /\ 0 <= m.y /\ m.y + m.h <= size.h
    <3> DEFINE m == marks[k]
               box == call.signatures[m.from].box
               size == call.pages[m.page]
               r == OnPage(box, size)
    <3>1. MarkInPlace(m) /\ m.kind \in {"stamp", "box"}
      BY <1>2 DEF Stamps
    <3>2. m.from \in DOMAIN call.signatures /\ m.page = box.page /\ m.x = r.x /\ m.y = r.y /\ m.w = r.w /\ m.h = r.h
      BY <3>1 DEF MarkInPlace
    <3>3. Valid(box, Len(call.pages)) /\ box \in Box
      BY <1>1, <3>2, CallTyped
    <3>4. size \in Pages
      <4>1. box.page \in 1 .. Len(call.pages)
        BY <1>1, <3>3, CallTyped DEF Valid, Box
      <4> QED
        BY <1>1, <3>2, <4>1, CallTyped
    <3> HIDE DEF m, box, size
    <3>5. /\ r.x * Grid = box.x * size.w /\ (size.h - r.y - r.h) * Grid = box.y * size.h
          /\ r.w * Grid = box.w * size.w /\ r.h * Grid = box.h * size.h
          /\ 0 <= r.x /\ r.x + r.w <= size.w /\ 0 <= r.y /\ r.y + r.h <= size.h
      BY <3>3, <3>4, BoxOnPage
    <3> HIDE DEF r
    <3>6. /\ m.page = box.page
          /\ m.x * Grid = box.x * size.w /\ (size.h - m.y - m.h) * Grid = box.y * size.h
          /\ m.w * Grid = box.w * size.w /\ m.h * Grid = box.h * size.h
          /\ 0 <= m.x /\ m.x + m.w <= size.w /\ 0 <= m.y /\ m.y + m.h <= size.h
      BY <3>2, <3>5
    <3> QED
      BY <3>6 DEF m, box, size
  <2>2. StampEnded => \A i \in DOMAIN call.signatures :
          Cardinality({k \in Stamps(marks) : marks[k].from = i}) = 1
    BY <1>2, <1>4, JustOne
  <2> QED
    BY <1>3, <2>1, <2>2, Zenon DEF StampsSitOnRegions
<1>6. CaptionsFollowStamps
  <2>1. ASSUME NEW k \in Marks({"caption"})
        PROVE  LET m == marks[k]
                   s == call.signatures[m.from]
                   r == OnPage(s.box, call.pages[m.page])
               IN  /\ s.caption # NoCaption /\ m.page = s.box.page
                   /\ m.x = r.x /\ 0 <= m.y /\ m.y + m.size < r.y
                   /\ m.w = CaptionWidth(s.caption, m.size) /\ (m.w <= r.w \/ m.size = 16)
                   /\ m.size = 26 \/ CaptionWidth(s.caption, m.size + 1) > r.w
                   /\ \E j \in Marks({"stamp"}) : j < k /\ marks[j].from = m.from
    <3>1. MarkInPlace(marks[k]) /\ marks[k].kind = "caption"
      BY <1>2 DEF Marks
    <3>2. \E j \in Marks({"stamp"}) : j < k /\ marks[j].from = marks[k].from
      BY <1>2, <1>3 DEF HasCaption, Marks
    <3> QED
      BY <3>1, <3>2, Zenon DEF MarkInPlace
  <2>2. ASSUME NEW k \in Marks({"stamp"}),
               call.signatures[marks[k].from].caption # NoCaption /\ marks[k].y >= 32
        PROVE  \E j \in Marks({"caption"}) : marks[j].from = marks[k].from
    <3>1. k \in DOMAIN marks /\ marks[k].kind = "stamp"
      BY DEF Marks
    <3> QED
      BY <1>2, <1>3, <2>2, <3>1 DEF HasCaption
  <2>3. \A j, k \in Marks({"caption"}) : marks[j].from = marks[k].from => j = k
    BY <1>2, <1>3 DEF HasCaption
  <2> QED
    BY <2>1, <2>2, <2>3, Zenon DEF CaptionsFollowStamps
<1>7. AnnotationsLieOnTop
  <2>1. ASSUME NEW k \in Papers(marks)
        PROVE  /\ marks[k].page = call.annotations[marks[k].from].box.page
               /\ \A j \in Marks({"stamp", "caption"}) : j < k
               /\ \A j \in Papers(marks) : j < k /\ marks[j].page = marks[k].page => marks[j].from < marks[k].from
    <3>1. MarkInPlace(marks[k]) /\ marks[k].kind \in NoteKinds
      BY <1>2 DEF Papers
    <3> QED
      BY <1>2, <1>3, <3>1 DEF MarkInPlace, InOrder
  <2>2. ASSUME StampEnded, NEW i \in DOMAIN call.annotations
        PROVE  Cardinality({k \in Papers(marks) : marks[k].from = i}) =
                 IF call.annotations[i].box.page \in DOMAIN call.pages THEN 1 ELSE 0
    <3>1. Cardinality({k \in Papers(marks) : marks[k].from = i}) = IF i \in NotesDrawn THEN 1 ELSE 0
      BY <1>2, JustOne
    <3> QED
      BY <1>4, <2>2, <3>1
  <2> QED
    BY <1>3, <2>1, <2>2, Zenon DEF AnnotationsLieOnTop
<1> QED
  BY <1>1, <1>5, <1>6, <1>7 DEF MarksAreInPlace

\* MarksAreInPlace: every stamp fills the rectangle that the admin drew, once;
\* captions follow their stamps, at most one each, and begin under them, in the
\* size that fits the box or the smallest; annotations lie on top, in order.
THEOREM MarksPlaced == Spec => []MarksAreInPlace
<1>1. Init => StampInv
  BY StampStarts DEF Init
<1>2. StampInv /\ [Next]_vars => StampInv'
  <2> SUFFICES ASSUME StampInv, [Next]_vars PROVE StampInv'
    OBVIOUS
  <2>1. StampNext \/ UNCHANGED stampVars
    BY DEF Next, vars
  <2> QED
    BY <2>1, StampStep
<1>3. StampInv => MarksAreInPlace
  BY StampInvPlaces
<1> QED
  BY <1>1, <1>2, <1>3, PTL DEF Spec

-----------------------------------------------------------------------------
(* The text of notes                                                       *)

\* A line of a text note lies within the paper of the note.
LineInPlace(m) ==
  LET note  == call.annotations[m.from]
      paper == OnPage(note.box, call.pages[m.page])
      lines == NoteLines(note, paper)
  IN  /\ m.w = 18 * LineWidth(lines[m.size])
      /\ m.y >= paper.y + 16 /\ m.y + m.h <= paper.y + paper.h
      /\ m.x + m.w <= paper.x + paper.w - 16 \/ LineWidth(lines[m.size]) <= 1

\* The papers and lines of text notes: the lines of a note follow each other.
NotesWell(ms) ==
  \A k \in DOMAIN ms : ms[k].kind = "text" =>
    /\ ms[k].from \in DOMAIN call.annotations /\ ms[k].page \in 1 .. Len(call.pages)
    /\ ms[k].size > 0 => LineInPlace(ms[k])
    /\ ms[k].size > 1 => k > 1 /\ ms[k - 1].size = ms[k].size - 1

\* The inductive invariant that the text of notes needs.
NotesInv == StampInv /\ NotesWell(marks)

\* A line that is shown lies within the paper; a paper too narrow for a character
\* has lines of one.
LEMMA LineInside ==
  ASSUME NEW note \in Notes, NEW p \in Nat, NEW i \in Nat, NEW r,
         r.x \in Int, r.y \in Int, r.w \in Int, r.h \in Int, NEW l \in ShownLines(note, r)
  PROVE  LET m == LineMark(note, p, i, r, l)
         IN  /\ m.w = 18 * LineWidth(NoteLines(note, r)[l])
             /\ m.y >= r.y + 16 /\ m.y + m.h <= r.y + r.h
             /\ m.x + m.w <= r.x + r.w - 16 \/ LineWidth(NoteLines(note, r)[l]) <= 1
<1> DEFINE max == NoteRoom(r)
           width == LineWidth(NoteLines(note, r)[l])
           m == LineMark(note, p, i, r, l)
<1>1. /\ max \in Nat /\ 18 * max <= (IF r.w - 32 < 4 THEN 4 ELSE r.w - 32)
      /\ r.w - 32 < 4 => max = 0
      /\ note.text \in Texts /\ l \in 1 .. Len(NoteLines(note, r)) /\ l \in Nat \ {0}
  BY NoteLinesTyped DEF ShownLines
<1>2. NoteLines(note, r) = WrapText(note.text, max)
  BY DEF NoteLines
<1> HIDE DEF max
<1>3. width \in Int /\ (width <= max \/ width = 1)
  BY <1>1, <1>2, WrapTextSpans
<1>4. LineY(r, l) >= r.y + 16 /\ LineY(r, l) + 36 <= r.y + r.h
  BY <1>1 DEF ShownLines, LineY
<1>5. m.w = 18 * width /\ m.x = r.x + 16 /\ m.y = LineY(r, l) /\ m.h = 36
  BY DEF LineMark, MarkAt
<1> HIDE DEF width, m
<1>6. r.x + 16 + 18 * width <= r.x + r.w - 16 \/ width <= 1
  <2>1. CASE r.w - 32 < 4
    BY <1>1, <1>3, <2>1
  <2>2. CASE ~(r.w - 32 < 4) /\ width <= max
    <3>1. 18 * width <= 18 * max /\ 18 * max <= r.w - 32
      BY <1>1, <1>3, <2>2
    <3> QED
      BY <1>1, <1>3, <3>1
  <2> QED
    BY <1>3, <2>1, <2>2
<1>7. m.w = 18 * width /\ m.y >= r.y + 16 /\ m.y + m.h <= r.y + r.h
  BY <1>4, <1>5
<1>8. m.x + m.w <= r.x + r.w - 16 \/ width <= 1
  BY <1>5, <1>6
<1> QED
  BY <1>7, <1>8 DEF m, width

\* So are all the lines of an annotation of the call.
LEMMA NoteMarksWell ==
  ASSUME StampTypeOK, NEW i \in DOMAIN call.annotations, NEW p \in 1 .. Len(call.pages)
  PROVE  NotesWell(NoteMarks(call.annotations[i], p, i, OnPage(call.annotations[i].box, call.pages[p])))
<1> DEFINE note == call.annotations[i]
           r == OnPage(note.box, call.pages[p])
           new == NoteMarks(note, p, i, r)
           c == Cardinality(ShownLines(note, r))
<1>1. note \in Notes /\ i \in Nat /\ note.box \in Box /\ p \in Nat /\ call.pages[p] \in Pages
  BY CallTyped
<1>2. r.x \in Int /\ r.y \in Int /\ r.w \in Int /\ r.h \in Int
  BY <1>1, BoxOnPage
<1>3. CASE note.kind # "text"
  <2>1. new = <<MarkAt(note.kind, p, i, r, 0)>>
    BY <1>3 DEF NoteMarks
  <2>2. \A k \in DOMAIN new : new[k].kind = note.kind
    <3> HIDE DEF new, r, note
    <3> QED
      BY <2>1 DEF MarkAt
  <2> HIDE DEF new
  <2>3. NotesWell(new)
    BY <1>3, <2>2 DEF NotesWell
  <2> QED
    BY <2>3 DEF new
<1>4. CASE note.kind = "text"
  <2> HIDE DEF note, r
  <2>1. PaperAndLines(new, note, p, i, r, c) /\ c \in Nat /\ ShownLines(note, r) = 1 .. c
    BY <1>1, <1>2, <1>4, TextNoteMarks, FirstLinesShown
  <2> HIDE DEF new, c
  <2>2. /\ DOMAIN new = 1 .. c + 1 /\ new[1] = MarkAt("text", p, i, r, 0)
        /\ \A j \in DOMAIN new : j # 1 => j - 1 \in 1 .. c /\ new[j] = LineMark(note, p, i, r, j - 1)
    BY <2>1, Zenon DEF PaperAndLines
  <2>3. new[1].size = 0 /\ new[1].from = i /\ new[1].page = p
    BY <2>2 DEF MarkAt
  <2>4. ASSUME NEW j \in DOMAIN new, j # 1
        PROVE  /\ new[j].size = j - 1 /\ new[j].from = i /\ new[j].page = p
               /\ LineInPlace(new[j])
    <3>1. j - 1 \in ShownLines(note, r) /\ new[j] = LineMark(note, p, i, r, j - 1)
      BY <2>1, <2>2, <2>4
    <3> DEFINE m == LineMark(note, p, i, r, j - 1)
    <3>2. m.size = j - 1 /\ m.from = i /\ m.page = p
      BY DEF LineMark, MarkAt
    <3>3. /\ m.w = 18 * LineWidth(NoteLines(note, r)[j - 1])
          /\ m.y >= r.y + 16 /\ m.y + m.h <= r.y + r.h
          /\ m.x + m.w <= r.x + r.w - 16 \/ LineWidth(NoteLines(note, r)[j - 1]) <= 1
      BY <1>1, <1>2, <3>1, LineInside
    <3> HIDE DEF m
    <3>4. LineInPlace(m)
      BY <3>2, <3>3 DEF LineInPlace, r, note
    <3> QED
      BY <3>1, <3>2, <3>4 DEF m
  <2>5. ASSUME NEW j \in DOMAIN new, new[j].size > 1
        PROVE  j > 1 /\ new[j - 1].size = new[j].size - 1
    <3>1. j # 1 /\ j \in 1 .. c + 1
      BY <2>2, <2>3, <2>5
    <3>2. new[j].size = j - 1 /\ j - 1 \in DOMAIN new /\ j - 1 # 1
      BY <2>1, <2>2, <2>4, <2>5, <3>1
    <3>3. new[j - 1].size = j - 1 - 1
      BY <2>4, <3>2
    <3> QED
      BY <2>1, <3>1, <3>2, <3>3
  <2>6. NotesWell(new)
    <3> SUFFICES ASSUME NEW j \in DOMAIN new
                 PROVE  /\ new[j].from \in DOMAIN call.annotations /\ new[j].page \in 1 .. Len(call.pages)
                        /\ new[j].size > 0 => LineInPlace(new[j])
                        /\ new[j].size > 1 => j > 1 /\ new[j - 1].size = new[j].size - 1
      BY DEF NotesWell
    <3>1. new[j].from = i /\ new[j].page = p
      BY <2>3, <2>4
    <3>2. new[j].size > 0 => LineInPlace(new[j])
      BY <2>3, <2>4
    <3> QED
      BY <2>5, <3>1, <3>2
  <2> QED
    BY <2>6 DEF new, r, note
<1> QED
  BY <1>3, <1>4

\* Marks that are well, after marks that are.
LEMMA NotesStay ==
  ASSUME NEW ms \in Seq(Mark), NEW new \in Seq(Mark), NotesWell(ms), NotesWell(new)
  PROVE  NotesWell(ms \o new)
<1> DEFINE all == ms \o new
           m == Len(ms)
<1>1. \A k \in DOMAIN all :
        (k \in DOMAIN ms /\ all[k] = ms[k]) \/ \E j \in DOMAIN new : k = m + j /\ all[k] = new[j]
  BY After
<1>2. \A k \in DOMAIN ms : all[k] = ms[k] /\ k \in 1 .. m
  BY After
<1>3. \A j \in DOMAIN new : all[m + j] = new[j] /\ j \in Nat
  BY After
<1>4. m \in Nat /\ DOMAIN ms = 1 .. m /\ DOMAIN new = 1 .. Len(new) /\ Len(new) \in Nat
  BY LenProperties
<1> HIDE DEF all, m
<1>5. SUFFICES ASSUME NEW k \in DOMAIN all, all[k].kind = "text"
               PROVE  /\ all[k].from \in DOMAIN call.annotations /\ all[k].page \in 1 .. Len(call.pages)
                      /\ all[k].size > 0 => LineInPlace(all[k])
                      /\ all[k].size > 1 => k > 1 /\ all[k - 1].size = all[k].size - 1
  BY DEF NotesWell, all
<1>6. CASE k \in DOMAIN ms /\ all[k] = ms[k]
  <2>1. /\ ms[k].from \in DOMAIN call.annotations /\ ms[k].page \in 1 .. Len(call.pages)
        /\ ms[k].size > 0 => LineInPlace(ms[k])
        /\ ms[k].size > 1 => k > 1 /\ ms[k - 1].size = ms[k].size - 1
    BY <1>5, <1>6 DEF NotesWell
  <2>2. k > 1 => all[k - 1] = ms[k - 1]
    BY <1>2, <1>4, <1>6
  <2> QED
    BY <1>6, <2>1, <2>2
<1>7. CASE \E j \in DOMAIN new : k = m + j /\ all[k] = new[j]
  <2>1. PICK j \in DOMAIN new : k = m + j /\ all[k] = new[j]
    BY <1>7
  <2>2. /\ new[j].from \in DOMAIN call.annotations /\ new[j].page \in 1 .. Len(call.pages)
        /\ new[j].size > 0 => LineInPlace(new[j])
        /\ new[j].size > 1 => j > 1 /\ new[j - 1].size = new[j].size - 1
    BY <1>5, <2>1 DEF NotesWell
  <2>3. j > 1 => k > 1 /\ k - 1 = m + (j - 1) /\ j - 1 \in DOMAIN new
    BY <1>3, <1>4, <2>1
  <2>4. j > 1 => k > 1 /\ all[k - 1] = new[j - 1]
    BY <1>3, <2>3
  <2> QED
    BY <2>1, <2>2, <2>4
<1> QED
  BY <1>1, <1>6, <1>7

\* Marks that are no notes say nothing of notes.
LEMMA NoNotes ==
  ASSUME NEW new, \A j \in DOMAIN new : new[j].kind # "text"
  PROVE  NotesWell(new)
  BY DEF NotesWell

\* Merged adds marks that are well.
LEMMA MergedNotes ==
  ASSUME StampTypeOK, NotesWell(marks), NEW list, Len(list) \in Nat, NEW p, NEW new,
         \A i \in 1 .. Len(list) : new[i] \in Seq(Mark) /\ NotesWell(new[i])
  PROVE  NotesWell(Merged(list, p, new))
<1> DEFINE n == Len(list)
           P == {x \in Seq(Mark) \X (0 .. n) : NotesWell(x[1])}
<1>1. P \in SUBSET (Seq(Mark) \X (0 .. n)) /\ marks \in Seq(Mark)
  BY DEF StampTypeOK
<1>2. <<marks, 0>> \in P
  BY <1>1
<1>3. ASSUME NEW ms \in Seq(Mark), NEW i \in 1 .. n, <<ms, i - 1>> \in P
      PROVE  <<IF list[i].box.page = p THEN ms \o new[i] ELSE ms, i>> \in P
  <2>1. NotesWell(ms) /\ i \in 0 .. n
    BY <1>3
  <2>2. new[i] \in Seq(Mark) /\ NotesWell(new[i])
    OBVIOUS
  <2>3. ms \o new[i] \in Seq(Mark) /\ NotesWell(ms \o new[i])
    BY <2>1, <2>2, NotesStay, After
  <2> QED
    BY <2>1, <2>3
<1> HIDE DEF P
<1>4. <<Merged(list, p, new), n>> \in P
  BY <1>1, <1>2, <1>3, MergedKeeps
<1> QED
  BY <1>4 DEF P

\* What is said of notes is about the call, which no step changes.
LEMMA SameNotes ==
  ASSUME UNCHANGED call, NotesWell(marks')
  PROVE  NotesWell(marks)'
  BY DEF NotesWell, LineInPlace

\* Every step keeps the lines of notes in their papers.
LEMMA NotesStep ==
  ASSUME NotesInv, StampNext \/ UNCHANGED stampVars
  PROVE  NotesInv'
<1>1. StampInv /\ StampInv' /\ StampTypeOK /\ NotesWell(marks) /\ marks \in Seq(Mark)
  BY StampStep DEF NotesInv, StampInv, StampTypeOK
<1>2. CASE UNCHANGED <<call, marks>>
  BY <1>1, <1>2, SameNotes DEF NotesInv
<1>3. CASE StampSignature
  <2>1. /\ turn \in DOMAIN call.signatures /\ Valid(call.signatures[turn].box, Len(call.pages))
        /\ marks' = marks \o SignatureMarks(turn) /\ UNCHANGED call
    <3>1. turn \in Nat /\ turn >= 1 /\ turn <= Len(call.signatures) /\ UNCHANGED call
      BY <1>1, <1>3 DEF StampSignature, StampInv, StampTypeOK
    <3>2. turn \in DOMAIN call.signatures
      BY <1>1, <3>1, CallTyped
    <3>3. Valid(call.signatures[turn].box, Len(call.pages))
      BY <1>1, <3>2 DEF StampInv
    <3>4. marks' = marks \o SignatureMarks(turn)
      BY <1>3 DEF StampSignature
    <3> QED
      BY <3>1, <3>2, <3>3, <3>4
  <2> DEFINE new == SignatureMarks(turn)
  <2>2. /\ new \in Seq(Mark) /\ new[1].kind = "stamp"
        /\ \A j \in DOMAIN new : j # 1 => new[j].kind \in {"rule", "caption"}
    BY <1>1, <2>1, SignatureMarksTyped, Zenon
  <2> HIDE DEF new
  <2>3. NotesWell(new)
    BY <2>2, NoNotes
  <2>4. NotesWell(marks')
    BY <1>1, <2>1, <2>2, <2>3, NotesStay DEF new
  <2> QED
    BY <1>1, <2>1, <2>4, SameNotes DEF NotesInv
<1>4. CASE BurnPage
  <2> DEFINE notes == call.annotations
             new == [i \in DOMAIN notes |->
                       NoteMarks(notes[i], turn, i, OnPage(notes[i].box, call.pages[turn]))]
  <2>1. UNCHANGED call /\ marks' = Merged(notes, turn, new)
    BY <1>4 DEF BurnPage
  <2>2. turn \in 1 .. Len(call.pages) /\ turn \in Nat /\ call.pages[turn] \in Pages
    BY <1>1, <1>4, CallTyped DEF BurnPage, StampInv, StampTypeOK
  <2>3. /\ Len(notes) \in Nat /\ DOMAIN notes = 1 .. Len(notes)
        /\ \A i \in DOMAIN notes : notes[i] \in Notes /\ notes[i].box \in Box /\ i \in Nat
    BY <1>1, CallTyped
  <2>4. ASSUME NEW i \in 1 .. Len(notes)
        PROVE  new[i] \in Seq(Mark) /\ NotesWell(new[i])
    <3> DEFINE r == OnPage(notes[i].box, call.pages[turn])
    <3>1. i \in DOMAIN notes /\ new[i] = NoteMarks(notes[i], turn, i, r)
      BY <2>3
    <3>2. NotesWell(NoteMarks(notes[i], turn, i, r))
      BY <1>1, <2>2, <3>1, NoteMarksWell
    <3>3. r.x \in Int /\ r.y \in Int /\ r.w \in Int /\ r.h \in Int
      BY <2>2, <2>3, <3>1, BoxOnPage
    <3>4. notes[i] \in Notes /\ i \in Nat
      BY <2>3, <3>1
    <3> HIDE DEF r, new
    <3>5. PaperFirst(NoteMarks(notes[i], turn, i, r), turn, i)
      BY <2>2, <3>3, <3>4, NoteMarksTyped
    <3> QED
      BY <3>1, <3>2, <3>5 DEF PaperFirst
  <2> HIDE DEF new
  <2>5. NotesWell(marks')
    BY <1>1, <2>1, <2>3, <2>4, MergedNotes
  <2> QED
    BY <1>1, <2>1, <2>5, SameNotes DEF NotesInv
<1>5. CASE DrawBoxes
  <2> DEFINE regions == call.signatures
             new == [i \in DOMAIN regions |->
                       <<MarkAt("box", turn, i, OnPage(regions[i].box, call.pages[turn]), 6)>>]
  <2>1. UNCHANGED call /\ marks' = Merged(regions, turn, new)
    BY <1>5 DEF DrawBoxes
  <2>2. turn \in Nat /\ call.pages[turn] \in Pages
    BY <1>1, <1>5, CallTyped DEF DrawBoxes, StampInv, StampTypeOK
  <2>3. /\ Len(regions) \in Nat /\ DOMAIN regions = 1 .. Len(regions)
        /\ \A i \in DOMAIN regions : regions[i].box \in Box /\ i \in Nat
    BY <1>1, CallTyped
  <2>4. ASSUME NEW i \in 1 .. Len(regions)
        PROVE  new[i] \in Seq(Mark) /\ NotesWell(new[i])
    <3> DEFINE r == OnPage(regions[i].box, call.pages[turn])
               b == MarkAt("box", turn, i, r, 6)
    <3>1. i \in DOMAIN regions /\ new[i] = <<b>> /\ i \in Nat
      BY <2>3
    <3>2. r.x \in Int /\ r.y \in Int /\ r.w \in Int /\ r.h \in Int
      BY <2>2, <2>3, <3>1, BoxOnPage
    <3> HIDE DEF r, new
    <3>3. b \in Mark /\ b.kind # "text"
      BY <2>2, <3>1, <3>2 DEF MarkAt, Mark
    <3> HIDE DEF b
    <3>4. <<b>> \in Seq(Mark) /\ \A j \in DOMAIN <<b>> : <<b>>[j].kind # "text"
      BY <3>3
    <3> QED
      BY <3>1, <3>4, NoNotes
  <2> HIDE DEF new
  <2>5. NotesWell(marks')
    BY <1>1, <2>1, <2>3, <2>4, MergedNotes
  <2> QED
    BY <1>1, <2>1, <2>5, SameNotes DEF NotesInv
<1> QED
  BY <1>2, <1>3, <1>4, <1>5 DEF StampNext, stampVars, EndSignatures, WriteFile

\* The invariant is what the property says of notes.
LEMMA NotesInvInside ==
  ASSUME NotesInv
  PROVE  NotesStayInside
<1> SUFFICES ASSUME NEW k \in Marks({"text"})
             PROVE  LET m     == marks[k]
                        note  == call.annotations[m.from]
                        paper == OnPage(note.box, call.pages[m.page])
                        lines == NoteLines(note, paper)
                    IN  /\ WrappedWell(note.text, NoteRoom(paper))
                        /\ m.size > 0 =>
                             /\ m.w = 18 * LineWidth(lines[m.size])
                             /\ m.size > 1 => marks[k - 1].size = m.size - 1
                             /\ m.y >= paper.y + 16 /\ m.y + m.h <= paper.y + paper.h
                             /\ m.x + m.w <= paper.x + paper.w - 16 \/ LineWidth(lines[m.size]) <= 1
  BY Zenon DEF NotesStayInside
<1> DEFINE m == marks[k]
           note == call.annotations[m.from]
           paper == OnPage(note.box, call.pages[m.page])
<1>1. StampTypeOK /\ k \in DOMAIN marks /\ m.kind = "text"
  BY DEF NotesInv, StampInv, Marks
<1>2. /\ m.from \in DOMAIN call.annotations /\ m.page \in 1 .. Len(call.pages)
      /\ m.size > 0 => LineInPlace(m)
      /\ m.size > 1 => marks[k - 1].size = m.size - 1
  BY <1>1 DEF NotesInv, NotesWell
<1>3. WrappedWell(note.text, NoteRoom(paper))
  <2>1. note \in Notes /\ note.box \in Box /\ call.pages[m.page] \in Pages
    BY <1>1, <1>2, CallTyped
  <2>2. paper.w \in Int
    BY <2>1, BoxOnPage
  <2> HIDE DEF note, paper
  <2>3. note.text \in Texts /\ NoteRoom(paper) \in Nat
    BY <2>1, <2>2, NoteLinesTyped
  <2> QED
    BY <2>3, AlwaysWrappedWell
<1> QED
  BY <1>2, <1>3, Zenon DEF LineInPlace

-----------------------------------------------------------------------------
(* Rows *)

\* A row is high enough for its bullet and low enough for a page.
LEMMA RowHeights ==
  ASSUME NEW e \in Events, NEW w \in BOOLEAN
  PROVE  MeasureRow(e, w).height \in 80 .. 94
<1> DEFINE room  == IF w THEN PageChars ELSE ColumnChars
           lines == Len(Wrap2Lines(e.text, room))
           high  == 32 + 22 * lines + (IF e.detail THEN 18 ELSE 0)
<1>1. e.text \in Texts /\ room \in Nat
  BY AuditReportAssumption DEF Texts
<1>2. lines \in 0 .. 2
  BY <1>1, TwoLines
<1>3. MeasureRow(e, w).height = IF high < 80 THEN 80 ELSE high
  BY DEF MeasureRow
<1> HIDE DEF lines
<1>4. high \in 32 .. 94
  BY <1>2
<1> HIDE DEF high
<1> QED
  BY <1>3, <1>4

\* What TimelineIsWhole and LinksStayOnPage say of the rows on pages of height h.
RowsFollow(rs, h) ==
  /\ \A i \in 1 .. Len(rs) :
       /\ rs[i].event = i
       /\ rs[i].wide <=> rs[i].page > 1
       /\ 2 * h >= 124 + 94 + RowGap + Floor => rs[i].bottom >= Floor
  /\ \A i \in 1 .. Len(rs) - 1 :
       \/ rs[i + 1].page = rs[i].page + 1 /\ rs[i + 1].link = NoBullet
       \/ /\ rs[i + 1].page = rs[i].page /\ rs[i + 1].top < rs[i].bottom
          /\ rs[i + 1].link = rs[i].bullet /\ rs[i + 1].link - 18 > rs[i + 1].bullet + 18
  /\ Len(rs) >= 1 => rs[1].link = NoBullet

\* The row that comes next.
LEMMA RowsFollowOn ==
  ASSUME NEW rs \in Seq(Row), NEW h \in Nat, NEW r \in Row, RowsFollow(rs, h),
         r.event = Len(rs) + 1,
         r.wide <=> r.page > 1,
         2 * h >= 124 + 94 + RowGap + Floor => r.bottom >= Floor,
         Len(rs) = 0 => r.link = NoBullet,
         Len(rs) > 0 =>
           \/ r.page = rs[Len(rs)].page + 1 /\ r.link = NoBullet
           \/ /\ r.page = rs[Len(rs)].page /\ r.top < rs[Len(rs)].bottom
              /\ r.link = rs[Len(rs)].bullet /\ r.link - 18 > r.bullet + 18
  PROVE  RowsFollow(Append(rs, r), h)
<1> DEFINE more == Append(rs, r)
           n == Len(rs)
<1>1. n \in Nat
  BY LenProperties
<1>2. Len(more) = n + 1 /\ more[n + 1] = r /\ \A i \in 1 .. n : more[i] = rs[i]
  BY AppendProperties
<1> HIDE DEF more, n
<1>3. \A i \in 1 .. n + 1 :
        /\ more[i].event = i
        /\ more[i].wide <=> more[i].page > 1
        /\ 2 * h >= 124 + 94 + RowGap + Floor => more[i].bottom >= Floor
  <2> TAKE i \in 1 .. n + 1
  <2>1. CASE i = n + 1
    BY <1>2, <2>1 DEF n
  <2>2. CASE i # n + 1
    <3>1. i \in 1 .. n
      BY <1>1, <2>2
    <3> QED
      BY <1>2, <3>1 DEF RowsFollow, n
  <2> QED
    BY <2>1, <2>2
<1>4. \A i \in 1 .. n :
        \/ more[i + 1].page = more[i].page + 1 /\ more[i + 1].link = NoBullet
        \/ /\ more[i + 1].page = more[i].page /\ more[i + 1].top < more[i].bottom
           /\ more[i + 1].link = more[i].bullet /\ more[i + 1].link - 18 > more[i + 1].bullet + 18
  <2> TAKE i \in 1 .. n
  <2>1. CASE i = n
    <3>1. more[i] = rs[n] /\ more[i + 1] = r /\ n > 0
      BY <1>1, <1>2, <2>1
    <3> QED
      BY <3>1 DEF n
  <2>2. CASE i # n
    <3>1. i \in 1 .. n - 1 /\ i + 1 \in 1 .. n
      BY <1>1, <2>2
    <3> QED
      BY <1>2, <3>1 DEF RowsFollow, n
  <2> QED
    BY <2>1, <2>2
<1>5. more[1].link = NoBullet
  <2>1. CASE n = 0
    BY <1>2, <2>1 DEF n
  <2>2. CASE n # 0
    <3>1. n >= 1 /\ 1 \in 1 .. n
      BY <1>1, <2>2
    <3> QED
      BY <1>2, <3>1 DEF RowsFollow, n
  <2> QED
    BY <2>1, <2>2
<1> QED
  BY <1>1, <1>2, <1>3, <1>4, <1>5 DEF RowsFollow, more

-----------------------------------------------------------------------------
(* The list of signers *)

Signed(events, n) == [who |-> events[n].signer, event |-> n]

\* A signer noted in the list: at the old place, or at the end.
Noted(list, s) ==
  IF \E i \in DOMAIN list : list[i].who = s.who
  THEN [i \in DOMAIN list |-> IF list[i].who = s.who THEN s ELSE list[i]]
  ELSE Append(list, s)

\* A list of signers with one more noted is a list of signers.
LEMMA NotedTyped ==
  ASSUME NEW list \in Seq(Signer), NEW s \in Signer
  PROVE  Noted(list, s) \in Seq(Signer)
<1>1. Len(list) \in Nat /\ DOMAIN list = 1 .. Len(list) /\ \A i \in 1 .. Len(list) : list[i] \in Signer
  BY LenProperties
<1> DEFINE F == [i \in DOMAIN list |-> IF list[i].who = s.who THEN s ELSE list[i]]
<1>2. F \in [1 .. Len(list) -> Signer]
  BY <1>1
<1>3. F \in Seq(Signer)
  BY <1>1, FunctionIsSeq, <1>2
<1>4. Append(list, s) \in Seq(Signer)
  BY AppendProperties
<1> QED
  BY <1>3, <1>4 DEF Noted

\* The recursion in DerivedSigners.
LEMMA DerivedIteration ==
  ASSUME NEW events \in Seq(Events), Len(events) <= MaxEvents
  PROVE  \E f \in [0 .. Len(events) -> Seq(Signer)] :
           /\ f[0] = <<>> /\ DerivedSigners(events) = f[Len(events)]
           /\ \A n \in 1 .. Len(events) :
                /\ events[n].signer = NoPerson => f[n] = f[n - 1]
                /\ events[n].signer # NoPerson => f[n] = Noted(f[n - 1], Signed(events, n))
<1> DEFINE m == Len(events)
           V == Seq(Signer)
           step(list, n) == IF events[n].signer = NoPerson THEN list ELSE Noted(list, Signed(events, n))
           g == [x \in V \X (1 .. m) |-> step(x[1], x[2])]
           Unfolded(h) == [n \in 0 .. m |-> IF n = 0 THEN <<>>
                                            ELSE IF events[n].signer = NoPerson THEN h[n - 1]
                                            ELSE Noted(h[n - 1], Signed(events, n))]
           f == CHOOSE h : h = Unfolded(h)
<1>1. m \in 0 .. MaxEvents /\ <<>> \in V
  <2>1. \A k \in Nat : k <= MaxEvents => k \in 0 .. MaxEvents
    BY AuditReportAssumption
  <2> QED
    BY <2>1, LenProperties, EmptySeq
<1>2. \A n \in 1 .. m : events[n].signer # NoPerson => Signed(events, n) \in Signer
  <2> TAKE n \in 1 .. m
  <2>1. events[n] \in Events /\ n \in 0 .. MaxEvents
    BY <1>1, LenProperties, AuditReportAssumption
  <2>2. events[n].signer \in People \cup {NoPerson}
    BY <2>1, AuditReportAssumption
  <2> QED
    BY <2>1, <2>2 DEF Signed, Signer
<1>3. DerivedSigners(events) = f[m]
  BY DEF DerivedSigners, Noted, Signed
<1> HIDE DEF m, V
<1>4. \A list \in V, n \in 1 .. m : step(list, n) \in V
  BY <1>2, NotedTyped DEF V
<1>5. g \in [V \X (1 .. m) -> V] /\ \A list \in V, n \in 1 .. m : g[<<list, n>>] = step(list, n)
  BY <1>4
<1> HIDE DEF g
<1>6. m \in Nat
  BY <1>1, AuditReportAssumption
<1>7. \E h : h = Unfolded(h)
  <2>1. PICK h : Iteration(h, V, <<>>, m, g)
    BY <1>1, <1>5, <1>6, Iterates, Zenon
  <2>2. h \in [0 .. m -> V] /\ h[0] = <<>> /\ \A n \in 1 .. m : h[n] = g[<<h[n - 1], n>>]
    BY <2>1 DEF Iteration
  <2>3. ASSUME NEW n \in 1 .. m PROVE h[n] = step(h[n - 1], n)
    <3>1. n - 1 \in 0 .. m
      BY <1>6
    <3>2. h[n - 1] \in V
      BY <2>2, <3>1
    <3> QED
      BY <2>2, <3>2, <1>5
  <2>4. \A n \in 0 .. m : h[n] = IF n = 0 THEN <<>> ELSE step(h[n - 1], n)
    <3> TAKE n \in 0 .. m
    <3>1. n = 0 \/ n \in 1 .. m
      BY <1>6
    <3> QED
      BY <3>1, <2>2, <2>3
  <2>5. h = Unfolded(h)
    BY <2>2, <2>4
  <2> QED
    BY <2>5
<1>8. f = Unfolded(f)
  BY <1>7
<1> HIDE DEF f
<1>9. f[0] = <<>> /\ \A n \in 1 .. m : f[n] = step(f[n - 1], n)
  <2>1. 0 \in 0 .. m /\ \A n \in 1 .. m : n \in 0 .. m /\ n # 0
    BY <1>6
  <2> QED
    BY <1>8, <2>1
<1>10. Iteration(f, V, <<>>, m, g)
  <2>1. f = [n \in 0 .. m |-> f[n]]
    BY <1>8
  <2>2. \A n \in 1 .. m : f[n - 1] \in V => f[n] = g[<<f[n - 1], n>>]
    BY <1>5, <1>9
  <2> QED
    BY <1>1, <1>5, <1>6, <1>9, <2>1, <2>2, IsIteration
<1>11. f \in [0 .. m -> V]
  BY <1>10 DEF Iteration
<1> QED
  BY <1>3, <1>9, <1>11 DEF m, V

\* The signers that the report lists, from the caller or from the history.
LEMMA SignersTyped ==
  ASSUME history \in Seq(Events), Len(history) <= MaxEvents, given \in Seq(Signer)
  PROVE  ResolvedSigners \in Seq(Signer)
<1>1. PICK f \in [0 .. Len(history) -> Seq(Signer)] : DerivedSigners(history) = f[Len(history)]
  BY DerivedIteration
<1>2. Len(history) \in 0 .. Len(history)
  BY LenProperties
<1>3. DerivedSigners(history) \in Seq(Signer)
  BY <1>1, <1>2
<1> QED
  BY <1>3 DEF ResolvedSigners

-----------------------------------------------------------------------------
(* The report                                                              *)

\* Where the next row would go, and where it goes after event e.
Here == [page |-> page, y |-> y, wide |-> wide]
Placed(at, e) ==
  LET height == MeasureRow(e, at.wide).height
  IN  IF at.y - (height + RowGap) < Floor
      THEN [page |-> at.page + 1, y |-> NextRowTop - MeasureRow(e, TRUE).height - RowGap, wide |-> TRUE]
      ELSE [page |-> at.page, y |-> at.y - height - RowGap, wide |-> at.wide]

\* The places of the first n rows, and of the one after them.
Layout(places, n) ==
  /\ places[1] = [page |-> 1, y |-> FirstRowTop, wide |-> FALSE]
  /\ \A i \in 1 .. n : places[i + 1] = Placed(places[i], history[i])

\* Both passes walk through the same layout, and the first one has counted it.
Measured ==
  /\ pass = "measure" =>
       \E places : Layout(places, next - 1) /\ places[next] = Here
  /\ pass = "draw" =>
       \E places : /\ Layout(places, Len(history)) /\ places[next] = Here
                   /\ places[Len(history) + 1].page = total

InPass == pass \in {"measure", "draw"}
HasPages == InPass \/ pass \in {"append", "answered"}

NothingYet == ~HasPages => rows = <<>> /\ footers = <<>>

PagesTurned ==
  HasPages =>
    /\ Source \in Files /\ page >= 1 /\ (wide <=> page > 1)
    /\ Len(rows) = next - 1 /\ next <= Len(history) + 1
    /\ pass \in {"append", "answered"} => next = Len(history) + 1 /\ total = page

\* The last row that was drawn is what the next one is placed under.
LastRow ==
  InPass =>
    IF Len(rows) = 0 THEN bullet = NoBullet
    ELSE /\ rows[Len(rows)].page = page /\ rows[Len(rows)].bottom = y + RowGap
         /\ rows[Len(rows)].bullet = bullet /\ bullet \in Int /\ bullet >= y + 60

FootersSoFar ==
  /\ InPass => footers = [i \in 1 .. page - 1 |-> [page |-> i, of |-> total]]
  /\ pass \in {"append", "answered"} => footers = [i \in 1 .. page |-> [page |-> i, of |-> page]]

AnswerSoFar ==
  IF pass = "answered"
  THEN answer = [i \in 1 .. Source.pages |-> <<"source", i>>] \o [i \in 1 .. page |-> <<"report", i>>]
  ELSE answer = <<>>

ReportInv ==
  /\ ReportTypeOK /\ NothingYet /\ PagesTurned /\ LastRow
  /\ RowsFollow(rows, Source.height) /\ FootersSoFar /\ AnswerSoFar /\ Measured

\* The file that the report goes with, while there is one.
LEMMA SourceTyped ==
  ASSUME document \in [final: Files \cup {Gone, NoFile}, original: Files \cup {Gone}], Source # Gone
  PROVE  Source \in Files /\ Source.pages \in Nat /\ Source.height \in Nat /\ Height \in Nat
<1>1. Source \in Files
  BY AuditReportAssumption DEF Source
<1>2. Source.pages \in Nat /\ Source.height \in Nat
  BY <1>1, AuditReportAssumption
<1> QED
  BY <1>1, <1>2 DEF Height

\* Before any row has been drawn.
LEMMA NoRows ==
  \A h : RowsFollow(<<>>, h)
<1>1. Len(<<>>) = 0 /\ 1 .. 0 = {} /\ 1 .. 0 - 1 = {}
  BY EmptySeq
<1> QED
  BY <1>1 DEF RowsFollow

\* Before the call nothing of a report is there.
LEMMA ReportStarts ==
  Init => ReportInv
<1> SUFFICES ASSUME Init PROVE ReportInv
  OBVIOUS
<1>1. /\ pass \in {"idle", "asked"}
      /\ page = 0 /\ y = 0 /\ bullet = NoBullet /\ next = 1 /\ wide = FALSE /\ total = 0
      /\ rows = <<>> /\ footers = <<>> /\ answer = <<>>
  BY DEF Init, ReportInit, ReportIdle
<1>2. history \in Seq(Events) /\ Len(history) <= MaxEvents /\ given \in Seq(Signer)
  <2>1. CASE ReportIdle
    <3>1. history = <<>> /\ given = <<>> /\ Len(<<>>) = 0
      BY <2>1 DEF ReportIdle
    <3>2. <<>> \in Seq(Events) /\ <<>> \in Seq(Signer)
      BY EmptySeq
    <3>3. Len(history) = 0
      BY <3>1
    <3> QED
      BY <3>1, <3>2, <3>3, AuditReportAssumption
  <2>2. CASE ReportInit
    <3>1. PICK r \in Asked : history = r.history /\ given = r.given
      BY <2>2 DEF ReportInit
    <3> QED
      BY <3>1, AuditReportAssumption
  <2> QED
    BY <2>1, <2>2 DEF Init
<1>3. document \in [final: Files \cup {Gone, NoFile}, original: Files \cup {Gone}]
  BY AuditReportAssumption DEF Init, ReportInit, ReportIdle
<1>4. <<>> \in Seq(Row) /\ <<>> \in Seq(Footer) /\ <<>> \in Seq({"source", "report"} \X Nat)
  BY EmptySeq
<1>5. ReportTypeOK
  <2>1. 1 \in 1 .. MaxEvents + 1
    BY AuditReportAssumption
  <2> QED
    <3>1. page \in Nat /\ y \in Int /\ total \in Nat /\ next \in 1 .. MaxEvents + 1
      BY <1>1, <2>1
    <3>2. wide \in BOOLEAN /\ bullet \in Int \cup {NoBullet}
      BY <1>1
    <3>3. pass \in {"idle", "asked", "measure", "draw", "append", "answered", "refused"}
      BY <1>1
    <3>4. rows \in Seq(Row) /\ footers \in Seq(Footer) /\ answer \in Seq({"source", "report"} \X Nat)
      BY <1>1, <1>4, Zenon
    <3> QED
      BY <1>2, <1>3, <3>1, <3>2, <3>3, <3>4 DEF ReportTypeOK
<1>6. NothingYet /\ PagesTurned /\ LastRow /\ FootersSoFar /\ AnswerSoFar /\ Measured
  BY <1>1 DEF NothingYet, PagesTurned, LastRow, FootersSoFar, AnswerSoFar, Measured, HasPages, InPass
<1> QED
  BY <1>1, <1>5, <1>6, NoRows DEF ReportInv

\* A pass that starts has drawn nothing and is at the top of page 1.
LEMMA PassStarts ==
  ASSUME ReportTypeOK, Source # Gone, NEW name, name \in {"measure", "draw"}, StartPass(name),
         UNCHANGED <<document, history, given, answer>>, answer = <<>>, total' \in Nat,
         name = "draw" =>
           \E places : /\ Layout(places, Len(history))
                       /\ places[Len(history) + 1].page = total'
  PROVE  ReportInv'
<1>1. /\ pass' = name /\ page' = 1 /\ y' = FirstRowTop /\ bullet' = NoBullet /\ next' = 1
      /\ wide' = FALSE /\ rows' = <<>> /\ footers' = <<>> /\ answer' = <<>>
      /\ document' = document /\ history' = history /\ given' = given
  BY DEF StartPass
<1>2. Source' = Source /\ Height' = Height /\ FirstRowTop' = FirstRowTop /\ NextRowTop' = NextRowTop
  BY <1>1 DEF Source, Height, FirstRowTop, NextRowTop
<1>3. Source \in Files /\ Height \in Nat
  BY SourceTyped DEF ReportTypeOK
<1>4. Len(history) \in Nat
  BY LenProperties DEF ReportTypeOK
<1>5. FirstRowTop \in Int
  BY <1>3 DEF FirstRowTop
<1>6. <<>> \in Seq(Row) /\ <<>> \in Seq(Footer)
  BY EmptySeq
<1>7. ReportTypeOK'
  <2>1. 1 \in 1 .. MaxEvents + 1 /\ 1 \in Nat
    BY AuditReportAssumption
  <2> QED
    BY <1>1, <1>5, <1>6, <2>1 DEF ReportTypeOK
<1>8. NothingYet' /\ AnswerSoFar'
  BY <1>1 DEF NothingYet, AnswerSoFar, HasPages, InPass
<1>9. PagesTurned' /\ LastRow'
  <2>1. Len(rows') = 0
    BY <1>1
  <2> QED
    BY <1>1, <1>2, <1>3, <1>4, <2>1 DEF PagesTurned, LastRow, HasPages, InPass
<1>10. RowsFollow(rows, Source.height)'
  BY <1>1, NoRows
<1>11. FootersSoFar'
  <2>1. 1 .. 1 - 1 = {}
    OBVIOUS
  <2>2. <<>> = [i \in 1 .. 1 - 1 |-> [page |-> i, of |-> total']]
    BY <2>1
  <2> QED
    BY <1>1, <2>2 DEF FootersSoFar, InPass
<1>12. Measured'
  <2>1. CASE name = "measure"
    <3>1. Here' = [page |-> 1, y |-> FirstRowTop, wide |-> FALSE]
      BY <1>1, Zenon DEF Here
    <3>2. PICK places : places[1] = Here'
      <4>1. \A h : [i \in {1} |-> h][1] = h
        OBVIOUS
      <4> QED
        BY <4>1
    <3>3. \A i \in 1 .. next' - 1 : places[i + 1] = Placed(places[i], history[i])'
      BY <1>1
    <3>4. Layout(places, next - 1)'
      BY <1>2, <3>1, <3>2, <3>3 DEF Layout
    <3> QED
      BY <1>1, <2>1, <3>2, <3>4 DEF Measured
  <2>2. CASE name = "draw"
    <3>1. PICK places : Layout(places, Len(history)) /\ places[Len(history) + 1].page = total'
      BY <2>2
    <3>2. places[1] = Here'
      BY <1>1, <3>1 DEF Here, Layout
    <3>3. Layout(places, Len(history))'
      BY <1>1, <1>2, <3>1 DEF Layout, Placed
    <3> QED
      BY <1>1, <2>2, <3>1, <3>2, <3>3 DEF Measured
  <2> QED
    BY <2>1, <2>2
<1> QED
  BY <1>7, <1>8, <1>9, <1>10, <1>11, <1>12 DEF ReportInv

\* A row that is drawn where the layout places it.
LEMMA RowDrawn ==
  ASSUME ReportInv, Drawing,
         NEW onPage \in Nat, NEW t \in Int, NEW across \in BOOLEAN, NEW link \in Int \cup {NoBullet},
         DrawRow(onPage, t, across, link), page' = onPage, wide' = across,
         UNCHANGED <<document, history, given, pass, total, answer>>,
         onPage >= 1, across <=> onPage > 1,
         footers' = [i \in 1 .. onPage - 1 |-> [page |-> i, of |-> total]],
         Here' = Placed(Here, history[next]),
         2 * Source.height >= 124 + 94 + RowGap + Floor
           => t - MeasureRow(history[next], across).height >= Floor,
         Len(rows) = 0 => link = NoBullet,
         Len(rows) > 0 =>
           \/ onPage = page + 1 /\ link = NoBullet
           \/ onPage = page /\ t = y /\ link = bullet
  PROVE  ReportInv'
<1> DEFINE height == MeasureRow(history[next], across).height
           at     == t - height \div 2 + 8
           row    == [event |-> next, page |-> onPage, top |-> t, bottom |-> t - height,
                      bullet |-> at, link |-> link, wide |-> across]
<1>1. /\ rows' = Append(rows, row) /\ y' = t - height - RowGap /\ bullet' = at /\ next' = next + 1
      /\ document' = document /\ history' = history /\ given' = given /\ pass' = pass
      /\ total' = total /\ answer' = answer
  BY DEF DrawRow
<1>2. ReportTypeOK /\ PagesTurned /\ LastRow /\ RowsFollow(rows, Source.height) /\ AnswerSoFar /\ Measured
  BY DEF ReportInv
<1>3. /\ next \in 1 .. MaxEvents + 1 /\ rows \in Seq(Row) /\ history \in Seq(Events)
      /\ Len(history) <= MaxEvents /\ page \in Nat /\ y \in Int
      /\ pass \in {"measure", "draw"} /\ next <= Len(history)
  BY <1>2 DEF ReportTypeOK, Drawing
<1>4. Len(rows) = next - 1 /\ Source \in Files /\ Len(history) \in Nat /\ MaxEvents \in Nat
  BY <1>2, <1>3, LenProperties, AuditReportAssumption DEF PagesTurned, HasPages, InPass
<1>5. next \in 1 .. MaxEvents /\ next \in 1 .. Len(history) /\ next + 1 \in 1 .. MaxEvents + 1
  BY <1>3, <1>4
<1>6. height \in 80 .. 94
  <2>1. history[next] \in Events
    BY <1>3, <1>5, LenProperties
  <2> QED
    BY <2>1, RowHeights
<1> HIDE DEF height
<1>7. /\ at \in Int /\ at >= (t - height - RowGap) + 60 /\ at <= t - 32
      /\ t - height \in Int /\ t - height - RowGap \in Int
      /\ (t - height - RowGap) + RowGap = t - height
  BY <1>6 DEF RowGap
<1> HIDE DEF at
<1>8. row \in Row
  BY <1>5, <1>7 DEF Row
<1>9. /\ row.event = next /\ row.page = onPage /\ row.top = t /\ row.bottom = t - height
      /\ row.bullet = at /\ row.link = link /\ row.wide = across
  OBVIOUS
<1> HIDE DEF row
<1>10. Source' = Source /\ FirstRowTop' = FirstRowTop /\ NextRowTop' = NextRowTop
  BY <1>1 DEF Source, Height, FirstRowTop, NextRowTop
<1>11. rows' \in Seq(Row) /\ Len(rows') = next /\ rows'[next] = row
  BY <1>1, <1>3, <1>4, <1>8, AppendProperties
<1>12. ReportTypeOK'
  <2>1. footers' \in Seq(Footer)
    <3>1. \A i \in 1 .. onPage - 1 : [page |-> i, of |-> total] \in Footer
      BY <1>2 DEF ReportTypeOK, Footer
    <3>2. footers' \in [1 .. onPage - 1 -> Footer]
      BY <3>1
    <3> QED
      BY FunctionIsSeq, <3>2
  <2>2. y' \in Int /\ bullet' \in Int \cup {NoBullet} /\ next' \in 1 .. MaxEvents + 1
    BY <1>1, <1>5, <1>7
  <2> QED
    BY <1>1, <1>2, <1>11, <2>1, <2>2 DEF ReportTypeOK
<1>13. NothingYet' /\ FootersSoFar' /\ AnswerSoFar'
  BY <1>1, <1>2, <1>3 DEF NothingYet, FootersSoFar, AnswerSoFar, HasPages, InPass
<1>14. PagesTurned'
  <2>1. next' - 1 = next /\ next' <= Len(history') + 1
    BY <1>1, <1>3, <1>4
  <2> QED
    BY <1>1, <1>3, <1>4, <1>10, <1>11, <2>1 DEF PagesTurned
<1>15. LastRow'
  <2>1. Len(rows') # 0
    BY <1>3, <1>11
  <2>2. rows'[Len(rows')] = row
    BY <1>11
  <2>3. row.page = page' /\ row.bottom = y' + RowGap /\ row.bullet = bullet' /\ bullet' >= y' + 60
    BY <1>1, <1>7, <1>9
  <2> QED
    BY <1>1, <1>7, <2>1, <2>2, <2>3 DEF LastRow
<1>16. RowsFollow(rows, Source.height)'
  <2>1. Source.height \in Nat
    BY <1>4, AuditReportAssumption
  <2>2. row.event = Len(rows) + 1
    BY <1>3, <1>4, <1>9
  <2>3. Len(rows) > 0 =>
          \/ row.page = rows[Len(rows)].page + 1 /\ row.link = NoBullet
          \/ /\ row.page = rows[Len(rows)].page /\ row.top < rows[Len(rows)].bottom
             /\ row.link = rows[Len(rows)].bullet /\ row.link - 18 > row.bullet + 18
    <3> SUFFICES ASSUME Len(rows) > 0
                 PROVE  \/ row.page = rows[Len(rows)].page + 1 /\ row.link = NoBullet
                        \/ /\ row.page = rows[Len(rows)].page /\ row.top < rows[Len(rows)].bottom
                           /\ row.link = rows[Len(rows)].bullet /\ row.link - 18 > row.bullet + 18
      OBVIOUS
    <3>1. Len(rows) # 0
      BY <1>3, <1>4
    <3>2. /\ rows[Len(rows)].page = page /\ rows[Len(rows)].bottom = y + RowGap
          /\ rows[Len(rows)].bullet = bullet /\ bullet \in Int /\ bullet >= y + 60
      BY <1>2, <1>3, <3>1 DEF LastRow, InPass
    <3>3. CASE onPage = page + 1 /\ link = NoBullet
      BY <1>9, <3>2, <3>3
    <3>4. CASE onPage = page /\ t = y /\ link = bullet
      <4>1. t < y + RowGap /\ bullet - 18 > at + 18
        BY <1>3, <1>7, <3>2, <3>4 DEF RowGap
      <4> QED
        BY <1>9, <3>2, <3>4, <4>1
    <3> QED
      BY <3>3, <3>4
  <2>4. RowsFollow(Append(rows, row), Source.height)
    <3>1. Len(rows) = 0 => row.link = NoBullet
      BY <1>9
    <3>2. row.wide <=> row.page > 1
      BY <1>9
    <3>3. 2 * Source.height >= 124 + 94 + RowGap + Floor => row.bottom >= Floor
      BY <1>9 DEF height
    <3> QED
      BY <1>2, <1>3, <1>8, <2>1, <2>2, <2>3, <3>1, <3>2, <3>3, RowsFollowOn
  <2> QED
    BY <1>1, <1>10, <2>4
<1>17. Measured'
  <2>1. ASSUME NEW places, places[next] = Here, Layout(places, next - 1)
        PROVE  \E more : Layout(more, next - 1)' /\ more[next'] = Here'
    <3>1. PICK more : \A i \in 1 .. next + 1 : more[i] = IF i = next + 1 THEN Here' ELSE places[i]
      <4>1. \A h : \E m : \A i \in 1 .. next + 1 : m[i] = IF i = next + 1 THEN h ELSE places[i]
        <5> TAKE h
        <5> WITNESS [i \in 1 .. next + 1 |-> IF i = next + 1 THEN h ELSE places[i]]
        <5> QED
          OBVIOUS
      <4> QED
        BY <4>1
    <3>2. more[next + 1] = Here' /\ more[1] = places[1]
      BY <1>5, <3>1
    <3>3. \A i \in 1 .. next : more[i + 1] = Placed(more[i], history[i])
      <4> TAKE i \in 1 .. next
      <4>1. i \in 1 .. next + 1 /\ i + 1 \in 1 .. next + 1 /\ i # next + 1
        BY <1>5
      <4>2. CASE i = next
        BY <2>1, <3>1, <3>2, <4>1, <4>2
      <4>3. CASE i # next
        <5>1. i \in 1 .. next - 1 /\ i + 1 # next + 1
          BY <1>5, <4>3
        <5> QED
          BY <2>1, <3>1, <4>1, <5>1 DEF Layout
      <4> QED
        BY <4>2, <4>3
    <3>4. \A i \in 1 .. next' - 1 : more[i + 1] = Placed(more[i], history[i])'
      <4>1. next' - 1 = next
        BY <1>1, <1>5
      <4> QED
        BY <1>1, <1>10, <3>3, <4>1 DEF Placed
    <3>5. more[1] = [page |-> 1, y |-> FirstRowTop', wide |-> FALSE]
      BY <1>10, <2>1, <3>2 DEF Layout
    <3> QED
      BY <1>1, <3>2, <3>4, <3>5 DEF Layout
  <2>2. CASE pass = "measure"
    <3>1. PICK places : Layout(places, next - 1) /\ places[next] = Here
      BY <1>2, <2>2 DEF Measured
    <3>2. PICK more : Layout(more, next - 1)' /\ more[next'] = Here'
      BY <2>1, <3>1
    <3> QED
      BY <1>1, <2>2, <3>2 DEF Measured
  <2>3. CASE pass = "draw"
    <3>1. PICK places : /\ Layout(places, Len(history)) /\ places[next] = Here
                        /\ places[Len(history) + 1].page = total
      BY <1>2, <2>3 DEF Measured
    <3>2. places[next + 1] = Here'
      BY <1>5, <3>1 DEF Layout
    <3>3. Layout(places, Len(history))'
      BY <1>1, <1>10, <3>1 DEF Layout, Placed
    <3> QED
      BY <1>1, <2>3, <3>1, <3>2, <3>3 DEF Measured
  <2> QED
    BY <1>3, <2>2, <2>3
<1> QED
  BY <1>12, <1>13, <1>14, <1>15, <1>16, <1>17 DEF ReportInv

\* The footer of the page in hand comes after those of the pages before it.
LEMMA FooterDrawn ==
  ASSUME page \in Nat, page >= 1, total \in Nat, footers \in Seq(Footer), DrawFooter,
         footers = [i \in 1 .. page - 1 |-> [page |-> i, of |-> total]]
  PROVE  footers' = [i \in 1 .. page |-> [page |-> i, of |-> total]]
<1> DEFINE F == [i \in 1 .. page |-> [page |-> i, of |-> total]]
<1>1. F \in Seq(Footer) /\ Len(F) = page
  <2>1. F \in [1 .. page -> Footer]
    BY DEF Footer
  <2> QED
    BY FunctionIsSeq, <2>1
<1>2. Len(footers) = page - 1 /\ footers' = Append(footers, [page |-> page, of |-> total])
  <2>1. page - 1 \in Nat
    OBVIOUS
  <2>2. footers \in [1 .. page - 1 -> {[page |-> i, of |-> total] : i \in 1 .. page - 1}]
    OBVIOUS
  <2>3. Len(footers) = page - 1
    BY FunctionIsSeq, <2>1, <2>2
  <2> QED
    BY <2>3 DEF DrawFooter
<1>3. [page |-> page, of |-> total] \in Footer
  BY DEF Footer
<1>4. /\ footers' \in Seq(Footer) /\ Len(footers') = page /\ footers'[page] = [page |-> page, of |-> total]
      /\ \A i \in 1 .. page - 1 : footers'[i] = footers[i]
  BY <1>2, <1>3, AppendProperties
<1>5. \A i \in 1 .. page : footers'[i] = F[i]
  <2> TAKE i \in 1 .. page
  <2>1. CASE i = page
    BY <1>4, <2>1
  <2>2. CASE i # page
    <3>1. i \in 1 .. page - 1
      BY <2>2
    <3> QED
      BY <1>4, <3>1
  <2> QED
    BY <2>1, <2>2
<1> HIDE DEF F
<1>6. footers' = F
  <2>1. DOMAIN F = 1 .. page /\ F = [i \in 1 .. page |-> F[i]]
    BY <1>1, LenProperties
  <2>2. footers' = [i \in 1 .. page |-> footers'[i]]
    BY <1>4, LenProperties
  <2> QED
    BY <1>5, <2>1, <2>2
<1> QED
  BY <1>6 DEF F

\* append_audit_page refuses, or measures from the first row of page 1 on.
LEMMA AskForReportKeeps ==
  ReportInv /\ AskForReport => ReportInv'
<1> SUFFICES ASSUME ReportInv, AskForReport PROVE ReportInv'
  OBVIOUS
<1>1. /\ ReportTypeOK /\ NothingYet /\ AnswerSoFar /\ pass = "asked" /\ total' = total
      /\ UNCHANGED <<document, history, given, answer>>
  BY DEF ReportInv, AskForReport
<1>2. rows = <<>> /\ footers = <<>> /\ answer = <<>>
  BY <1>1 DEF NothingYet, AnswerSoFar, HasPages, InPass
<1>3. CASE Source = Gone \/ Source.pages = 0
  <2>1. pass' = "refused" /\ UNCHANGED <<page, y, bullet, next, wide, rows, footers>>
    BY <1>3 DEF AskForReport
  <2>2. ReportTypeOK'
    BY <1>1, <2>1 DEF ReportTypeOK
  <2>3. /\ NothingYet' /\ PagesTurned' /\ LastRow' /\ FootersSoFar' /\ AnswerSoFar' /\ Measured'
    BY <1>1, <1>2, <2>1 DEF NothingYet, PagesTurned, LastRow, FootersSoFar, AnswerSoFar, Measured, HasPages, InPass
  <2> QED
    BY <1>2, <2>1, <2>2, <2>3, NoRows DEF ReportInv
<1>4. CASE ~(Source = Gone \/ Source.pages = 0)
  <2>1. StartPass("measure")
    BY <1>4 DEF AskForReport
  <2> QED
    BY <1>1, <1>2, <1>4, <2>1, PassStarts DEF ReportTypeOK
<1> QED
  BY <1>3, <1>4

\* A row that fits is drawn under the last one, linked to it.
LEMMA RowOnThisPageKeeps ==
  ReportInv /\ RowOnThisPage => ReportInv'
<1> SUFFICES ASSUME ReportInv, RowOnThisPage PROVE ReportInv'
  OBVIOUS
<1> DEFINE height == MeasureRow(history[next], wide).height
<1>1. /\ Drawing /\ ~NeedsNewPage /\ DrawRow(page, y, wide, bullet)
      /\ UNCHANGED <<document, history, given, pass, page, wide, total, footers, answer>>
  BY DEF RowOnThisPage
<1>2. /\ page \in Nat /\ y \in Int /\ wide \in BOOLEAN /\ bullet \in Int \cup {NoBullet}
      /\ next \in 1 .. MaxEvents + 1 /\ history \in Seq(Events) /\ Len(history) <= MaxEvents
      /\ pass \in {"measure", "draw"} /\ next <= Len(history)
  BY <1>1 DEF ReportInv, ReportTypeOK, Drawing
<1>3. /\ page >= 1 /\ (wide <=> page > 1)
      /\ footers = [i \in 1 .. page - 1 |-> [page |-> i, of |-> total]]
  BY <1>2 DEF ReportInv, PagesTurned, FootersSoFar, HasPages, InPass
<1>4. height \in 80 .. 94
  <2>1. Len(history) \in Nat /\ next \in 1 .. Len(history)
    BY <1>2, LenProperties, AuditReportAssumption
  <2>2. history[next] \in Events
    BY <1>2, <2>1, LenProperties
  <2> QED
    BY <1>2, <2>2, RowHeights
<1>5. ~(y - (height + RowGap) < Floor) /\ y' = y - height - RowGap
  BY <1>1 DEF NeedsNewPage, DrawRow
<1>6. Here' = Placed(Here, history[next])
  <2>1. Placed(Here, history[next]) = [page |-> page, y |-> y - height - RowGap, wide |-> wide]
    BY <1>5 DEF Placed, Here
  <2>2. Here' = [page |-> page, y |-> y - height - RowGap, wide |-> wide]
    BY <1>1, <1>5 DEF Here
  <2> QED
    BY <2>1, <2>2
<1>7. y - height >= Floor
  <2> HIDE DEF height
  <2> QED
    BY <1>2, <1>4, <1>5 DEF RowGap, Floor
<1>8. LastRow
  BY DEF ReportInv
<1>9. Len(rows) = 0 => bullet = NoBullet
  BY <1>2, <1>8 DEF LastRow, InPass
<1>10. Len(rows) > 0 =>
         \/ page = page + 1 /\ bullet = NoBullet
         \/ page = page /\ y = y /\ bullet = bullet
  OBVIOUS
<1>11. footers' = [i \in 1 .. page - 1 |-> [page |-> i, of |-> total]]
  BY <1>1, <1>3
<1> QED
  BY <1>1, <1>2, <1>3, <1>6, <1>7, <1>9, <1>10, <1>11, RowDrawn

\* A row that does not fit closes its page with a footer and begins the next.
LEMMA RowOnNewPageKeeps ==
  ReportInv /\ RowOnNewPage => ReportInv'
<1> SUFFICES ASSUME ReportInv, RowOnNewPage PROVE ReportInv'
  OBVIOUS
<1> DEFINE height == MeasureRow(history[next], TRUE).height
<1>1. /\ Drawing /\ NeedsNewPage /\ DrawRow(page + 1, NextRowTop, TRUE, NoBullet)
      /\ page' = page + 1 /\ wide' = TRUE /\ DrawFooter
      /\ UNCHANGED <<document, history, given, pass, total, answer>>
  BY DEF RowOnNewPage
<1>2. /\ page \in Nat /\ total \in Nat
      /\ next \in 1 .. MaxEvents + 1 /\ history \in Seq(Events) /\ Len(history) <= MaxEvents
      /\ pass \in {"measure", "draw"} /\ next <= Len(history) /\ footers \in Seq(Footer)
  BY <1>1 DEF ReportInv, ReportTypeOK, Drawing
<1>3. /\ page >= 1 /\ Source \in Files
      /\ footers = [i \in 1 .. page - 1 |-> [page |-> i, of |-> total]]
  BY <1>2 DEF ReportInv, PagesTurned, FootersSoFar, HasPages, InPass
<1>4. height \in 80 .. 94
  <2>1. Len(history) \in Nat /\ next \in 1 .. Len(history)
    BY <1>2, LenProperties, AuditReportAssumption
  <2>2. history[next] \in Events
    BY <1>2, <2>1, LenProperties
  <2> QED
    BY <2>2, RowHeights
<1>5. Source.height \in Nat
  BY <1>3, AuditReportAssumption
<1>6. NextRowTop = 2 * Source.height - 124 /\ NextRowTop \in Int
  BY <1>5 DEF NextRowTop, Height
<1>7. y' = NextRowTop - height - RowGap
  BY <1>1 DEF DrawRow
<1>8. Here' = Placed(Here, history[next])
  <2>1. y - (MeasureRow(history[next], wide).height + RowGap) < Floor
    BY <1>1 DEF NeedsNewPage
  <2>2. Placed(Here, history[next]) = [page |-> page + 1, y |-> NextRowTop - height - RowGap, wide |-> TRUE]
    BY <2>1 DEF Placed, Here
  <2>3. Here' = [page |-> page + 1, y |-> NextRowTop - height - RowGap, wide |-> TRUE]
    BY <1>1, <1>7, Zenon DEF Here
  <2> QED
    BY <2>2, <2>3
<1>9. 2 * Source.height >= 124 + 94 + RowGap + Floor => NextRowTop - height >= Floor
  <2> HIDE DEF height
  <2> QED
    BY <1>4, <1>5, <1>6 DEF RowGap, Floor
<1>10. footers' = [i \in 1 .. (page + 1) - 1 |-> [page |-> i, of |-> total]]
  <2>1. (page + 1) - 1 = page
    BY <1>2
  <2> QED
    BY <1>1, <1>2, <1>3, <2>1, FooterDrawn
<1>11. page + 1 \in Nat /\ page + 1 >= 1 /\ (TRUE <=> page + 1 > 1)
  BY <1>2, <1>3
<1>12. Len(rows) > 0 =>
         \/ page + 1 = page + 1 /\ NoBullet = NoBullet
         \/ page + 1 = page /\ NextRowTop = y /\ NoBullet = bullet
  OBVIOUS
<1> QED
  BY <1>1, <1>6, <1>8, <1>9, <1>10, <1>11, <1>12, RowDrawn

\* The drawing pass starts over, with the layout that has been measured.
LEMMA EndMeasuringKeeps ==
  ReportInv /\ EndMeasuring => ReportInv'
<1> SUFFICES ASSUME ReportInv, EndMeasuring PROVE ReportInv'
  OBVIOUS
<1>1. /\ pass = "measure" /\ next > Len(history) /\ total' = page /\ StartPass("draw")
      /\ UNCHANGED <<document, history, given, answer>>
  BY DEF EndMeasuring
<1>2. ReportTypeOK /\ PagesTurned /\ AnswerSoFar /\ Measured
  BY DEF ReportInv
<1>3. /\ Source \in Files /\ next <= Len(history) + 1 /\ page \in Nat
      /\ history \in Seq(Events) /\ next \in 1 .. MaxEvents + 1 /\ answer = <<>>
  BY <1>1, <1>2 DEF PagesTurned, AnswerSoFar, HasPages, InPass, ReportTypeOK
<1>4. next = Len(history) + 1 /\ next - 1 = Len(history)
  <2>1. Len(history) \in Nat /\ next \in Int
    BY <1>3, LenProperties, AuditReportAssumption
  <2> QED
    BY <1>1, <1>3, <2>1
<1>5. Source # Gone
  BY <1>3, AuditReportAssumption
<1>6. PICK places : Layout(places, next - 1) /\ places[next] = Here
  BY <1>1, <1>2 DEF Measured
<1>7. Layout(places, Len(history)) /\ places[Len(history) + 1].page = total'
  BY <1>1, <1>4, <1>6 DEF Here
<1> QED
  BY <1>1, <1>2, <1>3, <1>5, <1>7, PassStarts

\* The last footer: the drawing pass has come to the page that was counted.
LEMMA EndDrawingKeeps ==
  ReportInv /\ EndDrawing => ReportInv'
<1> SUFFICES ASSUME ReportInv, EndDrawing PROVE ReportInv'
  OBVIOUS
<1>1. /\ pass = "draw" /\ next > Len(history) /\ DrawFooter /\ pass' = "append"
      /\ UNCHANGED <<document, history, given, page, y, bullet, next, wide, total, rows, answer>>
  BY DEF EndDrawing
<1>2. /\ ReportTypeOK /\ PagesTurned /\ FootersSoFar /\ AnswerSoFar /\ Measured
      /\ RowsFollow(rows, Source.height)
  BY DEF ReportInv
<1>3. /\ Source \in Files /\ next <= Len(history) + 1 /\ page \in Nat /\ page >= 1 /\ total \in Nat
      /\ history \in Seq(Events) /\ next \in 1 .. MaxEvents + 1 /\ answer = <<>> /\ footers \in Seq(Footer)
      /\ footers = [i \in 1 .. page - 1 |-> [page |-> i, of |-> total]]
  BY <1>1, <1>2 DEF PagesTurned, AnswerSoFar, FootersSoFar, HasPages, InPass, ReportTypeOK
<1>4. next = Len(history) + 1
  <2>1. Len(history) \in Nat /\ next \in Int
    BY <1>3, LenProperties, AuditReportAssumption
  <2> QED
    BY <1>1, <1>3, <2>1
<1>5. total = page
  <2>1. PICK places : places[next] = Here /\ places[Len(history) + 1].page = total
    BY <1>1, <1>2 DEF Measured
  <2> QED
    BY <1>4, <2>1 DEF Here
<1>6. footers' = [i \in 1 .. page |-> [page |-> i, of |-> page]]
  BY <1>1, <1>3, <1>5, FooterDrawn
<1>7. Source' = Source
  BY <1>1 DEF Source
<1>8. ReportTypeOK'
  <2>1. footers' \in [1 .. page -> Footer]
    BY <1>3, <1>6 DEF Footer
  <2>2. footers' \in Seq(Footer)
    BY <1>3, FunctionIsSeq, <2>1
  <2> QED
    BY <1>1, <1>2, <2>2 DEF ReportTypeOK
<1>9. NothingYet' /\ LastRow' /\ FootersSoFar' /\ AnswerSoFar' /\ Measured'
  BY <1>1, <1>3, <1>6 DEF NothingYet, LastRow, FootersSoFar, AnswerSoFar, Measured, HasPages, InPass
<1>10. PagesTurned'
  BY <1>1, <1>2, <1>4, <1>5, <1>7 DEF PagesTurned, HasPages, InPass
<1> QED
  BY <1>1, <1>2, <1>7, <1>8, <1>9, <1>10 DEF ReportInv

\* The pages of the report are put after those of the source.
LEMMA AppendReportKeeps ==
  ReportInv /\ AppendReport => ReportInv'
<1> SUFFICES ASSUME ReportInv, AppendReport PROVE ReportInv'
  OBVIOUS
<1> DEFINE first == [i \in 1 .. Source.pages |-> <<"source", i>>]
           then  == [i \in 1 .. page |-> <<"report", i>>]
<1>1. /\ pass = "append" /\ pass' = "answered" /\ answer' = first \o then
      /\ UNCHANGED <<document, history, given, page, y, bullet, next, wide, total, rows, footers>>
  BY DEF AppendReport
<1>2. /\ ReportTypeOK /\ PagesTurned /\ FootersSoFar /\ RowsFollow(rows, Source.height)
  BY DEF ReportInv
<1>3. Source \in Files /\ page \in Nat
  BY <1>1, <1>2 DEF PagesTurned, HasPages, ReportTypeOK
<1>4. answer' \in Seq({"source", "report"} \X Nat)
  <2>1. Source.pages \in Nat
    BY <1>3, AuditReportAssumption
  <2>2. /\ first \in [1 .. Source.pages -> {"source", "report"} \X Nat]
        /\ then \in [1 .. page -> {"source", "report"} \X Nat]
    BY <1>3, <2>1
  <2>3. first \in Seq({"source", "report"} \X Nat) /\ then \in Seq({"source", "report"} \X Nat)
    BY <1>3, FunctionIsSeq, <2>1, <2>2
  <2> HIDE DEF first, then
  <2> QED
    BY <1>1, <2>3, ConcatProperties
<1>5. Source' = Source
  BY <1>1 DEF Source
<1>6. ReportTypeOK'
  BY <1>1, <1>2, <1>4 DEF ReportTypeOK
<1>7. NothingYet' /\ LastRow' /\ Measured' /\ FootersSoFar' /\ PagesTurned'
  BY <1>1, <1>2, <1>5
     DEF NothingYet, LastRow, FootersSoFar, Measured, PagesTurned, HasPages, InPass
<1>8. AnswerSoFar'
  BY <1>1, <1>5 DEF AnswerSoFar
<1> QED
  BY <1>1, <1>2, <1>5, <1>6, <1>7, <1>8 DEF ReportInv

\* Stamping leaves the report alone.
LEMMA ReportStays ==
  ReportInv /\ UNCHANGED reportVars => ReportInv'
<1> SUFFICES ASSUME ReportInv, UNCHANGED reportVars PROVE ReportInv'
  OBVIOUS
<1>1. UNCHANGED <<document, history, given, pass, page, y, bullet, next, wide, total, rows, footers, answer>>
  BY DEF reportVars
<1>2. Source' = Source /\ FirstRowTop' = FirstRowTop /\ NextRowTop' = NextRowTop /\ Here' = Here
  BY <1>1 DEF Source, FirstRowTop, NextRowTop, Height, Here
<1>3. ReportTypeOK'
  BY <1>1 DEF ReportInv, ReportTypeOK
<1>4. NothingYet' /\ PagesTurned' /\ LastRow' /\ FootersSoFar' /\ AnswerSoFar'
  BY <1>1, <1>2 DEF ReportInv, NothingYet, PagesTurned, LastRow, FootersSoFar, AnswerSoFar, HasPages, InPass
<1>5. RowsFollow(rows, Source.height)'
  BY <1>1, <1>2 DEF ReportInv
<1>6. Measured'
  <2>1. \A places, n : Layout(places, n) => Layout(places, n)'
    BY <1>1, <1>2 DEF Layout, Placed
  <2> QED
    BY <1>1, <1>2, <2>1 DEF ReportInv, Measured
<1> QED
  BY <1>3, <1>4, <1>5, <1>6 DEF ReportInv

\* Every step of the engine keeps the invariant.
LEMMA ReportSteps ==
  ReportInv /\ [Next]_vars => ReportInv'
<1> SUFFICES ASSUME ReportInv, [Next]_vars PROVE ReportInv'
  OBVIOUS
<1>1. CASE UNCHANGED reportVars
  BY <1>1, ReportStays
<1>2. CASE ReportNext
  BY <1>2, AskForReportKeeps, RowOnThisPageKeeps, RowOnNewPageKeeps, EndMeasuringKeeps, EndDrawingKeeps,
     AppendReportKeeps DEF ReportNext
<1> QED
  BY <1>1, <1>2 DEF Next, vars

\* The cards below each other, for any number of signers and any page.
LEMMA CardsFit ==
  ASSUME NEW h \in Nat, NEW n \in Nat, NEW t \in Int, t = 2 * h - 400
  PROVE  LET details == DetailsCard(t)
             card    == SignersCard(details.bottom - 32, n)
             note    == SuccessNote(card.bottom - 32)
         IN  /\ card.top < details.bottom /\ note.top < card.bottom
             /\ \A i \in 1 .. n : card.lines[i].top < card.top /\ card.lines[i].bottom > card.bottom
             /\ \A i \in 1 .. n - 1 : card.lines[i + 1].top < card.lines[i].bottom
             /\ h >= 530 + 40 * n => note.bottom >= Floor
<1> DEFINE details == DetailsCard(t)
           card    == SignersCard(details.bottom - 32, n)
           note    == SuccessNote(card.bottom - 32)
<1>1. details.bottom = t - 329
  BY DEF DetailsCard
<1>2. /\ card.top = details.bottom - 32 /\ card.bottom = details.bottom - 32 - 80 * n - 68
      /\ \A i \in 1 .. n : /\ card.lines[i].top = details.bottom - 32 - 60 - 80 * (i - 1) + 2
                           /\ card.lines[i].bottom = details.bottom - 32 - 124 - 80 * (i - 1)
  BY DEF SignersCard
<1>3. note.top = card.bottom - 32 /\ note.bottom = card.bottom - 32 - 88
  BY DEF SuccessNote
<1> HIDE DEF details, card, note
<1>4. details.bottom \in Int /\ card.bottom \in Int
  BY <1>1, <1>2
<1>5. card.top < details.bottom /\ note.top < card.bottom
  BY <1>2, <1>3, <1>4
<1>6. \A i \in 1 .. n : card.lines[i].top < card.top /\ card.lines[i].bottom > card.bottom
  BY <1>2, <1>4
<1>7. \A i \in 1 .. n - 1 : card.lines[i + 1].top < card.lines[i].bottom
  <2> TAKE i \in 1 .. n - 1
  <2>1. i \in 1 .. n /\ i + 1 \in 1 .. n /\ (i + 1) - 1 = i
    OBVIOUS
  <2>2. /\ card.lines[i + 1].top = details.bottom - 32 - 60 - 80 * i + 2
        /\ card.lines[i].bottom = details.bottom - 32 - 124 - 80 * (i - 1)
    BY <1>2, <2>1
  <2> QED
    BY <1>4, <2>2
<1>8. h >= 530 + 40 * n => note.bottom >= Floor
  BY <1>1, <1>2, <1>3, <1>4 DEF Floor
<1> QED
  BY <1>5, <1>6, <1>7, <1>8 DEF details, card, note

\* The cards of page 1, for the signers that are listed and the file they signed.
LEMMA PanelFits ==
  ASSUME Source \in Files, history \in Seq(Events), Len(history) <= MaxEvents, given \in Seq(Signer)
  PROVE  PanelHolds
<1>1. Len(ResolvedSigners) \in Nat
  BY SignersTyped, LenProperties
<1>2. Source.height \in Nat
  BY AuditReportAssumption
<1>3. FirstRowTop + 44 + 8 \in Int /\ FirstRowTop + 44 + 8 = 2 * Source.height - 400
  BY <1>2 DEF FirstRowTop, Height
<1> QED
  BY <1>1, <1>2, <1>3, CardsFit DEF PanelHolds

\* The pages of the report come after those of the source.
LEMMA AnswerOrdered ==
  ASSUME ReportInv
  PROVE  ReportComesLast
<1> SUFFICES ASSUME pass = "answered"
             PROVE  /\ Len(answer) = Source.pages + footers[Len(footers)].of
                    /\ \A i, j \in DOMAIN answer :
                         i < j => answer[i][1] = "source" \/ answer[j][1] = "report"
                    /\ document.final \in Files => Source = document.final
  BY DEF ReportComesLast
<1> DEFINE m     == Source.pages
           first == [i \in 1 .. m |-> <<"source", i>>]
           then  == [i \in 1 .. page |-> <<"report", i>>]
           A     == {"source", "report"} \X Nat
<1>1. /\ Source \in Files /\ page \in Nat /\ page >= 1
      /\ footers = [i \in 1 .. page |-> [page |-> i, of |-> page]] /\ answer = first \o then
  BY DEF ReportInv, ReportTypeOK, PagesTurned, FootersSoFar, AnswerSoFar, HasPages
<1>2. m \in Nat
  BY <1>1, AuditReportAssumption
<1>3. document.final \in Files => Source = document.final
  BY AuditReportAssumption DEF Source
<1> HIDE DEF m
<1>4. first \in [1 .. m -> A] /\ then \in [1 .. page -> A]
  BY <1>1, <1>2
<1>5. first \in Seq(A) /\ Len(first) = m /\ then \in Seq(A) /\ Len(then) = page
  BY <1>1, <1>2, FunctionIsSeq, <1>4
<1>6. /\ \A i \in 1 .. m : first[i][1] = "source"
      /\ \A i \in 1 .. page : then[i][1] = "report"
  OBVIOUS
<1> HIDE DEF first, then, A
<1>7. /\ answer \in Seq(A) /\ Len(answer) = m + page
      /\ \A i \in 1 .. m : answer[i] = first[i]
      /\ \A i \in m + 1 .. m + page : answer[i] = then[i - m]
  <2>1. answer = first \o then
    BY <1>1 DEF first, then, m
  <2>2. /\ first \o then \in Seq(A) /\ Len(first \o then) = Len(first) + Len(then)
        /\ \A i \in 1 .. Len(first) + Len(then) :
             (first \o then)[i] = IF i <= Len(first) THEN first[i] ELSE then[i - Len(first)]
    BY <1>5, ConcatProperties
  <2>3. \A i \in 1 .. m + page : answer[i] = IF i <= m THEN first[i] ELSE then[i - m]
    BY <1>5, <2>1, <2>2
  <2>4. /\ \A i \in 1 .. m : i \in 1 .. m + page /\ i <= m
        /\ \A i \in m + 1 .. m + page : i \in 1 .. m + page /\ ~(i <= m)
    BY <1>1, <1>2
  <2> QED
    BY <1>5, <2>1, <2>2, <2>3, <2>4
<1>8. footers[Len(footers)].of = page
  <2>1. footers \in [1 .. page -> {[page |-> i, of |-> page] : i \in 1 .. page}]
    BY <1>1
  <2>2. Len(footers) = page
    BY <1>1, FunctionIsSeq, <2>1
  <2>3. page \in 1 .. page
    BY <1>1
  <2> QED
    BY <1>1, <2>2, <2>3
<1>9. ASSUME NEW i \in DOMAIN answer, NEW j \in DOMAIN answer, i < j
       PROVE  answer[i][1] = "source" \/ answer[j][1] = "report"
  <2>1. i \in 1 .. m + page /\ j \in 1 .. m + page
    BY <1>7, LenProperties
  <2>2. CASE i \in 1 .. m
    BY <1>6, <1>7, <2>2
  <2>3. CASE i \notin 1 .. m
    <3>1. j \in m + 1 .. m + page /\ j - m \in 1 .. page
      BY <1>1, <1>2, <1>9, <2>1, <2>3
    <3> QED
      BY <1>6, <1>7, <3>1
  <2> QED
    BY <2>2, <2>3
<1> QED
  BY <1>3, <1>7, <1>8, <1>9 DEF m

\* The invariant says of the report all that ReportIsWhole does.
LEMMA ReportFollows ==
  ReportInv => ReportIsWhole
<1> SUFFICES ASSUME ReportInv PROVE ReportIsWhole
  OBVIOUS
<1>1. ReportTypeOK /\ PagesTurned /\ NothingYet /\ FootersSoFar /\ RowsFollow(rows, Source.height)
  BY DEF ReportInv
<1>2. rows \in Seq(Row) /\ history \in Seq(Events) /\ Len(history) \in Nat /\ next \in Nat
  BY <1>1, LenProperties, AuditReportAssumption DEF ReportTypeOK
<1>3. DOMAIN rows = 1 .. Len(rows) /\ Len(rows) \in Nat
  BY <1>2, LenProperties
<1>4. TimelineIsWhole
  <2>1. pass = "append" => Len(rows) = Len(history)
    BY <1>1, <1>2 DEF PagesTurned, HasPages
  <2> QED
    BY <1>1, <1>3, <2>1 DEF TimelineIsWhole, RowsFollow
<1>5. LinksStayOnPage
  <2> SUFFICES ASSUME NEW i \in 1 .. Len(rows)
               PROVE  IF i > 1 /\ rows[i - 1].page = rows[i].page
                      THEN rows[i].link = rows[i - 1].bullet /\ rows[i].link - 18 > rows[i].bullet + 18
                      ELSE rows[i].link = NoBullet
    BY <1>3 DEF LinksStayOnPage
  <2>1. CASE i = 1
    BY <1>1, <1>3, <2>1 DEF RowsFollow
  <2>2. CASE i # 1
    <3>1. i - 1 \in 1 .. Len(rows) - 1 /\ (i - 1) + 1 = i /\ i > 1 /\ i - 1 \in 1 .. Len(rows)
      BY <1>3, <2>2
    <3>2. rows[i - 1].page \in Nat
      <4>1. rows[i - 1] \in Row
        BY <1>2, <3>1, LenProperties
      <4> QED
        BY <4>1 DEF Row
    <3>3. \/ rows[i].page = rows[i - 1].page + 1 /\ rows[i].link = NoBullet
          \/ /\ rows[i].page = rows[i - 1].page
             /\ rows[i].link = rows[i - 1].bullet /\ rows[i].link - 18 > rows[i].bullet + 18
      BY <1>1, <3>1 DEF RowsFollow
    <3> QED
      BY <3>1, <3>2, <3>3
  <2> QED
    BY <2>1, <2>2
<1>6. FootersCount
  BY <1>1 DEF FootersCount, FootersSoFar
<1>7. PanelHolds
  <2>1. CASE pass = "draw"
    BY <1>1, <2>1, PanelFits DEF PagesTurned, HasPages, InPass, ReportTypeOK
  <2>2. CASE pass # "draw"
    BY <2>2 DEF PanelHolds
  <2> QED
    BY <2>1, <2>2
<1>8. ReportComesLast
  BY AnswerOrdered
<1> QED
  BY <1>1, <1>4, <1>5, <1>6, <1>7, <1>8 DEF ReportIsWhole

\* Whatever the history and the file, the report of append_audit_page is complete:
\* every event once and in order, rows on the page and linked downwards, footers with
\* the true number of pages, cards in their frames, all of it after the signed file.
THEOREM AuditReportIsWhole == Spec => []ReportIsWhole
<1>1. Spec => []ReportInv
  BY ReportStarts, ReportSteps, PTL DEF Spec
<1> QED
  BY <1>1, ReportFollows, PTL

-----------------------------------------------------------------------------
(* The signers of the history                                              *)

\* The events up to n that say w has signed.
SigningsOf(events, n, w) == {k \in 1 .. n : events[k].signer = w}

\* What SignersListedOnce says, of a list that has been derived up to event n.
ListedOnce(list, events, n) ==
  /\ \A i \in 1 .. Len(list) : list[i].who \in People /\ SigningsOf(events, n, list[i].who) # {}
  /\ \A w \in People : SigningsOf(events, n, w) # {} => \E i \in 1 .. Len(list) : list[i].who = w
  /\ \A i \in 1 .. Len(list) : \A m \in SigningsOf(events, n, list[i].who) : m <= list[i].event
  /\ \A i, j \in 1 .. Len(list) : i < j =>
       \E k \in SigningsOf(events, n, list[i].who) :
         \A m \in SigningsOf(events, n, list[j].who) : k < m

\* An event that says that somebody has signed adds to the signings of nobody else.
LEMMA OneMoreSigning ==
  ASSUME NEW events, NEW n \in Nat \ {0}, NEW w
  PROVE  /\ events[n].signer = w => SigningsOf(events, n, w) = SigningsOf(events, n - 1, w) \cup {n}
         /\ events[n].signer # w => SigningsOf(events, n, w) = SigningsOf(events, n - 1, w)
         /\ \A k \in SigningsOf(events, n - 1, w) : k \in Nat /\ k < n
<1>1. 1 .. n = (1 .. n - 1) \cup {n} /\ \A k \in 1 .. n - 1 : k \in Nat /\ k < n
  OBVIOUS
<1> QED
  BY <1>1 DEF SigningsOf

\* What is said of the list stays true with the signing of event n noted in it.
LEMMA NotedListsOnce ==
  ASSUME NEW list \in Seq(Signer), NEW events, NEW n \in Nat \ {0}, events[n].signer \in People,
         Signed(events, n) \in Signer, ListedOnce(list, events, n - 1)
  PROVE  ListedOnce(Noted(list, Signed(events, n)), events, n)
<1> DEFINE s      == Signed(events, n)
           v      == events[n].signer
           Old    == [w \in People |-> SigningsOf(events, n - 1, w)]
           New    == [w \in People |-> SigningsOf(events, n, w)]
           who    == [i \in 1 .. Len(list) |-> list[i].who]
           event  == [i \in 1 .. Len(list) |-> list[i].event]
           l      == Len(list)
           more   == Noted(list, s)
<1>1. l \in Nat /\ DOMAIN list = 1 .. l /\ list \in [1 .. l -> Signer]
  BY LenProperties
<1>2. s.who = v /\ s.event = n /\ v \in People /\ s \in Signer
  BY DEF Signed
<1>3. New[v] = Old[v] \cup {n}
  <2>1. SigningsOf(events, n, v) = SigningsOf(events, n - 1, v) \cup {n}
    BY OneMoreSigning
  <2>2. New[v] = SigningsOf(events, n, v) /\ Old[v] = SigningsOf(events, n - 1, v)
    BY <1>2
  <2> HIDE DEF New, Old
  <2> QED
    BY <2>1, <2>2
<1>4. ASSUME NEW w \in People, w # v PROVE New[w] = Old[w]
  BY <1>4, OneMoreSigning
<1>5. ASSUME NEW w \in People, NEW k \in Old[w] PROVE k \in Nat /\ k < n /\ k \in New[w]
  <2>1. k \in Nat /\ k < n
    BY OneMoreSigning
  <2>2. k \in New[w]
    BY <1>3, <1>4
  <2> QED
    BY <2>1, <2>2
<1>6. ASSUME NEW w \in People, NEW k \in New[w] PROVE k \in Old[w] \/ k = n
  <2> HIDE DEF New, Old
  <2>1. CASE w = v
    BY <1>3, <1>6, <2>1
  <2>2. CASE w # v
    BY <1>4, <1>6, <2>2
  <2> QED
    BY <2>1, <2>2
<1>7. \A i \in 1 .. l : who[i] \in People /\ Old[who[i]] # {}
  BY DEF ListedOnce
<1>8. \A w \in People : Old[w] # {} => \E i \in 1 .. l : who[i] = w
  BY DEF ListedOnce
<1>9. \A i \in 1 .. l : \A m \in Old[who[i]] : m <= event[i]
  BY <1>7 DEF ListedOnce
<1>10. ASSUME NEW i \in 1 .. l, NEW j \in 1 .. l, i < j
       PROVE  \E k \in Old[who[i]] : \A m \in Old[who[j]] : k < m
  BY <1>7, <1>10 DEF ListedOnce
<1>11. \A i \in 1 .. l : list[i].who = who[i] /\ list[i].event = event[i]
  OBVIOUS
<1>0. \A w \in People : New[w] = SigningsOf(events, n, w)
  OBVIOUS
<1> HIDE DEF s, v, Old, New, who, event, l
<1>12. CASE \E i \in 1 .. l : who[i] = v
  <2> DEFINE F == [i \in 1 .. l |-> IF list[i].who = s.who THEN s ELSE list[i]]
             at == [i \in 1 .. l |-> IF who[i] = v THEN n ELSE event[i]]
  <2>1. more = F
    BY <1>1, <1>2, <1>11, <1>12 DEF Noted
  <2>2. Len(F) = l
    <3>1. F \in [1 .. l -> Signer]
      BY <1>1, <1>2
    <3> QED
      BY <1>1, <3>1, FunctionIsSeq
  <2>3. \A i \in 1 .. l : F[i].who = who[i] /\ F[i].event = at[i]
    BY <1>2, <1>11
  <2> HIDE DEF F
  <2>4. \A i \in 1 .. l : New[who[i]] # {}
    BY <1>5, <1>7
  <2>5. ASSUME NEW w \in People, New[w] # {} PROVE \E i \in 1 .. l : who[i] = w
    <3>1. CASE w = v
      BY <1>12, <3>1
    <3>2. CASE w # v
      BY <1>4, <1>8, <2>5, <3>2
    <3> QED
      BY <3>1, <3>2
  <2>6. ASSUME NEW i \in 1 .. l, NEW m \in New[who[i]] PROVE m <= at[i]
    <3>1. CASE who[i] = v
      BY <1>2, <1>5, <1>6, <3>1
    <3>2. CASE who[i] # v
      <4>1. m \in Old[who[i]]
        BY <1>4, <1>7, <3>2
      <4> QED
        BY <1>9, <3>2, <4>1
    <3> QED
      BY <3>1, <3>2
  <2>7. ASSUME NEW i \in 1 .. l, NEW j \in 1 .. l, i < j
        PROVE  \E k \in New[who[i]] : \A m \in New[who[j]] : k < m
    <3>1. PICK k \in Old[who[i]] : \A m \in Old[who[j]] : k < m
      BY <1>10, <2>7
    <3>2. k \in New[who[i]] /\ k < n
      BY <1>5, <1>7
    <3>3. \A m \in New[who[j]] : k < m
      BY <1>6, <1>7, <3>1, <3>2
    <3> QED
      BY <3>2, <3>3
  <2> HIDE DEF at
  <2> QED
    <3>1. \A i \in 1 .. l : F[i].who \in People /\ SigningsOf(events, n, F[i].who) # {}
      BY <1>0, <1>7, <2>3, <2>4
    <3>2. \A w \in People : SigningsOf(events, n, w) # {} => \E i \in 1 .. l : F[i].who = w
      BY <1>0, <2>3, <2>5
    <3>3. \A i \in 1 .. l : \A m \in SigningsOf(events, n, F[i].who) : m <= F[i].event
      BY <1>0, <1>7, <2>3, <2>6
    <3>4. \A i, j \in 1 .. l : i < j =>
            \E k \in SigningsOf(events, n, F[i].who) :
              \A m \in SigningsOf(events, n, F[j].who) : k < m
      BY <1>0, <1>7, <2>3, <2>7
    <3>5. ListedOnce(F, events, n)
      BY <2>2, <3>1, <3>2, <3>3, <3>4 DEF ListedOnce
    <3> QED
      BY <2>1, <3>5 DEF s
<1>13. CASE ~\E i \in 1 .. l : who[i] = v
  <2> DEFINE name == [i \in 1 .. l + 1 |-> IF i = l + 1 THEN v ELSE who[i]]
             at   == [i \in 1 .. l + 1 |-> IF i = l + 1 THEN n ELSE event[i]]
  <2>1. more = Append(list, s)
    BY <1>1, <1>2, <1>11, <1>13 DEF Noted
  <2>2. /\ Len(more) = l + 1 /\ more[l + 1] = s
        /\ \A i \in 1 .. l : more[i] = list[i]
    BY <1>2, <2>1, AppendProperties DEF l
  <2> HIDE DEF more
  <2>3. \A i \in 1 .. l + 1 : i # l + 1 => i \in 1 .. l
    BY <1>1
  <2>4. \A i \in 1 .. l + 1 : more[i].who = name[i] /\ more[i].event = at[i]
    BY <1>2, <1>11, <2>2, <2>3
  <2>5. l + 1 \in 1 .. l + 1 /\ \A i \in 1 .. l : i \in 1 .. l + 1 /\ i # l + 1
    BY <1>1
  <2>6. name[l + 1] = v /\ at[l + 1] = n /\ \A i \in 1 .. l : name[i] = who[i] /\ at[i] = event[i]
    BY <2>5
  <2> HIDE DEF name, at
  <2>7. Old[v] = {} /\ New[v] = {n} /\ \A i \in 1 .. l : New[who[i]] = Old[who[i]]
    <3>1. Old[v] = {}
      BY <1>2, <1>8, <1>13
    <3> QED
      BY <1>3, <1>4, <1>7, <1>13, <3>1
  <2>8. \A i \in 1 .. l + 1 : name[i] \in People /\ New[name[i]] # {}
    BY <1>2, <1>7, <2>3, <2>6, <2>7
  <2>9. ASSUME NEW w \in People, New[w] # {} PROVE \E i \in 1 .. l + 1 : name[i] = w
    <3>1. CASE w = v
      BY <2>5, <2>6, <3>1
    <3>2. CASE w # v
      <4>1. PICK i \in 1 .. l : who[i] = w
        BY <1>4, <1>8, <2>9, <3>2
      <4> QED
        BY <2>5, <2>6, <4>1
    <3> QED
      BY <3>1, <3>2
  <2>10. ASSUME NEW i \in 1 .. l + 1, NEW m \in New[name[i]] PROVE m <= at[i]
    <3>1. CASE i = l + 1
      BY <2>6, <2>7, <3>1
    <3>2. CASE i # l + 1
      BY <1>9, <2>3, <2>6, <2>7, <3>2
    <3> QED
      BY <3>1, <3>2
  <2>11. ASSUME NEW i \in 1 .. l + 1, NEW j \in 1 .. l + 1, i < j
         PROVE  \E k \in New[name[i]] : \A m \in New[name[j]] : k < m
    <3>1. i \in 1 .. l /\ name[i] = who[i] /\ New[who[i]] = Old[who[i]]
      BY <1>1, <2>6, <2>7, <2>11
    <3>2. CASE j = l + 1
      <4>1. PICK k : k \in Old[who[i]]
        BY <1>7, <3>1
      <4>2. k < n
        BY <1>5, <1>7, <3>1, <4>1
      <4> QED
        BY <2>6, <2>7, <3>1, <3>2, <4>1, <4>2
    <3>3. CASE j # l + 1
      <4>1. j \in 1 .. l /\ name[j] = who[j] /\ New[who[j]] = Old[who[j]]
        BY <2>3, <2>6, <2>7, <3>3
      <4> QED
        BY <1>10, <2>11, <3>1, <4>1
    <3> QED
      BY <3>2, <3>3
  <2> QED
    <3>1. \A i \in 1 .. l + 1 : more[i].who \in People /\ SigningsOf(events, n, more[i].who) # {}
      BY <1>0, <2>4, <2>8
    <3>2. \A w \in People : SigningsOf(events, n, w) # {} => \E i \in 1 .. l + 1 : more[i].who = w
      BY <1>0, <2>4, <2>9
    <3>3. \A i \in 1 .. l + 1 : \A m \in SigningsOf(events, n, more[i].who) : m <= more[i].event
      BY <1>0, <2>4, <2>8, <2>10
    <3>4. \A i, j \in 1 .. l + 1 : i < j =>
            \E k \in SigningsOf(events, n, more[i].who) :
              \A m \in SigningsOf(events, n, more[j].who) : k < m
      <4> SUFFICES ASSUME NEW i \in 1 .. l + 1, NEW j \in 1 .. l + 1, i < j
                   PROVE  \E k \in SigningsOf(events, n, more[i].who) :
                            \A m \in SigningsOf(events, n, more[j].who) : k < m
        OBVIOUS
      <4>1. /\ SigningsOf(events, n, more[i].who) = New[name[i]]
            /\ SigningsOf(events, n, more[j].who) = New[name[j]]
        BY <1>0, <2>4, <2>8
      <4> QED
        BY <2>11, <4>1
    <3>5. ListedOnce(more, events, n)
      BY <2>2, <3>1, <3>2, <3>3, <3>4 DEF ListedOnce
    <3> QED
      BY <3>5 DEF more, s
<1> QED
  BY <1>12, <1>13

\* What is said of the list is true of what _derive_signers_from_history returns.
LEMMA DerivedListsOnce ==
  ASSUME NEW events \in Seq(Events), Len(events) <= MaxEvents
  PROVE  /\ DerivedSigners(events) \in Seq(Signer)
         /\ ListedOnce(DerivedSigners(events), events, Len(events))
<1> DEFINE m == Len(events)
<1>1. PICK f \in [0 .. m -> Seq(Signer)] :
        /\ f[0] = <<>> /\ DerivedSigners(events) = f[m]
        /\ \A n \in 1 .. m :
             /\ events[n].signer = NoPerson => f[n] = f[n - 1]
             /\ events[n].signer # NoPerson => f[n] = Noted(f[n - 1], Signed(events, n))
  BY DerivedIteration
<1>2. m \in Nat /\ m \in 0 .. m
  BY LenProperties
<1> DEFINE T == {n \in 0 .. m : ListedOnce(f[n], events, n)}
<1>3. 0 \in T
  <2>1. Len(<<>>) = 0 /\ 1 .. 0 = {} /\ \A w : SigningsOf(events, 0, w) = {}
    BY EmptySeq DEF SigningsOf
  <2>2. ListedOnce(<<>>, events, 0)
    BY <2>1 DEF ListedOnce
  <2> QED
    BY <1>1, <1>2, <2>2
<1>4. ASSUME NEW n \in 1 .. m, n - 1 \in T PROVE n \in T
  <2>1. /\ n \in Nat \ {0} /\ n - 1 \in 0 .. m /\ f[n - 1] \in Seq(Signer)
        /\ ListedOnce(f[n - 1], events, n - 1)
    BY <1>2, <1>4
  <2>2. events[n] \in Events /\ n \in 0 .. MaxEvents
    BY <1>2, <2>1, LenProperties, AuditReportAssumption
  <2>3. events[n].signer \in People \cup {NoPerson}
    BY <2>2, AuditReportAssumption
  <2>4. CASE events[n].signer = NoPerson
    <3>1. f[n] = f[n - 1]
      BY <1>1, <2>4
    <3>2. \A w \in People : SigningsOf(events, n, w) = SigningsOf(events, n - 1, w)
      <4> TAKE w \in People
      <4>1. events[n].signer # w
        BY <2>4, AuditReportAssumption
      <4> QED
        BY <2>1, <4>1, OneMoreSigning
    <3>3. \A i \in 1 .. Len(f[n - 1]) : f[n - 1][i].who \in People
      BY <2>1 DEF ListedOnce
    <3>4. ListedOnce(f[n - 1], events, n)
      BY <2>1, <3>2, <3>3 DEF ListedOnce
    <3> QED
      BY <3>1, <3>4
  <2>5. CASE events[n].signer # NoPerson
    <3>1. f[n] = Noted(f[n - 1], Signed(events, n))
      BY <1>1, <2>5
    <3>2. events[n].signer \in People
      BY <2>3, <2>5
    <3>3. Signed(events, n) \in Signer
      BY <2>2, <3>2 DEF Signed, Signer
    <3>4. ListedOnce(Noted(f[n - 1], Signed(events, n)), events, n)
      BY <2>1, <3>2, <3>3, NotedListsOnce
    <3> QED
      BY <3>1, <3>4
  <2> QED
    BY <2>4, <2>5
<1>5. T = 0 .. m
  <2>1. T \in SUBSET (0 .. m)
    OBVIOUS
  <2> HIDE DEF T, m
  <2> QED
    BY <1>2, <1>3, <1>4, <2>1, UpTo
<1> QED
  BY <1>1, <1>2, <1>5

\* The list shows everybody who has signed once, by first mention, with the last event.
LEMMA SignersFollow ==
  ASSUME ReportTypeOK
  PROVE  SignersListedOnce
<1> SUFFICES ASSUME given = <<>> PROVE SignersListedOnce
  BY DEF SignersListedOnce
<1> DEFINE list        == ResolvedSigners
           Signings(w) == {n \in DOMAIN history : history[n].signer = w}
           First(w)    == CHOOSE n \in Signings(w) : \A m \in Signings(w) : n <= m
<1>1. history \in Seq(Events) /\ Len(history) <= MaxEvents /\ DOMAIN history = 1 .. Len(history)
  BY LenProperties DEF ReportTypeOK
<1>2. list = DerivedSigners(history)
  BY DEF ResolvedSigners
<1>3. list \in Seq(Signer) /\ ListedOnce(list, history, Len(history))
  BY <1>1, <1>2, DerivedListsOnce
<1>4. \A w : Signings(w) = SigningsOf(history, Len(history), w)
  BY <1>1 DEF SigningsOf
<1>5. DOMAIN list = 1 .. Len(list)
  BY <1>3, LenProperties
<1>6. \A w : Signings(w) \in SUBSET Nat
  BY <1>1
<1>7. \A w : Signings(w) # {} => First(w) \in Signings(w) /\ \A m \in Signings(w) : First(w) <= m
  <2> TAKE w
  <2> HAVE Signings(w) # {}
  <2>1. \E n \in Signings(w) : \A m \in Signings(w) : n <= m
    BY <1>6, LeastNumber
  <2> QED
    BY <2>1
<1> HIDE DEF list
<1>8. /\ \A i \in 1 .. Len(list) : list[i].who \in People /\ Signings(list[i].who) # {}
      /\ \A w \in People : Signings(w) # {} => \E i \in 1 .. Len(list) : list[i].who = w
      /\ \A i \in 1 .. Len(list) : \A m \in Signings(list[i].who) : m <= list[i].event
  BY <1>3, <1>4 DEF ListedOnce
<1>9. {list[i].who : i \in DOMAIN list} = {w \in People : Signings(w) # {}}
  BY <1>5, <1>8
<1>10. ASSUME NEW i \in DOMAIN list, NEW j \in DOMAIN list, i < j
       PROVE  First(list[i].who) < First(list[j].who)
  <2> DEFINE v == list[i].who
             w == list[j].who
  <2>1. Signings(v) # {} /\ Signings(w) # {}
    BY <1>5, <1>8
  <2>2. PICK k \in Signings(v) : \A m \in Signings(w) : k < m
    <3>1. i \in 1 .. Len(list) /\ j \in 1 .. Len(list)
      BY <1>5
    <3>2. \E k \in SigningsOf(history, Len(history), v) :
            \A m \in SigningsOf(history, Len(history), w) : k < m
      BY <1>3, <1>10, <3>1 DEF ListedOnce
    <3>3. Signings(v) = SigningsOf(history, Len(history), v) /\ Signings(w) = SigningsOf(history, Len(history), w)
      BY <1>4
    <3> QED
      BY <3>2, <3>3
  <2>3. First(v) \in Nat /\ First(w) \in Nat /\ k \in Nat /\ First(v) <= k /\ k < First(w)
    BY <1>6, <1>7, <2>1, <2>2
  <2> QED
    BY <2>3
<1> QED
  BY <1>5, <1>8, <1>9, <1>10 DEF SignersListedOnce, list

\* Without a list from the caller, the report names everybody who is said to have
\* signed exactly once, in the order of their first mention, with their last signing.
THEOREM EverySignerListedOnce == Spec => []SignersListedOnce
<1>1. Spec => []ReportInv
  BY ReportStarts, ReportSteps, PTL DEF Spec
<1>2. ReportInv => SignersListedOnce
  BY SignersFollow DEF ReportInv
<1> QED
  BY <1>1, <1>2, PTL

-----------------------------------------------------------------------------
(* Texts *)

\* The rows of the report show the beginning of the texts of their events.
LEMMA TitlesFollow ==
  ASSUME ReportInv
  PROVE  TitlesAreTruthful
<1> SUFFICES ASSUME NEW i \in DOMAIN rows
             PROVE  LET text  == history[rows[i].event].text
                        room  == IF rows[i].wide THEN PageChars ELSE ColumnChars
                        lines == MeasureRow(history[rows[i].event], rows[i].wide).lines
                    IN  /\ WrappedWell(text, room)
                        /\ ShowsBeginning(lines, text, room)
                        /\ \A k \in DOMAIN lines :
                             LineWidth(lines[k].pieces) + (IF lines[k].dots THEN Ellipsis ELSE 0) <= room
  BY Zenon DEF TitlesAreTruthful
<1> DEFINE event == history[rows[i].event]
           room == IF rows[i].wide THEN PageChars ELSE ColumnChars
           lines == MeasureRow(event, rows[i].wide).lines
<1>1. event.text \in Texts
  <2>1. history \in Seq(Events) /\ rows \in Seq(Row)
    BY DEF ReportInv, ReportTypeOK
  <2>2. rows[i].event \in 1 .. Len(history)
    <3>1. i \in 1 .. Len(rows) /\ Len(rows) \in Nat /\ Len(history) \in Nat
      BY <2>1, LenProperties
    <3>2. rows[i].event = i
      BY <3>1 DEF ReportInv, RowsFollow
    <3>3. rows # <<>>
      BY <3>1
    <3>4. Len(rows) = next - 1 /\ next <= Len(history) + 1
      BY <3>3 DEF ReportInv, NothingYet, PagesTurned
    <3>5. next \in Nat
      BY AuditReportAssumption DEF ReportInv, ReportTypeOK
    <3> QED
      BY <3>1, <3>2, <3>4, <3>5
  <2>3. event \in Events
    BY <2>1, <2>2, LenProperties
  <2> QED
    BY <2>3, AuditReportAssumption DEF Texts
<1>2. room \in Nat /\ Ellipsis <= room
  BY AuditReportAssumption DEF Ellipsis
<1>3. lines = Wrap2Lines(event.text, room)
  BY DEF MeasureRow
<1> HIDE DEF event, room, lines
<1>4. WrappedWell(event.text, room)
  BY <1>1, <1>2, AlwaysWrappedWell
<1>5. /\ ShowsBeginning(lines, event.text, room)
      /\ \A k \in DOMAIN lines :
           LineWidth(lines[k].pieces) + (IF lines[k].dots THEN Ellipsis ELSE 0) <= room
  BY <1>1, <1>2, <1>3, TitleIsTruthful
<1> QED
  BY <1>4, <1>5 DEF event, room, lines

\* Whatever is written in notes and events, and however wide the paper and the
\* columns are, the lines show the text from its beginning, filled well and inside a
\* place that has room for a character; a title that lacks a letter says so.
THEOREM TextCutVisibly == Spec => []TextIsTruthful
<1>1. Init => NotesInv
  <2> SUFFICES ASSUME Init PROVE NotesInv
    OBVIOUS
  <2>1. StampInv /\ marks = <<>>
    BY StampStarts DEF Init, StampInit, StampIdle
  <2>2. \A j \in DOMAIN marks : marks[j].kind # "text"
    BY <2>1
  <2>3. NotesWell(marks)
    BY <2>2, NoNotes
  <2> QED
    BY <2>1, <2>3 DEF NotesInv
<1>2. NotesInv /\ [Next]_vars => NotesInv'
  <2> SUFFICES ASSUME NotesInv, [Next]_vars PROVE NotesInv'
    OBVIOUS
  <2>1. StampNext \/ UNCHANGED stampVars
    BY DEF Next, vars
  <2> QED
    BY <2>1, NotesStep
<1>3. Spec => []ReportInv
  BY ReportStarts, ReportSteps, PTL DEF Spec
<1>4. NotesInv /\ ReportInv => TextIsTruthful
  BY NotesInvInside, TitlesFollow DEF TextIsTruthful
<1> QED
  BY <1>1, <1>2, <1>3, <1>4, PTL DEF Spec

=============================================================================
