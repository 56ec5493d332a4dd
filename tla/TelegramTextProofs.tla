------------------------- MODULE TelegramTextProofs -------------------------
(***************************************************************************)
(* The parts of a text fit their messages, lose nothing, keep short lines  *)
(* whole and are refused only for blanks at a border, for all texts.       *)
(* The invariant says which interval of the text the parts cover; a step   *)
(* of the loop appends a sequence that covers the next interval.           *)
(***************************************************************************)
EXTENDS TelegramText, SequenceTheorems, WellFoundedInduction, TLAPS

(* Least and greatest elements                                             *)

LEMMA Least ==
  ASSUME NEW T \in SUBSET Nat, T # {}
  PROVE  \E x \in T : \A y \in T : x <= y
<1> DEFINE R == {p \in Nat \X Nat : p[1] < p[2]}
<1>1. IsWellFoundedOn(R, Nat)  BY NatLessThanWellFounded, Zenon DEF OpToRel
<1>2. \A x, y \in Nat : <<x, y>> \in R <=> x < y  OBVIOUS
<1> HIDE DEF R
<1>3. PICK x \in T : \A y \in T : ~(<<y, x>> \in R)  BY <1>1, WFMin
<1>4. \A y \in T : ~(y < x)  BY <1>2, <1>3
<1> QED  BY <1>4

LEMMA Greatest ==
  ASSUME NEW b \in Int, NEW T \in SUBSET Int, T # {}, \A t \in T : t <= b
  PROVE  \E x \in T : \A y \in T : y <= x
<1> DEFINE U == {n \in Nat : b - n \in T}
<1>1. ASSUME NEW t \in T  PROVE b - t \in U
  <2>1. b - t \in Nat /\ b - (b - t) = t  OBVIOUS
  <2> QED  BY <2>1
<1>2. U \in SUBSET Nat /\ U # {}  BY <1>1
<1>3. \A u \in U : b - u \in T  OBVIOUS
<1> HIDE DEF U
<1>4. PICK u \in U : \A v \in U : u <= v  BY <1>2, Least
<1>5. b - u \in T /\ u \in Nat  BY <1>2, <1>3
<1>6. \A t \in T : t <= b - u  BY <1>1, <1>2, <1>4, <1>5
<1> QED  BY <1>5, <1>6

(* Multiples of the limit                                                  *)

LEMMA MulGrows ==
  ASSUME NEW m \in Nat, NEW n \in Nat, NEW l \in Nat, m <= n
  PROVE  m * l \in Nat /\ n * l \in Nat /\ m * l <= n * l
OBVIOUS

LEMMA DivBetween ==
  ASSUME NEW n \in Nat, NEW l \in Nat \ {0}
  PROVE  /\ n \div l \in Nat
         /\ (n \div l) * l <= n
         /\ n < (n \div l + 1) * l
OBVIOUS

LEMMA DivGrows ==
  ASSUME NEW m \in Nat, NEW n \in Nat, NEW l \in Nat \ {0}, m <= n
  PROVE  m \div l <= n \div l
OBVIOUS
-----------------------------------------------------------------------------
(* Lines                                                                   *)

LEMMA LineEndIs ==
  ASSUME text \in Seq(Chars), NEW a \in 1..Len(text)
  PROVE  /\ LineEnd(a) \in a..Len(text)
         /\ LineEnd(a) = Len(text) \/ text[LineEnd(a)] = Newline
         /\ \A i \in a..(LineEnd(a) - 1) : text[i] # Newline
<1> DEFINE T == {e \in a..Len(text) : e = Len(text) \/ text[e] = Newline}
<1>1. Len(text) \in Nat  OBVIOUS
<1>2. T \in SUBSET Nat /\ Len(text) \in T  BY <1>1
<1>3. PICK e \in T : \A d \in T : e <= d  BY <1>2, Least
<1>4. \A i \in a..(e - 1) : text[i] # Newline  BY <1>1, <1>3
<1>5. e \in a..Len(text) /\ (e = Len(text) \/ text[e] = Newline)  BY <1>3
<1> QED  BY <1>4, <1>5 DEF LineEnd

\* The next line begins at a border.
LEMMA NextBorder ==
  ASSUME text \in Seq(Chars), NEW a \in 1..Len(text)
  PROVE  LineEnd(a) + 1 \in Borders
<1>1. Len(text) \in Nat  OBVIOUS
<1>2. LineEnd(a) \in a..Len(text)
      /\ (LineEnd(a) = Len(text) \/ text[LineEnd(a)] = Newline)
  BY LineEndIs
<1>3. CASE LineEnd(a) = Len(text)  BY <1>3 DEF Borders
<1>4. CASE LineEnd(a) # Len(text) /\ text[LineEnd(a)] = Newline
  <2>1. LineEnd(a) + 1 \in 1..Len(text) /\ (LineEnd(a) + 1) - 1 = LineEnd(a)
    BY <1>1, <1>2, <1>4
  <2> QED  BY <1>4, <2>1 DEF Borders, LineBegins
<1> QED  BY <1>2, <1>3, <1>4

\* No border is inside a line.
LEMMA BordersApart ==
  ASSUME text \in Seq(Chars), NEW a \in LineBegins, NEW b \in Borders
  PROVE  b <= a \/ LineEnd(a) < b
<1> SUFFICES ASSUME a < b, b <= LineEnd(a)  PROVE FALSE
  BY LineEndIs DEF LineBegins, Borders
<1>1. /\ a \in 1..Len(text) /\ Len(text) \in Nat
      /\ LineEnd(a) \in a..Len(text)
      /\ \A i \in a..(LineEnd(a) - 1) : text[i] # Newline
  BY LineEndIs DEF LineBegins
<1>2. b \in 1..Len(text) /\ text[b - 1] = Newline
  BY <1>1 DEF Borders, LineBegins
<1> QED  BY <1>1, <1>2

LEMMA RStripIs ==
  ASSUME NEW a \in Nat \ {0}, NEW b \in Int, a - 1 <= b
  PROVE  /\ RStrip(a, b) \in Part
         /\ RStrip(a, b).first = a /\ ~RStrip(a, b).truncated
         /\ RStrip(a, b).last \in (a - 1)..b
         /\ \A i \in (RStrip(a, b).last + 1)..b : Blank(i)
<1> DEFINE T == {k \in (a - 1)..b : k = a - 1 \/ ~Blank(k)}
<1>1. T \in SUBSET Int /\ a - 1 \in T /\ \A t \in T : t <= b  OBVIOUS
<1>2. PICK k \in T : \A j \in T : j <= k  BY <1>1, Greatest
<1>3. k \in (a - 1)..b /\ (k = a - 1 \/ ~Blank(k))  BY <1>2
<1>4. ASSUME NEW i \in (k + 1)..b  PROVE Blank(i)
  <2>1. i \in (a - 1)..b /\ ~(i <= k)  BY <1>3
  <2> QED  BY <1>2, <2>1
<1> DEFINE last == CHOOSE k_1 \in (a - 1)..b :
                     /\ \A i \in (k_1 + 1)..b : Blank(i)
                     /\ k_1 = a - 1 \/ ~Blank(k_1)
<1>5. last \in (a - 1)..b /\ \A i \in (last + 1)..b : Blank(i)  BY <1>3, <1>4
<1>6. RStrip(a, b) = [first |-> a, truncated |-> FALSE, last |-> last]
  BY DEF RStrip
<1> HIDE DEF last
<1> QED  BY <1>5, <1>6 DEF Part
-----------------------------------------------------------------------------
\* Text and limit stay as they are, and so does where blanks do harm.
LEMMA BordersSame ==
  ASSUME UNCHANGED <<text, limit>>
  PROVE  /\ \A i : LineEnd(i)' = LineEnd(i) /\ (LongLineAt(i)' <=> LongLineAt(i))
         /\ LineBegins' = LineBegins /\ Borders' = Borders
         /\ \A i : MayBeginAt(i)' <=> MayBeginAt(i)
         /\ BlankAtBorder' <=> BlankAtBorder
<1>1. ASSUME NEW i  PROVE Blank(i)' <=> Blank(i)  BY DEF Blank
<1>2. ASSUME NEW i  PROVE LineEnd(i)' = LineEnd(i)  BY DEF LineEnd
<1>3. LineBegins' = LineBegins /\ Borders' = Borders  BY DEF LineBegins, Borders
<1>4. ASSUME NEW i  PROVE LongLineAt(i)' <=> LongLineAt(i)
  BY <1>2 DEF LongLineAt
<1>5. ASSUME NEW i  PROVE MayBeginAt(i)' <=> MayBeginAt(i)
  BY <1>2, <1>3, <1>4 DEF MayBeginAt
<1>6. ASSUME NEW i, NEW j  PROVE BlankMessage(i, j)' <=> BlankMessage(i, j)
  BY <1>1, <1>2, <1>5 DEF BlankMessage
<1>7. ASSUME NEW i  PROVE BlankPieceAt(i)' <=> BlankPieceAt(i)
  BY <1>1, <1>2, <1>4 DEF BlankPieceAt
<1>8. BlankAtBorder' <=> BlankAtBorder
  BY <1>3, <1>6, <1>7 DEF BlankAtBorder
<1> QED  BY <1>2, <1>3, <1>4, <1>5, <1>8

\* So does what is said of parts that stay.
LEMMA CoversSame ==
  ASSUME UNCHANGED <<text, limit>>, NEW s, NEW a, NEW b, Covers(s, a, b)
  PROVE  Covers(s, a, b)'
<1>1. ASSUME NEW i  PROVE Blank(i)' <=> Blank(i)  BY DEF Blank
<1>2. ASSUME NEW p  PROVE HoldsWholeLines(p)' <=> HoldsWholeLines(p)
  BY <1>1, BordersSame DEF HoldsWholeLines
<1>3. ASSUME NEW p  PROVE GoodPart(p)' <=> GoodPart(p)
  BY <1>1, <1>2, BordersSame DEF GoodPart, Length
<1> QED  BY <1>1, <1>3 DEF Covers
-----------------------------------------------------------------------------
(* What parts cover                                                        *)

LEMMA PartNumbers ==
  ASSUME NEW s \in Seq(Part), NEW k \in 1..Len(s)
  PROVE  s[k] \in Part /\ s[k].first \in Nat \ {0} /\ s[k].last \in Nat
<1>1. s[k] \in Part  BY ElementOfSeq
<1> QED  BY <1>1 DEF Part

LEMMA CoversNone ==
  ASSUME NEW a \in Int
  PROVE  Covers(<<>>, a, a)
BY DEF Covers

LEMMA CoversOne ==
  ASSUME NEW a \in Int, NEW b \in Int, NEW p \in Part, GoodPart(p),
         a <= p.first, p.last < b,
         \A i \in a..(b - 1) : ~Blank(i) => i \in p.first..p.last
  PROVE  Covers(<<p>>, a, b)
<1>1. /\ <<p>> \in Seq(Part) /\ Len(<<p>>) = 1 /\ <<p>>[1] = p
      /\ \A k \in 1..Len(<<p>>) : k = 1
  OBVIOUS
<1> DEFINE s == <<p>>
<1> HIDE DEF s
<1> QED  BY <1>1 DEF Covers, s

LEMMA CoversJoin ==
  ASSUME NEW a \in Int, NEW b \in Int, NEW c \in Int, a <= b, b <= c,
         NEW s, NEW t, Covers(s, a, b), Covers(t, b, c)
  PROVE  Covers(s \o t, a, c)
<1> DEFINE all == s \o t
<1>1. s \in Seq(Part) /\ t \in Seq(Part)  BY DEF Covers
<1>2. /\ all \in Seq(Part) /\ Len(all) = Len(s) + Len(t)
      /\ \A i \in 1..Len(s) + Len(t) :
           all[i] = IF i <= Len(s) THEN s[i] ELSE t[i - Len(s)]
      /\ Len(s) \in Nat /\ Len(t) \in Nat
  BY <1>1, ConcatProperties, LenProperties
<1> HIDE DEF all
<1>3. \A k \in 1..Len(s) : k \in 1..Len(all) /\ all[k] = s[k]  BY <1>2
<1>4. ASSUME NEW k \in 1..Len(t)
      PROVE  Len(s) + k \in 1..Len(all) /\ all[Len(s) + k] = t[k]
  <2>1. /\ Len(s) + k \in 1..Len(s) + Len(t) /\ ~(Len(s) + k <= Len(s))
        /\ (Len(s) + k) - Len(s) = k
    BY <1>2
  <2> QED  BY <1>2, <2>1
<1>5. ASSUME NEW k \in 1..Len(all)
      PROVE  \/ k \in 1..Len(s) /\ all[k] = s[k]
             \/ k > Len(s) /\ k - Len(s) \in 1..Len(t) /\ all[k] = t[k - Len(s)]
  BY <1>2
<1>6. /\ \A k \in 1..Len(s) : s[k].first \in Nat /\ s[k].last \in Nat
      /\ \A k \in 1..Len(t) : t[k].first \in Nat /\ t[k].last \in Nat
  BY <1>1, PartNumbers
<1>7. ASSUME NEW k \in 1..Len(all)
      PROVE  a <= all[k].first /\ all[k].last < c /\ GoodPart(all[k])
  <2>1. CASE k \in 1..Len(s) /\ all[k] = s[k]
    <3>1. a <= s[k].first /\ s[k].last < b /\ GoodPart(s[k])
      BY <2>1 DEF Covers
    <3> QED  BY <1>6, <2>1, <3>1
  <2>2. CASE k > Len(s) /\ k - Len(s) \in 1..Len(t) /\ all[k] = t[k - Len(s)]
    <3> DEFINE n == k - Len(s)
    <3>1. n \in 1..Len(t) /\ all[k] = t[n]  BY <2>2
    <3> HIDE DEF n
    <3>2. b <= t[n].first /\ t[n].last < c /\ GoodPart(t[n])
      BY <3>1 DEF Covers
    <3> QED  BY <1>6, <3>1, <3>2
  <2> QED  BY <1>5, <2>1, <2>2
<1>8. ASSUME NEW i \in 1..Len(all), NEW k \in 1..Len(all), i < k
      PROVE  all[i].last < all[k].first
  <2>1. CASE k \in 1..Len(s) /\ all[k] = s[k]
    <3>1. i \in 1..Len(s) /\ all[i] = s[i]  BY <1>2, <1>5, <1>8, <2>1
    <3> QED  BY <1>8, <2>1, <3>1 DEF Covers
  <2>2. CASE k > Len(s) /\ k - Len(s) \in 1..Len(t) /\ all[k] = t[k - Len(s)]
    <3>1. b <= all[k].first /\ all[k].first \in Nat
      BY <1>6, <2>2 DEF Covers
    <3>2. CASE i \in 1..Len(s) /\ all[i] = s[i]
      BY <1>6, <3>1, <3>2 DEF Covers
    <3>3. CASE i > Len(s) /\ i - Len(s) \in 1..Len(t) /\ all[i] = t[i - Len(s)]
      <4>1. i - Len(s) < k - Len(s)  BY <1>2, <1>8
      <4> QED  BY <2>2, <3>3, <4>1 DEF Covers
    <3> QED  BY <1>5, <3>2, <3>3
  <2> QED  BY <1>5, <2>1, <2>2
<1>9. ASSUME NEW i \in a..(c - 1), ~Blank(i)
      PROVE  \E k \in 1..Len(all) : i \in all[k].first..all[k].last
  <2>1. CASE i < b
    <3>1. i \in a..(b - 1)  BY <2>1
    <3>2. PICK k \in 1..Len(s) : i \in s[k].first..s[k].last
      BY <1>9, <3>1 DEF Covers
    <3> QED  BY <1>3, <3>2
  <2>2. CASE b <= i
    <3>1. i \in b..(c - 1)  BY <2>2
    <3>2. PICK k \in 1..Len(t) : i \in t[k].first..t[k].last
      BY <1>9, <3>1 DEF Covers
    <3> QED  BY <1>4, <3>2
  <2> QED  BY <2>1, <2>2
<1> QED  BY <1>2, <1>7, <1>8, <1>9 DEF Covers, all

\* A part between two borders, but for blanks at its end, is a good one.
LEMMA BetweenBorders ==
  ASSUME text \in Seq(Chars), limit \in Nat,
         NEW p \in Part, NEW a \in LineBegins, NEW b \in Borders, a < b,
         ~p.truncated, Length(p) <= limit, p.first = a, p.last < b,
         \A i \in (p.last + 1)..(b - 1) : Blank(i),
         MayBeginAt(a), b = Len(text) + 1 \/ LineEnd(b) - a + 1 > limit
  PROVE  GoodPart(p)
<1>1. /\ Len(text) \in Nat /\ a \in 1..Len(text) /\ b \in 1..(Len(text) + 1)
      /\ p.last \in Nat
  BY DEF LineBegins, Borders, Part
<1>2. \A i \in a..(b - 1) : ~Blank(i) => i \in p.first..p.last  BY <1>1
<1>3. HoldsWholeLines(p)
  <2>1. ASSUME NEW c \in LineBegins,
               NEW i \in c..LineEnd(c), ~Blank(i),
               NEW j \in c..LineEnd(c), ~Blank(j),
               i \in p.first..p.last
        PROVE  j \in p.first..p.last
    <3>1. c \in 1..Len(text) /\ LineEnd(c) \in Nat
      BY LineEndIs DEF LineBegins
    <3>2. a <= c \/ LineEnd(c) < a  BY BordersApart DEF Borders
    <3>3. b <= c \/ LineEnd(c) < b  BY BordersApart
    <3>4. j \in a..(b - 1)  BY <1>1, <2>1, <3>1, <3>2, <3>3
    <3> QED  BY <1>2, <2>1, <3>4
  <2> QED  BY <2>1 DEF HoldsWholeLines
<1>4. BlankAtBorder \/ \E i \in p.first..p.last : ~Blank(i)
  <2> SUFFICES ASSUME \A i \in p.first..p.last : Blank(i)  PROVE BlankAtBorder
    OBVIOUS
  <2>1. \A i \in a..(b - 1) : Blank(i)  BY <1>2
  <2> QED  BY <2>1 DEF BlankAtBorder, BlankMessage
<1> QED  BY <1>3, <1>4 DEF GoodPart

LEMMA CurrentCovers ==
  ASSUME text \in Seq(Chars), limit \in Nat,
         from \in Borders, pos \in Borders, from <= pos, pos - from <= limit,
         MayBeginAt(from), pos = Len(text) + 1 \/ LineEnd(pos) - from + 1 > limit
  PROVE  Covers(Current, from, pos)
<1>1. Len(text) \in Nat /\ from \in 1..(Len(text) + 1)
      /\ pos \in 1..(Len(text) + 1)
  BY DEF Borders, LineBegins
<1>2. CASE from = pos
  <2>1. Current = <<>>  BY <1>1, <1>2 DEF Current
  <2> QED  BY <1>1, <1>2, <2>1, CoversNone
<1>3. CASE from < pos
  <2> DEFINE p == RStrip(from, pos - 1)
  <2>1. Current = <<p>>  BY <1>3 DEF Current
  <2>2. /\ p \in Part /\ p.first = from /\ ~p.truncated
        /\ p.last \in (from - 1)..(pos - 1)
        /\ \A i \in (p.last + 1)..(pos - 1) : Blank(i)
    BY <1>1, <1>3, RStripIs
  <2> HIDE DEF p
  <2>3. Length(p) <= limit  BY <1>1, <2>2 DEF Length
  <2>4. from \in LineBegins  BY <1>1, <1>3 DEF Borders
  <2>5. GoodPart(p)  BY <1>1, <1>3, <2>2, <2>3, <2>4, BetweenBorders
  <2>6. \A i \in from..(pos - 1) : ~Blank(i) => i \in p.first..p.last
    BY <1>1, <2>2
  <2> QED  BY <1>1, <2>1, <2>2, <2>5, <2>6, CoversOne
<1> QED  BY <1>1, <1>2, <1>3

\* The pieces of a long line cover it, blank ones included.
LEMMA PiecesCover ==
  ASSUME text \in Seq(Chars), limit \in Nat \ {0},
         NEW a \in LineBegins, LongLineAt(a)
  PROVE  Covers(Pieces(a, LineEnd(a)), a, LineEnd(a) + 1)
<1>1. PICK b \in Nat : b = LineEnd(a)  BY LineEndIs DEF LineBegins
<1>2. /\ Len(text) \in Nat /\ a \in 1..Len(text) /\ a <= b
  BY <1>1, LineEndIs DEF LineBegins
<1>3. PICK n \in Nat \ {0} : n = ((b - a) \div limit) + 1
                             /\ (n - 1) * limit <= b - a
  BY <1>2, DivBetween
<1> DEFINE s == Pieces(a, b)
<1>4. s = [i \in 1..n |-> Whole(a + (i - 1) * limit,
             IF a + i * limit > b THEN b ELSE a + i * limit - 1)]
  BY <1>3 DEF Pieces
<1>5. ASSUME NEW i \in 1..n
      PROVE  /\ s[i].first = a + (i - 1) * limit
             /\ s[i].last = IF a + i * limit > b THEN b ELSE a + i * limit - 1
             /\ ~s[i].truncated
             /\ s[i].first \in a..b /\ s[i].last \in a..b
             /\ s[i].last < a + i * limit
             /\ s[i] \in Part
             /\ Length(s[i]) <= limit
  <2> DEFINE f == a + (i - 1) * limit
             l == IF a + i * limit > b THEN b ELSE a + i * limit - 1
  <2>1. s[i] = [first |-> f, last |-> l, truncated |-> FALSE]
    BY <1>4 DEF Whole
  <2>2. (i - 1) * limit \in Nat /\ (i - 1) * limit <= (n - 1) * limit
    BY MulGrows
  <2>3. i * limit = (i - 1) * limit + limit  OBVIOUS
  <2>4. PICK d \in Nat : d = (i - 1) * limit  BY <2>2
  <2>5. f = a + d /\ l = (IF a + d + limit > b THEN b ELSE a + d + limit - 1)
        /\ i * limit = d + limit /\ d <= b - a
    BY <1>2, <1>3, <2>2, <2>3, <2>4
  <2>6. f \in a..b /\ l \in a..b /\ l < a + i * limit /\ l - f + 1 <= limit
    BY <1>2, <2>5
  <2> HIDE DEF s, f, l
  <2> QED  BY <1>2, <2>1, <2>6 DEF Part, Length, f, l
<1>6. s \in Seq(Part) /\ Len(s) = n
  <2>1. \A i \in 1..n : s[i] \in Part  BY <1>5
  <2>2. s \in [1..n -> Part]  BY <1>4, <2>1
  <2> HIDE DEF s
  <2> QED  BY <2>2
<1> HIDE DEF s
<1>7. ASSUME NEW i \in 1..n  PROVE HoldsWholeLines(s[i])
  <2>1. ASSUME NEW c \in LineBegins, ~LongLineAt(c),
               NEW j \in c..LineEnd(c)
        PROVE  j \notin s[i].first..s[i].last
    <3>1. c # a  BY <2>1
    <3>2. c \in 1..Len(text) /\ LineEnd(c) \in Nat
      BY LineEndIs DEF LineBegins
    <3>3. a <= c \/ LineEnd(c) < a  BY BordersApart DEF Borders
    <3>4. c <= a \/ b < c  BY <1>1, BordersApart DEF Borders
    <3> QED  BY <1>2, <1>5, <3>1, <3>2, <3>3, <3>4
  <2> QED  BY <2>1 DEF HoldsWholeLines
<1>8. ASSUME NEW i \in 1..n, NEW k \in 1..n, i < k
      PROVE  s[i].last < s[k].first
  <2>1. i * limit <= (k - 1) * limit /\ i * limit \in Nat
        /\ (k - 1) * limit \in Nat
    <3>1. i \in Nat /\ k - 1 \in Nat /\ i <= k - 1  BY <1>8
    <3> QED  BY <3>1, MulGrows
  <2>2. s[k].first = a + (k - 1) * limit /\ s[i].last \in a..b
        /\ s[i].last < a + i * limit
    BY <1>5
  <2> QED  BY <1>2, <2>1, <2>2
<1>9. ASSUME NEW i \in a..b
      PROVE  \E k \in 1..n : i \in s[k].first..s[k].last
  <2>1. PICK q \in Nat : /\ q = (i - a) \div limit
                         /\ q * limit <= i - a /\ i - a < (q + 1) * limit
    BY <1>2, DivBetween
  <2>2. q <= n - 1
    <3>1. PICK x \in Nat : x = i - a  BY <1>2
    <3>2. PICK y \in Nat : y = b - a  BY <1>2
    <3>3. x <= y  BY <1>2, <3>1, <3>2
    <3>4. x \div limit <= y \div limit /\ y \div limit \in Nat
      BY <3>3, DivGrows, DivBetween
    <3>5. q = x \div limit  BY <2>1, <3>1
    <3>6. n = (y \div limit) + 1  BY <1>3, <3>2
    <3> QED  BY <3>4, <3>5, <3>6
  <2>3. q + 1 \in 1..n /\ (q + 1) - 1 = q  BY <2>2
  <2>4. s[q + 1].first = a + q * limit
        /\ s[q + 1].last = IF a + (q + 1) * limit > b THEN b
                           ELSE a + (q + 1) * limit - 1
    BY <1>5, <2>3
  <2>5. PICK d \in Nat : d = q * limit  BY MulGrows
  <2>6. PICK m \in Nat : m = (q + 1) * limit  BY MulGrows
  <2>7. i \in s[q + 1].first..s[q + 1].last
    BY <1>2, <2>1, <2>4, <2>5, <2>6
  <2> QED  BY <2>3, <2>7
<1>10. ASSUME NEW i \in 1..n
       PROVE  BlankAtBorder \/ \E j \in s[i].first..s[i].last : ~Blank(j)
  <2> SUFFICES ASSUME \A j \in s[i].first..s[i].last : Blank(j)  PROVE BlankAtBorder
    OBVIOUS
  <2>1. PICK k \in Nat : k = i - 1  OBVIOUS
  <2>2. k \in 0..((b - a) \div limit) /\ k + 1 = i
    BY <1>2, <1>3, <2>1, DivBetween
  <2>3. ASSUME NEW j \in (a + k * limit)..b, j < a + (k + 1) * limit
        PROVE  Blank(j)
    <3>1. s[i].first = a + k * limit
          /\ s[i].last = IF a + (k + 1) * limit > b THEN b ELSE a + (k + 1) * limit - 1
      BY <1>5, <2>1, <2>2
    <3>2. PICK d \in Nat : d = k * limit  BY MulGrows
    <3>3. PICK m \in Nat : m = (k + 1) * limit  BY MulGrows
    <3>4. j \in s[i].first..s[i].last
      BY <1>2, <2>3, <3>1, <3>2, <3>3
    <3> QED  BY <3>4
  <2>4. BlankPieceAt(a)  BY <1>1, <2>2, <2>3 DEF BlankPieceAt
  <2> QED  BY <2>4 DEF BlankAtBorder
<1>11. ASSUME NEW k \in 1..Len(s)
       PROVE  a <= s[k].first /\ s[k].last < b + 1 /\ GoodPart(s[k])
  <2>1. k \in 1..n  BY <1>6, <1>11
  <2>2. s[k].first \in a..b /\ s[k].last \in a..b  BY <1>5, <2>1
  <2>3. GoodPart(s[k])  BY <1>5, <1>7, <1>10, <2>1 DEF GoodPart
  <2> QED  BY <1>2, <2>2, <2>3
<1>12. Covers(s, a, b + 1)
  BY <1>2, <1>6, <1>8, <1>9, <1>11 DEF Covers
<1> QED  BY <1>1, <1>12 DEF s
-----------------------------------------------------------------------------
(* The steps                                                               *)

LEMMA Numbers ==
  ASSUME IInv
  PROVE  /\ text \in Texts /\ text \in Seq(Chars) /\ Len(text) \in Nat \ {0}
         /\ limit \in Limits /\ limit \in Nat \ {0}
         /\ Suffix \in Nat /\ Suffix < limit
         /\ pos \in 1..(Len(text) + 1) /\ from \in 1..pos
         /\ parts \in Seq(Part) /\ Len(parts) \in Nat /\ sent \in 0..Len(parts)
<1>1. text \in Texts /\ limit \in Limits  BY DEF IInv, TypeOK
<1>2. text \in Seq(Chars) /\ text # <<>>  BY <1>1, TelegramTextAssumption
<1>3. Len(text) \in Nat \ {0}  BY <1>2, EmptySeq
<1>4. limit \in Nat \ {0} /\ Suffix \in Nat /\ Suffix < limit
  BY <1>1, TelegramTextAssumption
<1> QED  BY <1>1, <1>2, <1>3, <1>4, LenProperties DEF IInv, TypeOK

LEMMA FirstBorder ==
  ASSUME Len(text) \in Nat \ {0}
  PROVE  1 \in Borders
BY DEF Borders, LineBegins

LEMMA Longer ==
  ASSUME NEW s \in Seq(Part), NEW t \in Seq(Part)
  PROVE  Len(s) <= Len(s \o t)
BY ConcatProperties, LenProperties

LEMMA InitIInv ==
  ASSUME Init
  PROVE  IInv
<1>1. text \in Seq(Chars) /\ Len(text) \in Nat \ {0} /\ limit \in Nat
  BY TelegramTextAssumption, EmptySeq DEF Init
<1>2. TypeOK
  BY <1>1, EmptySeq DEF Init, TypeOK
<1>3. 1 \in Borders /\ Covers(<<>>, 1, 1)  BY <1>1, FirstBorder, CoversNone
<1>4. LoopInv  BY <1>1, <1>3 DEF Init, LoopInv, MayBeginAt
<1> QED  BY <1>2, <1>4 DEF Init, IInv, SendInv, RefusedAtBorder

\* a step of the loop
LEMMA LoopMoves ==
  ASSUME IInv, pc = "lines", UNCHANGED <<text, limit, pc, sent>>,
         NEW s, parts' = s, Len(parts) <= Len(s),
         NEW f \in Borders, from' = f, NEW p \in Borders, pos' = p,
         f <= p, p - f <= limit, Covers(s, 1, f), MayBeginAt(f)
  PROVE  IInv'
<1>1. TypeOK'
  <2>1. s \in Seq(Part) /\ Len(s) \in Nat  BY LenProperties DEF Covers
  <2>2. f \in 1..p /\ p \in 1..(Len(text) + 1)
    BY Numbers DEF Borders, LineBegins
  <2> QED  BY <2>1, <2>2, Numbers DEF TypeOK
<1>2. Covers(parts, 1, from)'
  <2>1. Covers(s, 1, f)'  BY CoversSame
  <2> QED  BY <2>1 DEF Covers, GoodPart
<1>3. Borders' = Borders /\ MayBeginAt(from)'
  <2>1. MayBeginAt(f)'  BY BordersSame
  <2> QED  BY <2>1, BordersSame DEF MayBeginAt
<1>4. LoopInv'  BY <1>2, <1>3 DEF LoopInv
<1> QED  BY <1>1, <1>4 DEF IInv, SendInv, RefusedAtBorder

\* The parts are ready to be sent.
LEMMA ReadyToSend ==
  ASSUME IInv, UNCHANGED <<text, limit, pos, sent>>, pc' = "send",
         NEW s, s \in Seq(Part), parts' = s, Len(parts) <= Len(s),
         from' \in {from, pos},
         \/ Covers(s, 1, Len(text) + 1)
         \/ Len(s) = 1 /\ CutAt(s[1], limit - Suffix)
  PROVE  IInv'
<1>1. TypeOK'
  BY Numbers, LenProperties DEF TypeOK
<1>2. LoopInv'
  BY Numbers DEF IInv, LoopInv
<1>3. SendInv'
  <2>1. CASE Covers(s, 1, Len(text) + 1)
    <3>1. PICK n : n = Len(text) + 1  OBVIOUS
    <3>2. Covers(s, 1, n)'  BY <2>1, <3>1, CoversSame
    <3>3. Covers(parts, 1, Len(text) + 1)'
      BY <3>1, <3>2 DEF Covers, GoodPart
    <3> QED  BY <3>3 DEF SendInv
  <2>2. CASE Len(s) = 1 /\ CutAt(s[1], limit - Suffix)
    BY <2>2 DEF SendInv, CutAt, Length, Blank
  <2> QED  BY <2>1, <2>2
<1> QED  BY <1>1, <1>2, <1>3 DEF IInv, RefusedAtBorder

\* current, taken out of the loop
LEMMA WithCurrent ==
  ASSUME IInv, pc = "lines",
         pos = Len(text) + 1 \/ LineEnd(pos) - from + 1 > limit
  PROVE  /\ Covers(parts \o Current, 1, pos)
         /\ parts \o Current \in Seq(Part)
         /\ Len(parts) <= Len(parts \o Current)
<1>1. /\ from \in Borders /\ pos \in Borders /\ pos - from <= limit
      /\ MayBeginAt(from) /\ Covers(parts, 1, from)
  BY DEF IInv, LoopInv
<1>2. Covers(Current, from, pos)  BY <1>1, Numbers, CurrentCovers
<1>3. Covers(parts \o Current, 1, pos)
  BY <1>1, <1>2, Numbers, CoversJoin
<1> QED  BY <1>2, <1>3, Numbers, Longer DEF Covers

\* the line that a turn of the loop reads
LEMMA LineInLoop ==
  ASSUME IInv, InLoop
  PROVE  /\ pc = "lines" /\ pos \in LineBegins /\ pos \in 1..Len(text)
         /\ LineEnd(pos) \in pos..Len(text)
         /\ LineEnd(pos) + 1 \in Borders
<1>1. pc = "lines" /\ pos \in Borders /\ pos \in 1..Len(text)
  BY Numbers DEF IInv, LoopInv, InLoop
<1>2. pos \in LineBegins  BY <1>1 DEF Borders
<1> QED  BY <1>1, <1>2, Numbers, LineEndIs, NextBorder

LEMMA ShortStep ==
  ASSUME IInv, Short
  PROVE  IInv'
<1> DEFINE p == Whole(1, Len(text))
<1>1. p \in Part /\ p.first = 1 /\ p.last = Len(text) /\ ~p.truncated
  BY Numbers DEF Whole, Part
<1> HIDE DEF p
<1>2. /\ pc = "start" /\ parts = <<>> /\ parts' = <<p>> /\ pc' = "send"
      /\ UNCHANGED <<text, limit, pos, from, sent>>
      /\ Length(p) <= limit
  BY <1>1, Numbers DEF Short, IInv, LoopInv, Length, p
<1>3. 1 \in LineBegins /\ Len(text) + 1 \in Borders
  BY Numbers DEF LineBegins, Borders
<1>4. GoodPart(p)
  BY <1>1, <1>2, <1>3, Numbers, BetweenBorders DEF MayBeginAt
<1>5. Covers(<<p>>, 1, Len(text) + 1)
  BY <1>1, <1>4, Numbers, CoversOne
<1>6. <<p>> \in Seq(Part) /\ Len(parts) <= Len(<<p>>)  BY <1>1, <1>2
<1> QED  BY <1>2, <1>5, <1>6, ReadyToSend

LEMMA FitStep ==
  ASSUME IInv, Fit
  PROVE  IInv'
<1> DEFINE r == RStrip(1, limit - Suffix)
           p == [r EXCEPT !.truncated = TRUE]
<1>1. /\ r \in Part /\ r.first = 1 /\ r.last \in 0..(limit - Suffix)
      /\ \A i \in (r.last + 1)..(limit - Suffix) : Blank(i)
  BY Numbers, RStripIs
<1>2. /\ pc = "start" /\ parts = <<>> /\ parts' = <<p>> /\ pc' = "send"
      /\ UNCHANGED <<text, limit, pos, from, sent>>
  BY DEF Fit, IInv, LoopInv
<1> HIDE DEF r
<1>3. p \in Part /\ p.first = 1 /\ p.last = r.last /\ p.truncated
  BY <1>1 DEF Part
<1> HIDE DEF p
<1>4. CutAt(p, limit - Suffix)
  BY <1>1, <1>3, Numbers DEF CutAt, Length
<1>5. /\ <<p>> \in Seq(Part) /\ Len(<<p>>) = 1 /\ <<p>>[1] = p
      /\ Len(parts) <= Len(<<p>>)
  BY <1>2, <1>3
<1> QED  BY <1>2, <1>4, <1>5, ReadyToSend

LEMMA LongLineStep ==
  ASSUME IInv, LongLine
  PROVE  IInv'
<1> DEFINE s == parts \o Current
           t == Pieces(pos, LineEnd(pos))
<1>1. /\ InLoop /\ LongLineAt(pos) /\ parts' = s \o t
      /\ pos' = LineEnd(pos) + 1 /\ from' = pos'
      /\ UNCHANGED <<text, limit, pc, sent>>
  BY DEF LongLine, LongLineAt, LineLength
<1>2. /\ pc = "lines" /\ pos \in LineBegins /\ pos \in 1..Len(text)
      /\ LineEnd(pos) \in pos..Len(text) /\ LineEnd(pos) + 1 \in Borders
  BY <1>1, LineInLoop
<1>3. /\ Covers(s, 1, pos) /\ s \in Seq(Part) /\ Len(parts) <= Len(s)
  BY <1>1, <1>2, Numbers, WithCurrent DEF LongLineAt
<1>4. Covers(t, pos, LineEnd(pos) + 1)
  BY <1>1, <1>2, Numbers, PiecesCover
<1> HIDE DEF s, t
<1>5. Covers(s \o t, 1, LineEnd(pos) + 1)
  BY <1>2, <1>3, <1>4, CoversJoin
<1>6. t \in Seq(Part)  BY <1>4 DEF Covers
<1>7. Len(parts) <= Len(s \o t)
  BY <1>3, <1>6, Longer, LenProperties, ConcatProperties, Numbers
<1>8. PICK e \in Borders : e = LineEnd(pos) + 1  BY <1>2
<1>9. pos' = e /\ from' = e /\ e <= e /\ e - e <= limit
  BY <1>1, <1>2, <1>8, Numbers
<1>10. MayBeginAt(e)  BY <1>1, <1>2, <1>8 DEF MayBeginAt
<1> QED  BY <1>1, <1>2, <1>5, <1>7, <1>8, <1>9, <1>10, LoopMoves

LEMMA FlushStep ==
  ASSUME IInv, Flush
  PROVE  IInv'
<1>1. /\ InLoop /\ LineEnd(pos) - pos + 1 <= limit
      /\ (pos - from) + (LineEnd(pos) - pos + 1) > limit
      /\ parts' = parts \o Current
      /\ from' = pos /\ pos' = LineEnd(pos) + 1
      /\ UNCHANGED <<text, limit, pc, sent>>
  <2>1. InLoop  BY DEF Flush
  <2>2. LineEnd(pos) \in pos..Len(text)  BY <2>1, LineInLoop
  <2> QED  BY <2>2, Numbers DEF Flush, Fits, LineLength
<1>2. /\ pc = "lines" /\ pos \in Borders /\ pos \in Nat
      /\ LineEnd(pos) \in pos..Len(text) /\ LineEnd(pos) + 1 \in Borders
  BY <1>1, LineInLoop DEF Borders
<1>3. /\ Covers(parts \o Current, 1, pos)
      /\ Len(parts) <= Len(parts \o Current)
  BY <1>1, <1>2, Numbers, WithCurrent
<1>4. pos <= LineEnd(pos) + 1 /\ (LineEnd(pos) + 1) - pos <= limit
  BY <1>1, <1>2, Numbers
<1>5. MayBeginAt(pos)
  <2>1. from \in Borders /\ pos - from <= limit  BY <1>2 DEF IInv, LoopInv
  <2>2. from < pos /\ LineEnd(pos) - from + 1 > limit
    BY <1>1, <1>2, Numbers
  <2>3. from \in LineBegins  BY <1>1, <2>1, <2>2, Numbers DEF Borders, InLoop
  <2> QED  BY <2>1, <2>2, <2>3 DEF MayBeginAt
<1> QED  BY <1>1, <1>2, <1>3, <1>4, <1>5, LoopMoves

LEMMA AddLineStep ==
  ASSUME IInv, AddLine
  PROVE  IInv'
<1>1. /\ InLoop /\ (pos - from) + (LineEnd(pos) - pos + 1) <= limit
      /\ pos' = LineEnd(pos) + 1
      /\ UNCHANGED <<text, limit, pc, from, parts, sent>>
  BY DEF AddLine, Fits, LineLength
<1>2. /\ pc = "lines" /\ pos \in Nat
      /\ LineEnd(pos) \in pos..Len(text) /\ LineEnd(pos) + 1 \in Borders
  BY <1>1, LineInLoop
<1>3. from \in Borders /\ MayBeginAt(from) /\ Covers(parts, 1, from)
  BY <1>2 DEF IInv, LoopInv
<1>4. from <= LineEnd(pos) + 1 /\ (LineEnd(pos) + 1) - from <= limit
  BY <1>1, <1>2, Numbers
<1>5. Len(parts) <= Len(parts)  BY Numbers
<1> QED  BY <1>1, <1>2, <1>3, <1>4, <1>5, LoopMoves

LEMMA FinishStep ==
  ASSUME IInv, Finish
  PROVE  IInv'
<1>1. /\ pc = "lines" /\ pos > Len(text) /\ parts' = parts \o Current
      /\ from' = pos /\ pc' = "send" /\ UNCHANGED <<text, limit, pos, sent>>
  BY DEF Finish
<1>2. /\ Covers(parts \o Current, 1, pos) /\ parts \o Current \in Seq(Part)
      /\ Len(parts) <= Len(parts \o Current)
  BY <1>1, Numbers, WithCurrent
<1>3. pos = Len(text) + 1  BY <1>1, Numbers
<1> QED  BY <1>1, <1>2, <1>3, ReadyToSend

\* The parts stay what they are when they are sent.
LEMMA PartsStay ==
  ASSUME IInv, pc \notin {"start", "lines"}, UNCHANGED <<text, limit, parts>>
  PROVE  SendInv'
<1>1. CASE Covers(parts, 1, Len(text) + 1)
  <2>1. PICK s, n : s = parts /\ n = Len(text) + 1  OBVIOUS
  <2>2. Covers(s, 1, n)'  BY <1>1, <2>1, CoversSame
  <2>3. Covers(parts, 1, Len(text) + 1)'
    BY <2>1, <2>2 DEF Covers, GoodPart
  <2> QED  BY <2>3 DEF SendInv
<1>2. CASE Len(parts) = 1 /\ CutAt(parts[1], limit - Suffix)
  BY <1>2 DEF SendInv, CutAt, Length, Blank
<1> QED  BY <1>1, <1>2 DEF IInv, SendInv

\* Telegram refuses a good part only if there are blanks at a border.
LEMMA SendStep ==
  ASSUME IInv, Send
  PROVE  IInv'
<1>1. /\ pc = "send" /\ sent < Len(parts)
      /\ UNCHANGED <<text, limit, pos, from, parts>>
      /\ \/ pc' = pc /\ sent' = sent + 1
         \/ pc' = "refused" /\ sent' = sent /\ ~Accepted(parts[sent + 1])
  BY DEF Send
<1>2. TypeOK'  BY <1>1, Numbers DEF TypeOK
<1>3. LoopInv'
  BY <1>1 DEF IInv, LoopInv
<1>4. SendInv'  BY <1>1, PartsStay
<1>5. RefusedAtBorder'
  <2> SUFFICES ASSUME pc' = "refused"  PROVE BlankAtBorder'
    BY DEF RefusedAtBorder
  <2> DEFINE k == sent + 1
  <2>1. k \in 1..Len(parts) /\ ~Accepted(parts[k])  BY <1>1, Numbers
  <2> HIDE DEF k
  <2>2. ~CutAt(parts[1], limit - Suffix) \/ Len(parts) # 1
    BY <2>1 DEF CutAt, Accepted
  <2>3. GoodPart(parts[k])  BY <1>1, <2>1, <2>2 DEF IInv, SendInv, Covers
  <2>4. BlankAtBorder  BY <2>1, <2>3 DEF GoodPart, Accepted
  <2> QED  BY <1>1, <2>4, BordersSame
<1> QED  BY <1>2, <1>3, <1>4, <1>5 DEF IInv

LEMMA SendFailsStep ==
  ASSUME IInv, SendFails
  PROVE  IInv'
<1>1. pc = "send" /\ pc' = "failed" /\ UNCHANGED <<text, limit, pos, from, parts, sent>>
  BY DEF SendFails
<1>2. TypeOK' /\ LoopInv'  BY <1>1 DEF IInv, TypeOK, LoopInv
<1>3. SendInv'  BY <1>1, PartsStay
<1> QED  BY <1>1, <1>2, <1>3 DEF IInv, RefusedAtBorder

LEMMA StutterStep ==
  ASSUME IInv, UNCHANGED vars
  PROVE  IInv'
<1>1. UNCHANGED <<text, limit, pc, pos, from, parts, sent>>  BY DEF vars
<1>2. TypeOK'  BY <1>1 DEF IInv, TypeOK
<1>3. LoopInv'
  <2>1. CASE pc \in {"start", "lines"}
    <3>1. PICK s, f : s = parts /\ f = from  OBVIOUS
    <3>2. Covers(s, 1, f)'  BY <1>1, <2>1, <3>1, CoversSame DEF IInv, LoopInv
    <3>3. Covers(parts, 1, from)'  BY <3>1, <3>2, <1>1 DEF Covers, GoodPart
    <3>4. MayBeginAt(f)'  BY <1>1, <2>1, <3>1, BordersSame DEF IInv, LoopInv
    <3>5. Borders' = Borders /\ MayBeginAt(from)'
      BY <1>1, <3>1, <3>4, BordersSame DEF MayBeginAt
    <3> QED  BY <1>1, <3>3, <3>5 DEF IInv, LoopInv
  <2>2. CASE pc \notin {"start", "lines"}
    BY <1>1, <2>2 DEF IInv, LoopInv
  <2> QED  BY <2>1, <2>2
<1>4. SendInv'
  <2>1. CASE pc \in {"start", "lines"}  BY <1>1, <2>1 DEF SendInv
  <2>2. CASE pc \notin {"start", "lines"}  BY <1>1, <2>2, PartsStay
  <2> QED  BY <2>1, <2>2
<1>5. RefusedAtBorder'
  BY <1>1, BordersSame DEF IInv, RefusedAtBorder
<1> QED  BY <1>2, <1>3, <1>4, <1>5 DEF IInv

\* Split alone leaves the parts as they are and goes into the loop.
LEMMA SplitStep ==
  ASSUME IInv, Split
  PROVE  IInv'
<1>1. /\ pc = "start" /\ pc' = "lines" /\ parts = <<>> /\ from = 1 /\ pos = 1
      /\ UNCHANGED <<text, limit, pos, from, parts, sent>>
  BY DEF Split, IInv, LoopInv
<1>2. TypeOK'  BY <1>1 DEF IInv, TypeOK
<1>3. Covers(parts, 1, from)'
  <2>1. Covers(<<>>, 1, 1)  BY CoversNone
  <2>2. PICK s : s = <<>>  OBVIOUS
  <2>3. Covers(s, 1, 1)'  BY <1>1, <2>1, <2>2, CoversSame
  <2> QED  BY <1>1, <2>2, <2>3 DEF Covers, GoodPart
<1>4. Borders' = Borders /\ MayBeginAt(from)'
  BY <1>1, BordersSame DEF MayBeginAt
<1>5. LoopInv'  BY <1>1, <1>3, <1>4 DEF IInv, LoopInv
<1> QED  BY <1>1, <1>2, <1>5 DEF IInv, SendInv, RefusedAtBorder

LEMMA NextIInv ==
  ASSUME IInv, [Next]_vars
  PROVE  IInv'
BY ShortStep, SplitStep, FitStep, LongLineStep, FlushStep, AddLineStep,
   FinishStep, SendStep, SendFailsStep, StutterStep DEF Next
-----------------------------------------------------------------------------
(* What the invariant says of the parts                                    *)

LEMMA PartsAre ==
  ASSUME IInv
  PROVE  \/ \E b \in Int : /\ Covers(parts, 1, b)
                           /\ pc = "lines" => b = from
                           /\ pc \notin {"start", "lines"} => b = Len(text) + 1
         \/ /\ Len(parts) = 1 /\ CutAt(parts[1], limit - Suffix)
            /\ pc \notin {"start", "lines"}
<1>1. CASE pc \in {"start", "lines"}
  <2>1. Covers(parts, 1, from) /\ from \in Int
    BY <1>1, Numbers DEF IInv, LoopInv
  <2> QED  BY <1>1, <2>1
<1>2. CASE pc \notin {"start", "lines"}
  <2>1. Len(text) + 1 \in Int  BY Numbers
  <2> QED  BY <1>2, <2>1 DEF IInv, SendInv
<1> QED  BY <1>1, <1>2

LEMMA IInvPartsFit ==
  ASSUME IInv
  PROVE  PartsFit
<1>1. \A k \in 1..Len(parts) : Length(parts[k]) <= limit
  <2>1. CASE Len(parts) = 1 /\ CutAt(parts[1], limit - Suffix)
    BY <2>1 DEF CutAt
  <2>2. ASSUME NEW b \in Int, Covers(parts, 1, b)
        PROVE  \A k \in 1..Len(parts) : Length(parts[k]) <= limit
    BY <2>2 DEF Covers, GoodPart
  <2> QED  BY <2>1, <2>2, PartsAre
<1> QED  BY <1>1 DEF IInv, LoopInv, PartsFit

LEMMA IInvNothingLost ==
  ASSUME IInv
  PROVE  NothingLost
<1>1. ASSUME NEW b \in Int, Covers(parts, 1, b),
             pc = "lines" => b = from,
             pc \notin {"start", "lines"} => b = Len(text) + 1
      PROVE  NothingLost
  <2>1. ~Truncated  BY <1>1 DEF Truncated, Covers, GoodPart
  <2>2. pc \in {"start", "lines"} \/ Len(text) = b - 1
    BY <1>1, Numbers
  <2>3. \A i \in 1..(b - 1) : ~Blank(i) => Held(i)
    BY <1>1 DEF Covers, Held
  <2>4. \A i, k \in 1..Len(parts) : i < k => parts[i].last < parts[k].first
    BY <1>1 DEF Covers
  <2>5. CASE pc = "lines"
    BY <1>1, <2>1, <2>3, <2>4, <2>5 DEF NothingLost
  <2>6. CASE pc \notin {"start", "lines"}
    BY <2>1, <2>2, <2>3, <2>4, <2>6 DEF NothingLost
  <2>7. CASE pc = "start"  BY <2>4, <2>7 DEF NothingLost
  <2> QED  BY <2>5, <2>6, <2>7
<1>2. CASE /\ Len(parts) = 1 /\ CutAt(parts[1], limit - Suffix)
           /\ pc \notin {"start", "lines"}
  <2>1. Truncated  BY <1>2 DEF Truncated, CutAt
  <2>2. \A i \in 1..(limit - Suffix) : ~Blank(i) => Held(i)
    BY <1>2 DEF Held, CutAt
  <2>3. \A i, k \in 1..Len(parts) : ~(i < k)  BY <1>2
  <2> QED  BY <2>1, <2>2, <2>3 DEF NothingLost
<1> QED  BY <1>1, <1>2, PartsAre

LEMMA IInvLinesWhole ==
  ASSUME IInv
  PROVE  LinesWhole
<1>1. CASE Len(parts) = 1 /\ CutAt(parts[1], limit - Suffix)
  BY <1>1 DEF CutAt, LinesWhole, Truncated
<1>2. ASSUME NEW b \in Int, Covers(parts, 1, b)
      PROVE  LinesWhole
  BY <1>2 DEF Covers, GoodPart, LinesWhole
<1> QED  BY <1>1, <1>2, PartsAre
-----------------------------------------------------------------------------
(* The theorems                                                            *)

\* The inductive invariant holds of every text on its way to Telegram.
THEOREM InvariantTheorem == Spec => []IInv
<1>1. Init => IInv  BY InitIInv
<1>2. IInv /\ [Next]_vars => IInv'  BY NextIInv
<1> QED  BY <1>1, <1>2, PTL DEF Spec

\* The variables of split_telegram_text and edit_answer_message keep to their
\* types, for every text and limit.
THEOREM TypeTheorem == Spec => []TypeOK
<1>1. IInv => TypeOK  BY DEF IInv
<1> QED  BY <1>1, InvariantTheorem, PTL

\* No part is longer than a message may be, whatever the text
\* (split_telegram_text, fit_telegram_text).
THEOREM FitTheorem == Spec => []PartsFit
<1>1. IInv => PartsFit  BY IInvPartsFit
<1> QED  BY <1>1, InvariantTheorem, PTL

\* Nothing that is not blank is lost, repeated or moved between the parts of
\* split_telegram_text, nor before the cut of fit_telegram_text.
THEOREM NothingLostTheorem == Spec => []NothingLost
<1>1. IInv => NothingLost  BY IInvNothingLost
<1> QED  BY <1>1, InvariantTheorem, PTL

\* split_telegram_text cuts only inside lines longer than a message.
THEOREM LinesWholeTheorem == Spec => []LinesWhole
<1>1. IInv => LinesWhole  BY IInvLinesWhole
<1> QED  BY <1>1, InvariantTheorem, PTL

\* edit_answer_message is refused a part only for blank lines at a message border
\* with no room for the next line, or for a blank stretch of a long line: blank
\* lines anywhere else, those of format_answer_message among them, are harmless.
THEOREM RefusedTheorem == Spec => []RefusedAtBorder
<1>1. IInv => RefusedAtBorder  BY DEF IInv
<1> QED  BY <1>1, InvariantTheorem, PTL
=============================================================================
