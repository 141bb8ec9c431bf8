-------------------------- MODULE TableRowsProofs --------------------------
(***************************************************************************)
(* What the operators of TableStore do to pages and to the iterator over   *)
(* them, for every page size, number of pages read ahead and number of     *)
(* rows: the facts the invariant of TableStoreProofs rests on.             *)
(*                                                                         *)
(* FlattenSeq is a function that CHOOSE picks by its equation, and what it *)
(* computes follows by induction over numbers. SetInduction states that as *)
(* a fact about a set, which the provers can apply.                        *)
(*                                                                         *)
(* Good says that pages and a position are a table from which at most so   *)
(* many rows are missing as appends have failed, Unwritten the same while  *)
(* the last row is not in its page yet. Walks says where an iterator is    *)
(* that has passed some rows of a table; Whole that its list and the pages *)
(* hold together every row that is left.                                   *)
(***************************************************************************)
EXTENDS TableStore, SequenceTheorems, WellFoundedInduction, TLAPS

\* A set that holds 0 and the successors of its numbers holds every number:
\* a number outside of it would have a least one.
LEMMA SetInduction ==
    ASSUME NEW S, 0 \in S, \A n \in Nat : n \in S => n + 1 \in S
    PROVE  Nat \subseteq S
<1> DEFINE less == OpToRel(<, Nat)
           rest == Nat \ S
<1>1. SUFFICES ASSUME rest # {} PROVE FALSE
  OBVIOUS
<1>2. rest \subseteq Nat
  OBVIOUS
<1>3. IsWellFoundedOn(less, Nat)
  BY NatLessThanWellFounded
<1>4. \A x, y \in Nat : x < y => <<x, y>> \in less
  BY DEF OpToRel
<1> HIDE DEF less
<1>5. PICK x \in rest : \A y \in rest : <<y, x>> \notin less
  <2> HIDE DEF rest
  <2> QED
    BY <1>1, <1>2, <1>3, WFMin
<1>6. x # 0 /\ x \in Nat /\ x - 1 \in Nat
  BY <1>5
<1>7. x - 1 \notin rest
  <2>1. x - 1 < x
    BY <1>6
  <2>2. <<x - 1, x>> \in less
    BY <1>4, <1>6, <2>1
  <2> HIDE DEF rest
  <2> QED
    BY <1>5, <2>2
<1>8. x - 1 \in S /\ (x - 1) + 1 = x /\ x \notin S
  BY <1>5, <1>6, <1>7
<1> QED
  BY <1>6, <1>8

-----------------------------------------------------------------------------
(* FlattenSeq.                                                             *)

\* The first n sequences of g one after the other.
Flat(g, n) == FlattenSeq([i \in 1..n |-> g[i]])

\* The function FlattenSeq takes, over the first n.
Flattens(f, g, n) == f = [i \in 1..n |-> IF i = 1 THEN g[i] ELSE f[i - 1] \o g[i]]

\* There is such a function, so that FlattenSeq is its last value.
LEMMA FlattensExists ==
    ASSUME NEW S, NEW n \in Nat, NEW g, \A i \in 1..n : g[i] \in Seq(S)
    PROVE  \E f \in [1..n -> Seq(S)] : Flattens(f, g, n)
<1> DEFINE good == {m \in Nat : m <= n => \E f \in [1..m -> Seq(S)] : Flattens(f, g, m)}
<1>1. 0 \in good
  <2>1. [i \in 1..0 |-> <<>>] \in [1..0 -> Seq(S)]
    OBVIOUS
  <2>2. Flattens([i \in 1..0 |-> <<>>], g, 0)
    BY DEF Flattens
  <2> QED
    BY <2>1, <2>2
<1>2. ASSUME NEW m \in Nat, m \in good PROVE m + 1 \in good
  <2>1. SUFFICES ASSUME m + 1 <= n
                 PROVE  \E f \in [1..(m + 1) -> Seq(S)] : Flattens(f, g, m + 1)
    OBVIOUS
  <2>2. PICK f \in [1..m -> Seq(S)] : Flattens(f, g, m)
    BY <1>2, <2>1
  <2> DEFINE last == IF m + 1 = 1 THEN g[m + 1] ELSE f[m] \o g[m + 1]
             h == [i \in 1..(m + 1) |-> IF i = m + 1 THEN last ELSE f[i]]
  <2>3. last \in Seq(S)
    <3>1. g[m + 1] \in Seq(S)
      BY <2>1
    <3>2. m + 1 # 1 => f[m] \in Seq(S)
      BY <2>2
    <3> QED
      BY <3>1, <3>2
  <2> HIDE DEF last
  <2>4. h \in [1..(m + 1) -> Seq(S)]
    BY <2>2, <2>3
  <2>5. ASSUME NEW i \in 1..(m + 1)
        PROVE  h[i] = IF i = 1 THEN g[i] ELSE h[i - 1] \o g[i]
    <3>1. CASE i = m + 1
      <4>1. h[i] = last /\ (i # 1 => h[i - 1] = f[m])
        BY <3>1
      <4> QED
        BY <3>1, <4>1 DEF last
    <3>2. CASE i # m + 1
      <4>1. i \in 1..m /\ h[i] = f[i] /\ (i # 1 => h[i - 1] = f[i - 1])
        BY <3>2
      <4>2. f[i] = IF i = 1 THEN g[i] ELSE f[i - 1] \o g[i]
        BY <2>2, <4>1 DEF Flattens
      <4> QED
        BY <4>1, <4>2
    <3> QED
      BY <3>1, <3>2
  <2>6. Flattens(h, g, m + 1)
    <3> DEFINE r == [i \in 1..(m + 1) |-> IF i = 1 THEN g[i] ELSE h[i - 1] \o g[i]]
    <3>1. \A i \in 1..(m + 1) : h[i] = r[i]
      BY <2>5
    <3>2. DOMAIN h = 1..(m + 1) /\ DOMAIN r = 1..(m + 1)
      OBVIOUS
    <3>3. h = r
      <4>1. h = [i \in 1..(m + 1) |-> h[i]] /\ r = [i \in 1..(m + 1) |-> r[i]]
        OBVIOUS
      <4> HIDE DEF h, r
      <4> QED
        BY <3>1, <4>1
    <3> QED
      BY <3>3 DEF Flattens
  <2> QED
    BY <2>4, <2>6
<1> HIDE DEF good
<1>3. n \in good
  BY <1>1, <1>2, SetInduction
<1> QED
  BY <1>3 DEF good

\* Two of them agree as far as both go.
LEMMA FlattensAgree ==
    ASSUME NEW n \in Nat, NEW m \in Nat, n <= m, NEW g, NEW f, NEW h,
           Flattens(f, g, n), Flattens(h, g, m)
    PROVE  \A i \in 1..n : f[i] = h[i]
<1> DEFINE good == {k \in Nat : \A i \in 1..n : i <= k => f[i] = h[i]}
<1>1. 0 \in good
  OBVIOUS
<1>2. ASSUME NEW k \in Nat, k \in good PROVE k + 1 \in good
  <2>1. SUFFICES ASSUME k + 1 \in 1..n PROVE f[k + 1] = h[k + 1]
    BY <1>2
  <2>2. /\ f[k + 1] = IF k + 1 = 1 THEN g[k + 1] ELSE f[k] \o g[k + 1]
        /\ h[k + 1] = IF k + 1 = 1 THEN g[k + 1] ELSE h[k] \o g[k + 1]
    <3>1. k + 1 \in 1..m /\ (k + 1) - 1 = k
      BY <2>1
    <3> QED
      BY <2>1, <3>1 DEF Flattens
  <2>3. k + 1 # 1 => f[k] = h[k]
    BY <1>2, <2>1
  <2> QED
    BY <2>2, <2>3
<1> HIDE DEF good
<1>3. n \in good
  BY <1>1, <1>2, SetInduction
<1> QED
  BY <1>3 DEF good

\* FlattenSeq is the last value of such a function.
LEMMA FlatIsLast ==
    ASSUME NEW S, NEW n \in Nat \ {0}, NEW g, \A i \in 1..n : g[i] \in Seq(S)
    PROVE  \E f \in [1..n -> Seq(S)] : Flattens(f, g, n) /\ Flat(g, n) = f[n]
<1> DEFINE s == [i \in 1..n |-> g[i]]
           F == CHOOSE f : f = [i \in 1..n |-> IF i = 1 THEN s[i] ELSE f[i - 1] \o s[i]]
<1>1. Len(s) = n /\ \A i \in 1..n : s[i] = g[i]
  OBVIOUS
<1>2. Flat(g, n) = F[n]
  BY <1>1 DEF Flat, FlattenSeq
<1>3. PICK f \in [1..n -> Seq(S)] : Flattens(f, g, n)
  BY FlattensExists
<1>4. f = [i \in 1..n |-> IF i = 1 THEN s[i] ELSE f[i - 1] \o s[i]]
  <2>1. \A i \in 1..n : (IF i = 1 THEN g[i] ELSE f[i - 1] \o g[i])
                            = IF i = 1 THEN s[i] ELSE f[i - 1] \o s[i]
    BY <1>1
  <2> HIDE DEF s
  <2> QED
    BY <1>3, <2>1 DEF Flattens
<1>5. F = [i \in 1..n |-> IF i = 1 THEN s[i] ELSE F[i - 1] \o s[i]]
  BY <1>4
<1>6. Flattens(F, g, n)
  <2> HIDE DEF F
  <2>1. \A i \in 1..n : (IF i = 1 THEN g[i] ELSE F[i - 1] \o g[i])
                            = IF i = 1 THEN s[i] ELSE F[i - 1] \o s[i]
    BY <1>1
  <2> HIDE DEF s
  <2> QED
    BY <1>5, <2>1 DEF Flattens
<1> HIDE DEF F
<1>7. F[n] = f[n]
  BY <1>3, <1>6, FlattensAgree
<1> QED
  BY <1>2, <1>3, <1>7

\* A sequence more leaves the values before as they were.
LEMMA FlattensLonger ==
    ASSUME NEW n \in Nat \ {0}, NEW g, NEW f, NEW h, Flattens(f, g, n), Flattens(h, g, n + 1)
    PROVE  f[n] = h[n]
<1>1. n \in Nat /\ n + 1 \in Nat /\ n <= n + 1 /\ n \in 1..n
  OBVIOUS
<1>2. \A i \in 1..n : f[i] = h[i]
  BY <1>1, FlattensAgree
<1> QED
  BY <1>1, <1>2

\* What FlattenSeq is: of nothing it is nothing, ...
LEMMA FlatZero == \A g : Flat(g, 0) = <<>>
<1> TAKE g
<1>1. [i \in 1..0 |-> g[i]] = <<>> /\ Len(<<>>) = 0
  OBVIOUS
<1> QED
  BY <1>1 DEF Flat, FlattenSeq

\* What FlattenSeq makes of sequences is a sequence.
LEMMA FlatType ==
    ASSUME NEW S, NEW n \in Nat, NEW g, \A i \in 1..n : g[i] \in Seq(S)
    PROVE  Flat(g, n) \in Seq(S)
<1>1. CASE n = 0
  <2>1. Flat(g, 0) = <<>>
    BY FlatZero
  <2>2. <<>> \in Seq(S)
    OBVIOUS
  <2> QED
    BY <1>1, <2>1, <2>2
<1>2. CASE n # 0
  <2>1. PICK f \in [1..n -> Seq(S)] : Flat(g, n) = f[n]
    BY <1>2, FlatIsLast
  <2> QED
    BY <1>2, <2>1
<1> QED
  BY <1>1, <1>2

\* ... and one sequence more at the end.
LEMMA FlatStep ==
    ASSUME NEW S, NEW n \in Nat, NEW g, \A i \in 1..(n + 1) : g[i] \in Seq(S)
    PROVE  Flat(g, n + 1) = Flat(g, n) \o g[n + 1]
<1>1. PICK h \in [1..(n + 1) -> Seq(S)] :
           Flattens(h, g, n + 1) /\ Flat(g, n + 1) = h[n + 1]
  <2>1. n + 1 \in Nat \ {0}
    OBVIOUS
  <2> QED
    BY <2>1, FlatIsLast
<1>2. h[n + 1] = IF n + 1 = 1 THEN g[n + 1] ELSE h[n] \o g[n + 1]
  <2>1. n + 1 \in 1..(n + 1) /\ (n + 1) - 1 = n
    OBVIOUS
  <2>2. h = [i \in 1..(n + 1) |-> IF i = 1 THEN g[i] ELSE h[i - 1] \o g[i]]
    BY <1>1 DEF Flattens
  <2>3. h[n + 1] = IF n + 1 = 1 THEN g[n + 1] ELSE h[(n + 1) - 1] \o g[n + 1]
    BY <2>1, <2>2
  <2> QED
    BY <2>1, <2>3
<1>3. CASE n = 0
  <2>1. Flat(g, n) = <<>> /\ g[n + 1] \in Seq(S)
    BY <1>3, FlatZero
  <2>2. <<>> \o g[n + 1] = g[n + 1]
    BY <2>1
  <2> QED
    BY <1>1, <1>2, <1>3, <2>1, <2>2
<1>4. CASE n # 0
  <2>1. PICK f \in [1..n -> Seq(S)] : Flattens(f, g, n) /\ Flat(g, n) = f[n]
    <3>1. n \in Nat \ {0} /\ \A i \in 1..n : g[i] \in Seq(S)
      BY <1>4
    <3> QED
      BY <3>1, FlatIsLast
  <2>2. f[n] = h[n]
    <3>1. n \in Nat \ {0}
      BY <1>4
    <3> QED
      BY <1>1, <2>1, <3>1, FlattensLonger
  <2>3. n + 1 # 1
    BY <1>4
  <2> QED
    BY <1>1, <1>2, <2>1, <2>2, <2>3
<1> QED
  BY <1>3, <1>4

\* FlattenSeq looks at nothing but the sequences.
LEMMA FlatSame ==
    ASSUME NEW n \in Nat, NEW g, NEW h, \A i \in 1..n : g[i] = h[i]
    PROVE  Flat(g, n) = Flat(h, n)
BY DEF Flat

-----------------------------------------------------------------------------
(* The rows of pages, and Rows and Without, as sequences.                  *)

\* All the pages from the a-th to the b-th are sequences of rows.
PagesThere(pages, a, b) == \A k \in a..b : pages[k] \in Seq(Row)

\* The function whose first values Rows flattens.
From(pages, a) == [k \in Nat |-> pages[a + k - 1]]

\* Rows flattens the first pages from a on.
LEMMA RowsFlat ==
    ASSUME NEW pages, NEW a \in Nat \ {0}, NEW b \in Int
    PROVE  Rows(pages, a, b) = Flat(From(pages, a), IF a <= b THEN b - a + 1 ELSE 0)
<1> DEFINE n == IF a <= b THEN b - a + 1 ELSE 0
<1>1. n \in Nat
  OBVIOUS
<1>2. \A k \in 1..n : k \in Nat
  OBVIOUS
<1> HIDE DEF n
<1>3. [k \in 1..n |-> pages[a + k - 1]] = [k \in 1..n |-> From(pages, a)[k]]
  BY <1>2 DEF From
<1>4. Rows(pages, a, b) = FlattenSeq([k \in 1..n |-> pages[a + k - 1]])
  BY DEF Rows, n
<1>5. Flat(From(pages, a), n) = FlattenSeq([k \in 1..n |-> From(pages, a)[k]])
  BY DEF Flat
<1> QED
  BY <1>3, <1>4, <1>5 DEF n

\* No pages, no rows.
LEMMA RowsEmpty ==
    ASSUME NEW pages, NEW a \in Nat \ {0}, NEW b \in Int, b < a
    PROVE  Rows(pages, a, b) = <<>>
<1>1. Rows(pages, a, b) = Flat(From(pages, a), 0)
  BY RowsFlat
<1> QED
  BY <1>1, FlatZero

\* The rows of pages are a sequence of rows.
LEMMA RowsType ==
    ASSUME NEW pages, NEW a \in Nat \ {0}, NEW b \in Int, PagesThere(pages, a, b)
    PROVE  Rows(pages, a, b) \in Seq(Row)
<1>1. CASE b < a
  <2>1. Rows(pages, a, b) = <<>> /\ <<>> \in Seq(Row)
    BY <1>1, RowsEmpty
  <2> QED
    BY <2>1
<1>2. CASE a <= b
  <2>1. b - a + 1 \in Nat
    BY <1>2
  <2>2. \A k \in 1..(b - a + 1) : From(pages, a)[k] \in Seq(Row)
    <3> TAKE k \in 1..(b - a + 1)
    <3>1. k \in Nat /\ a + k - 1 \in a..b
      BY <1>2
    <3> QED
      BY <3>1 DEF From, PagesThere
  <2>3. Flat(From(pages, a), b - a + 1) \in Seq(Row)
    BY <2>1, <2>2, FlatType
  <2> QED
    BY <1>2, <2>3, RowsFlat
<1> QED
  BY <1>1, <1>2

\* One page more at the end.
LEMMA RowsBack ==
    ASSUME NEW pages, NEW a \in Nat \ {0}, NEW b \in Int, a <= b + 1, PagesThere(pages, a, b + 1)
    PROVE  Rows(pages, a, b + 1) = Rows(pages, a, b) \o pages[b + 1]
<1> DEFINE n == b - a + 1
<1>1. n \in Nat /\ (b + 1) - a + 1 = n + 1 /\ n + 1 \in Nat /\ a + (n + 1) - 1 = b + 1
  OBVIOUS
<1>2. \A k \in 1..(n + 1) : From(pages, a)[k] \in Seq(Row)
  <2> TAKE k \in 1..(n + 1)
  <2>1. k \in Nat /\ a + k - 1 \in a..(b + 1)
    OBVIOUS
  <2> QED
    BY <2>1 DEF From, PagesThere
<1>3. Rows(pages, a, b + 1) = Flat(From(pages, a), n + 1)
  BY <1>1, RowsFlat
<1>4. Rows(pages, a, b) = Flat(From(pages, a), n)
  <2>1. (IF a <= b THEN b - a + 1 ELSE 0) = n
    OBVIOUS
  <2>2. Rows(pages, a, b) = Flat(From(pages, a), IF a <= b THEN b - a + 1 ELSE 0)
    BY RowsFlat
  <2> HIDE DEF n
  <2> QED
    BY <2>1, <2>2
<1>5. From(pages, a)[n + 1] = pages[b + 1]
  BY <1>1 DEF From
<1> HIDE DEF n
<1>6. Flat(From(pages, a), n + 1) = Flat(From(pages, a), n) \o From(pages, a)[n + 1]
  BY <1>1, <1>2, FlatStep
<1> QED
  BY <1>3, <1>4, <1>5, <1>6

\* Rows looks at nothing but the pages.
LEMMA RowsSame ==
    ASSUME NEW pages, NEW other, NEW a \in Nat \ {0}, NEW b \in Int,
           \A k \in a..b : pages[k] = other[k]
    PROVE  Rows(pages, a, b) = Rows(other, a, b)
<1> DEFINE n == IF a <= b THEN b - a + 1 ELSE 0
<1>1. \A k \in 1..n : a + k - 1 \in a..b
  OBVIOUS
<1> HIDE DEF n
<1>2. \A k \in 1..n : pages[a + k - 1] = other[a + k - 1]
  BY <1>1
<1>3. [k \in 1..n |-> pages[a + k - 1]] = [k \in 1..n |-> other[a + k - 1]]
  BY <1>2
<1> QED
  BY <1>3 DEF Rows, n

\* Concatenation of rows is associative.
LEMMA RowsAssociate ==
    ASSUME NEW s \in Seq(Row), NEW t \in Seq(Row), NEW u \in Seq(Row)
    PROVE  (s \o t) \o u = s \o (t \o u)
BY ConcatAssociative

\* The pages can be cut in two anywhere.
LEMMA RowsSplit ==
    ASSUME NEW pages, NEW a \in Nat \ {0}, NEW b \in Int, NEW c \in Int, a <= b + 1, b <= c,
           PagesThere(pages, a, c)
    PROVE  Rows(pages, a, c) = Rows(pages, a, b) \o Rows(pages, b + 1, c)
<1> DEFINE good == {m \in Nat : b + m <= c =>
                      Rows(pages, a, b + m) = Rows(pages, a, b) \o Rows(pages, b + 1, b + m)}
<1>0. b \in Nat /\ b + 1 \in Nat \ {0}
  OBVIOUS
<1>1. Rows(pages, a, b) \in Seq(Row)
  <2>1. PagesThere(pages, a, b)
    BY DEF PagesThere
  <2> QED
    BY <2>1, RowsType
<1>2. 0 \in good
  <2>1. Rows(pages, b + 1, b + 0) = <<>>
    BY <1>0, RowsEmpty
  <2>2. Rows(pages, a, b) \o <<>> = Rows(pages, a, b)
    BY <1>1, ConcatEmptySeq
  <2>3. b + 0 = b
    OBVIOUS
  <2> QED
    BY <2>1, <2>2, <2>3
<1>3. ASSUME NEW m \in Nat, m \in good PROVE m + 1 \in good
  <2>1. SUFFICES ASSUME b + (m + 1) <= c
        PROVE Rows(pages, a, b + (m + 1)) = Rows(pages, a, b) \o Rows(pages, b + 1, b + (m + 1))
    OBVIOUS
  <2> DEFINE d == b + m
  <2>2. d \in Int /\ b + (m + 1) = d + 1 /\ a <= d + 1 /\ b + 1 <= d + 1
    OBVIOUS
  <2>3. Rows(pages, a, d) = Rows(pages, a, b) \o Rows(pages, b + 1, d)
    BY <1>3, <2>1
  <2>4. PagesThere(pages, a, d + 1) /\ PagesThere(pages, b + 1, d + 1) /\ PagesThere(pages, b + 1, d)
        /\ pages[d + 1] \in Seq(Row)
    BY <2>1 DEF PagesThere
  <2> HIDE DEF d
  <2>5. Rows(pages, a, d + 1) = Rows(pages, a, d) \o pages[d + 1]
    BY <2>2, <2>4, RowsBack
  <2>6. Rows(pages, b + 1, d + 1) = Rows(pages, b + 1, d) \o pages[d + 1]
    BY <1>0, <2>2, <2>4, RowsBack
  <2>7. Rows(pages, b + 1, d) \in Seq(Row)
    BY <1>0, <2>2, <2>4, RowsType
  <2>8. (Rows(pages, a, b) \o Rows(pages, b + 1, d)) \o pages[d + 1]
           = Rows(pages, a, b) \o (Rows(pages, b + 1, d) \o pages[d + 1])
    BY <1>1, <2>4, <2>7, RowsAssociate
  <2> QED
    BY <2>2, <2>3, <2>5, <2>6, <2>8
<1> HIDE DEF good
<1>4. c - b \in good
  <2>1. c - b \in Nat
    OBVIOUS
  <2> QED
    BY <1>2, <1>3, <2>1, SetInduction
<1>5. b + (c - b) = c
  OBVIOUS
<1> QED
  BY <1>4, <1>5 DEF good

\* One page more at the front.
LEMMA RowsFront ==
    ASSUME NEW pages, NEW a \in Nat \ {0}, NEW c \in Int, a <= c, PagesThere(pages, a, c)
    PROVE  Rows(pages, a, c) = pages[a] \o Rows(pages, a + 1, c)
<1>1. Rows(pages, a, c) = Rows(pages, a, a) \o Rows(pages, a + 1, c)
  <2>1. a \in Int /\ a <= a + 1
    OBVIOUS
  <2> QED
    BY <2>1, RowsSplit
<1>2. Rows(pages, a, a) = pages[a]
  <2>1. a - 1 \in Int /\ (a - 1) + 1 = a /\ pages[a] \in Seq(Row)
    BY DEF PagesThere
  <2>2. PagesThere(pages, a, (a - 1) + 1)
    BY <2>1 DEF PagesThere
  <2>3. Rows(pages, a, (a - 1) + 1) = Rows(pages, a, a - 1) \o pages[(a - 1) + 1]
    <3>1. a <= (a - 1) + 1
      OBVIOUS
    <3> QED
      BY <2>1, <2>2, <3>1, RowsBack
  <2>4. Rows(pages, a, a - 1) = <<>>
    BY <2>1, RowsEmpty
  <2>5. <<>> \o pages[a] = pages[a]
    BY <2>1
  <2> QED
    BY <2>1, <2>3, <2>4, <2>5
<1> QED
  BY <1>1, <1>2

-----------------------------------------------------------------------------
(* Without.                                                                *)

\* A subsequence and the next row.
LEMMA SubSeqBack ==
    ASSUME NEW rows \in Seq(Row), NEW m \in 1..Len(rows), NEW n \in Nat, m <= n + 1, n + 1 <= Len(rows)
    PROVE  SubSeq(rows, m, n) \o <<rows[n + 1]>> = SubSeq(rows, m, n + 1)
<1>1. n + 1 \in m..Len(rows) /\ (n + 1) - 1 = n
  OBVIOUS
<1>2. SubSeq(rows, m, n + 1) = SubSeq(rows, m, (n + 1) - 1) \o <<rows[n + 1]>>
  BY <1>1, SubSeqRecursiveSecond
<1> QED
  BY <1>1, <1>2

\* What Without takes from each row, and from the first n.
Pick(row, gone)      == IF row \in gone THEN <<>> ELSE <<row>>
Picks(rows, gone)    == [i \in Nat |-> Pick(rows[i], gone)]
Kept(rows, gone, n)  == Flat(Picks(rows, gone), n)

\* Without takes it from all.
LEMMA WithoutKept ==
    ASSUME NEW rows \in Seq(Row), NEW gone
    PROVE  Without(rows, gone) = Kept(rows, gone, Len(rows))
<1> DEFINE n == Len(rows)
<1>1. \A i \in 1..n : i \in Nat
  OBVIOUS
<1>2. Without(rows, gone) = FlattenSeq([i \in 1..n |-> Pick(rows[i], gone)])
  BY DEF Without, Pick
<1> HIDE DEF n
<1>3. [i \in 1..n |-> Pick(rows[i], gone)] = [i \in 1..n |-> Picks(rows, gone)[i]]
  BY <1>1 DEF Picks
<1>4. Kept(rows, gone, n) = FlattenSeq([i \in 1..n |-> Picks(rows, gone)[i]])
  BY DEF Kept, Flat
<1> QED
  BY <1>2, <1>3, <1>4 DEF n

\* It takes sequences of rows.
LEMMA PicksType ==
    ASSUME NEW rows \in Seq(Row), NEW gone
    PROVE  \A i \in 1..Len(rows) : Picks(rows, gone)[i] \in Seq(Row)
<1> TAKE i \in 1..Len(rows)
<1>1. i \in Nat /\ rows[i] \in Row
  OBVIOUS
<1>2. <<>> \in Seq(Row) /\ <<rows[i]>> \in Seq(Row)
  BY <1>1
<1> QED
  BY <1>1, <1>2 DEF Picks, Pick

\* Of no rows it takes nothing, ...
LEMMA KeptZero == \A rows, gone : Kept(rows, gone, 0) = <<>>
BY FlatZero DEF Kept

\* ... of rows it takes rows, ...
LEMMA KeptType ==
    ASSUME NEW rows \in Seq(Row), NEW gone, NEW n \in 0..Len(rows)
    PROVE  Kept(rows, gone, n) \in Seq(Row)
<1>1. n \in Nat /\ \A i \in 1..n : i \in 1..Len(rows)
  OBVIOUS
<1>2. \A i \in 1..n : Picks(rows, gone)[i] \in Seq(Row)
  BY <1>1, PicksType
<1> QED
  BY <1>1, <1>2, FlatType DEF Kept

\* ... and of one row more that row, unless it is gone.
LEMMA KeptStep ==
    ASSUME NEW rows \in Seq(Row), NEW gone, NEW n \in Nat, n + 1 <= Len(rows)
    PROVE  Kept(rows, gone, n + 1) = Kept(rows, gone, n) \o Pick(rows[n + 1], gone)
<1>1. \A i \in 1..(n + 1) : i \in 1..Len(rows)
  OBVIOUS
<1>2. \A i \in 1..(n + 1) : Picks(rows, gone)[i] \in Seq(Row)
  BY <1>1, PicksType
<1>3. Flat(Picks(rows, gone), n + 1) = Flat(Picks(rows, gone), n) \o Picks(rows, gone)[n + 1]
  BY <1>2, FlatStep
<1>4. Picks(rows, gone)[n + 1] = Pick(rows[n + 1], gone)
  BY DEF Picks
<1> QED
  BY <1>3, <1>4 DEF Kept

\* Without one row more at the end.
LEMMA WithoutAppend ==
    ASSUME NEW rows \in Seq(Row), NEW row \in Row, NEW gone
    PROVE  Without(rows \o <<row>>, gone) = Without(rows, gone) \o Pick(row, gone)
<1> DEFINE n == Len(rows)
           more == rows \o <<row>>
<1>1. n \in Nat /\ more \in Seq(Row) /\ Len(more) = n + 1 /\ more[n + 1] = row
      /\ n + 1 <= Len(more) /\ \A i \in 1..n : more[i] = rows[i]
  OBVIOUS
<1>2. Without(more, gone) = Kept(more, gone, n + 1)
  BY <1>1, WithoutKept
<1>3. Without(rows, gone) = Kept(rows, gone, n)
  BY WithoutKept
<1> HIDE DEF n, more
<1>4. Kept(more, gone, n + 1) = Kept(more, gone, n) \o Pick(row, gone)
  BY <1>1, KeptStep
<1>5. Kept(more, gone, n) = Kept(rows, gone, n)
  <2>1. \A i \in 1..n : Picks(more, gone)[i] = Picks(rows, gone)[i]
    BY <1>1 DEF Picks
  <2> QED
    BY <1>1, <2>1, FlatSame DEF Kept
<1> QED
  BY <1>2, <1>3, <1>4, <1>5 DEF more

\* Without rows that are not there.
LEMMA WithoutNone ==
    ASSUME NEW rows \in Seq(Row), NEW gone, \A i \in 1..Len(rows) : rows[i] \notin gone
    PROVE  Without(rows, gone) = rows
<1> DEFINE good == {n \in Nat : n <= Len(rows) => Kept(rows, gone, n) = SubSeq(rows, 1, n)}
<1>1. 0 \in good
  <2>1. SubSeq(rows, 1, 0) = <<>>
    OBVIOUS
  <2> QED
    BY <2>1, KeptZero
<1>2. ASSUME NEW n \in Nat, n \in good PROVE n + 1 \in good
  <2>1. SUFFICES ASSUME n + 1 <= Len(rows)
                 PROVE  Kept(rows, gone, n + 1) = SubSeq(rows, 1, n + 1)
    OBVIOUS
  <2>2. Kept(rows, gone, n + 1) = SubSeq(rows, 1, n) \o <<rows[n + 1]>>
    <3>1. Kept(rows, gone, n) = SubSeq(rows, 1, n) /\ rows[n + 1] \notin gone
      BY <1>2, <2>1
    <3>2. Kept(rows, gone, n + 1) = Kept(rows, gone, n) \o Pick(rows[n + 1], gone)
      BY <2>1, KeptStep
    <3> QED
      BY <3>1, <3>2 DEF Pick
  <2>3. SubSeq(rows, 1, n) \o <<rows[n + 1]>> = SubSeq(rows, 1, n + 1)
    <3>1. 1 \in 1..Len(rows) /\ 1 <= n + 1
      BY <2>1
    <3> HIDE DEF good
    <3> QED
      BY <2>1, <3>1, SubSeqBack
  <2> QED
    BY <2>2, <2>3
<1> HIDE DEF good
<1>3. Len(rows) \in good
  BY <1>1, <1>2, SetInduction
<1>4. Kept(rows, gone, Len(rows)) = SubSeq(rows, 1, Len(rows))
  BY <1>3 DEF good
<1>5. SubSeq(rows, 1, Len(rows)) = rows
  OBVIOUS
<1> QED
  BY <1>4, <1>5, WithoutKept

\* Without a row that is there once.
LEMMA WithoutOne ==
    ASSUME NEW rows \in Seq(Row), NEW p \in 1..Len(rows),
           \A i \in 1..Len(rows) : i # p => rows[i] # rows[p]
    PROVE  Without(rows, {rows[p]}) = RemoveAt(rows, p)
<1> DEFINE gone == {rows[p]}
           left(n) == IF n < p THEN SubSeq(rows, 1, n)
                               ELSE SubSeq(rows, 1, p - 1) \o SubSeq(rows, p + 1, n)
           good == {n \in Nat : n <= Len(rows) => Kept(rows, gone, n) = left(n)}
<1>1. 0 \in good
  <2>1. left(0) = <<>>
    OBVIOUS
  <2> HIDE DEF left, gone
  <2> QED
    BY <2>1, KeptZero
<1>2. ASSUME NEW n \in Nat, n \in good PROVE n + 1 \in good
  <2>1. SUFFICES ASSUME n + 1 <= Len(rows)
                 PROVE  Kept(rows, gone, n + 1) = left(n + 1)
    OBVIOUS
  <2>2. Kept(rows, gone, n + 1) = left(n) \o Pick(rows[n + 1], gone)
    <3>1. Kept(rows, gone, n) = left(n)
      BY <1>2, <2>1
    <3> HIDE DEF good, left, gone
    <3>2. Kept(rows, gone, n + 1) = Kept(rows, gone, n) \o Pick(rows[n + 1], gone)
      BY <2>1, KeptStep
    <3> QED
      BY <3>1, <3>2
  <2>3. left(n) \o Pick(rows[n + 1], gone) = left(n + 1)
    <3>1. CASE n + 1 < p
      <4>1. Pick(rows[n + 1], gone) = <<rows[n + 1]>>
        BY <2>1, <3>1 DEF Pick
      <4>2. SubSeq(rows, 1, n) \o <<rows[n + 1]>> = SubSeq(rows, 1, n + 1)
        <5>1. 1 \in 1..Len(rows) /\ 1 <= n + 1
          BY <2>1
        <5> HIDE DEF good, left, gone
        <5> QED
          BY <2>1, <5>1, SubSeqBack
      <4>3. left(n) = SubSeq(rows, 1, n) /\ left(n + 1) = SubSeq(rows, 1, n + 1)
        BY <3>1
      <4> HIDE DEF left
      <4> QED
        BY <4>1, <4>2, <4>3
    <3>2. CASE n + 1 = p
      <4>1. Pick(rows[n + 1], gone) = <<>>
        BY <3>2 DEF Pick
      <4>2. left(n) = SubSeq(rows, 1, n) /\ left(n + 1) = SubSeq(rows, 1, n) \o SubSeq(rows, p + 1, n + 1)
        BY <3>2
      <4>3. SubSeq(rows, p + 1, n + 1) = <<>>
        BY <3>2
      <4>4. SubSeq(rows, 1, n) \in Seq(Row)
        BY <2>1
      <4>5. SubSeq(rows, 1, n) \o <<>> = SubSeq(rows, 1, n)
        BY <4>4, ConcatEmptySeq
      <4> HIDE DEF left
      <4> QED
        BY <4>1, <4>2, <4>3, <4>5
    <3>3. CASE n + 1 > p
      <4>1. Pick(rows[n + 1], gone) = <<rows[n + 1]>>
        BY <2>1, <3>3 DEF Pick
      <4>2. SubSeq(rows, p + 1, n) \o <<rows[n + 1]>> = SubSeq(rows, p + 1, n + 1)
        <5>1. p + 1 \in 1..Len(rows) /\ p + 1 <= n + 1
          BY <2>1, <3>3
        <5> HIDE DEF good, left, gone
        <5> QED
          BY <2>1, <5>1, SubSeqBack
      <4>3. /\ SubSeq(rows, 1, p - 1) \in Seq(Row)
            /\ SubSeq(rows, p + 1, n) \in Seq(Row) /\ <<rows[n + 1]>> \in Seq(Row)
        BY <2>1, <3>3
      <4>4. (SubSeq(rows, 1, p - 1) \o SubSeq(rows, p + 1, n)) \o <<rows[n + 1]>>
              = SubSeq(rows, 1, p - 1) \o (SubSeq(rows, p + 1, n) \o <<rows[n + 1]>>)
        <5> HIDE DEF good, left, gone
        <5> QED
          BY <4>3, ConcatAssociative
      <4>5. /\ left(n) = SubSeq(rows, 1, p - 1) \o SubSeq(rows, p + 1, n)
            /\ left(n + 1) = SubSeq(rows, 1, p - 1) \o SubSeq(rows, p + 1, n + 1)
        BY <3>3
      <4> HIDE DEF left
      <4> QED
        BY <4>1, <4>2, <4>4, <4>5
    <3>4. n + 1 < p \/ n + 1 = p \/ n + 1 > p
      OBVIOUS
    <3> HIDE DEF left, gone, good
    <3> QED
      BY <3>1, <3>2, <3>3, <3>4
  <2> QED
    BY <2>2, <2>3
<1>3. Len(rows) \in good
  <2> HIDE DEF good
  <2> QED
    BY <1>1, <1>2, SetInduction
<1>4. Kept(rows, gone, Len(rows)) = left(Len(rows))
  <2>1. Len(rows) \in Nat
    OBVIOUS
  <2> HIDE DEF left, gone
  <2> QED
    BY <1>3, <2>1
<1>5. left(Len(rows)) = RemoveAt(rows, p)
  <2>1. ~ (Len(rows) < p)
    OBVIOUS
  <2>2. left(Len(rows)) = SubSeq(rows, 1, p - 1) \o SubSeq(rows, p + 1, Len(rows))
    BY <2>1
  <2> QED
    BY <2>2 DEF RemoveAt
<1> QED
  BY <1>4, <1>5, WithoutKept

\* Without some rows, and then without one more.
LEMMA WithoutTwice ==
    ASSUME NEW rows \in Seq(Row), NEW gone, NEW row
    PROVE  Without(Without(rows, gone), {row}) = Without(rows, gone \cup {row})
<1> DEFINE all == gone \cup {row}
           good == {n \in Nat : n <= Len(rows) =>
                      Without(Kept(rows, gone, n), {row}) = Kept(rows, all, n)}
<1>1. 0 \in good
  <2>1. Without(<<>>, {row}) = <<>>
    <3>1. <<>> \in Seq(Row) /\ Len(<<>>) = 0
      OBVIOUS
    <3> QED
      BY <3>1, WithoutKept, KeptZero
  <2> QED
    BY <2>1, KeptZero
<1>2. ASSUME NEW n \in Nat, n \in good PROVE n + 1 \in good
  <2>1. SUFFICES ASSUME n + 1 <= Len(rows)
                 PROVE  Without(Kept(rows, gone, n + 1), {row}) = Kept(rows, all, n + 1)
    OBVIOUS
  <2> DEFINE next == rows[n + 1]
             kept == Kept(rows, gone, n)
  <2>2. kept \in Seq(Row) /\ next \in Row
    BY <2>1, KeptType
  <2>3. Without(kept, {row}) = Kept(rows, all, n)
    BY <1>2, <2>1
  <2> HIDE DEF good
  <2>4. Kept(rows, gone, n + 1) = kept \o Pick(next, gone)
    BY <2>1, KeptStep
  <2>5. Kept(rows, all, n + 1) = Kept(rows, all, n) \o Pick(next, all)
    <3> HIDE DEF all
    <3> QED
      BY <2>1, KeptStep
  <2>6. Kept(rows, all, n) \in Seq(Row)
    <3> HIDE DEF all
    <3> QED
      BY <2>1, KeptType
  <2> HIDE DEF kept, next
  <2>7. CASE next \in gone
    <3>1. Pick(next, gone) = <<>> /\ Pick(next, all) = <<>>
      BY <2>7 DEF Pick
    <3>2. kept \o <<>> = kept /\ Kept(rows, all, n) \o <<>> = Kept(rows, all, n)
      BY <2>2, <2>6, ConcatEmptySeq
    <3> QED
      BY <2>3, <2>4, <2>5, <3>1, <3>2
  <2>8. CASE next \notin gone
    <3>1. Pick(next, gone) = <<next>> /\ Pick(next, all) = Pick(next, {row})
      BY <2>8 DEF Pick
    <3>2. Without(kept \o <<next>>, {row}) = Without(kept, {row}) \o Pick(next, {row})
      BY <2>2, WithoutAppend
    <3> QED
      BY <2>3, <2>4, <2>5, <3>1, <3>2
  <2> QED
    BY <2>7, <2>8
<1>3. Len(rows) \in good
  <2> HIDE DEF good
  <2> QED
    BY <1>1, <1>2, SetInduction
<1>4. Without(Kept(rows, gone, Len(rows)), {row}) = Kept(rows, all, Len(rows))
  BY <1>3
<1> QED
  BY <1>4, WithoutKept

\* What is without some rows has none of them.
Gone(rows, gone) == \A i \in 1..Len(rows) : rows[i] \notin gone

LEMMA WithoutGone ==
    ASSUME NEW rows \in Seq(Row), NEW gone
    PROVE  Gone(Without(rows, gone), gone)
<1> DEFINE good == {n \in Nat : n <= Len(rows) => Gone(Kept(rows, gone, n), gone)}
<1>1. 0 \in good
  <2>1. Len(<<>>) = 0
    OBVIOUS
  <2> QED
    BY <2>1, KeptZero DEF Gone
<1>2. ASSUME NEW n \in Nat, n \in good PROVE n + 1 \in good
  <2>1. SUFFICES ASSUME n + 1 <= Len(rows) PROVE Gone(Kept(rows, gone, n + 1), gone)
    OBVIOUS
  <2> DEFINE next == rows[n + 1]
             kept == Kept(rows, gone, n)
  <2>2. kept \in Seq(Row) /\ next \in Row
    BY <2>1, KeptType
  <2>3. Gone(kept, gone)
    BY <1>2, <2>1
  <2> HIDE DEF good
  <2>4. Kept(rows, gone, n + 1) = kept \o Pick(next, gone)
    BY <2>1, KeptStep
  <2> HIDE DEF kept, next
  <2>5. CASE next \in gone
    <3>1. Pick(next, gone) = <<>>
      BY <2>5 DEF Pick
    <3>2. kept \o <<>> = kept
      BY <2>2, ConcatEmptySeq
    <3> QED
      BY <2>3, <2>4, <3>1, <3>2
  <2>6. CASE next \notin gone
    <3>1. Pick(next, gone) = <<next>>
      BY <2>6 DEF Pick
    <3>2. /\ Len(kept) \in Nat /\ Len(kept \o <<next>>) = Len(kept) + 1
          /\ \A i \in 1..Len(kept) : (kept \o <<next>>)[i] = kept[i]
          /\ (kept \o <<next>>)[Len(kept) + 1] = next
      BY <2>2
    <3> DEFINE more == kept \o <<next>>
               k    == Len(kept)
    <3> HIDE DEF more, k
    <3>3. ASSUME NEW i \in 1..Len(more) PROVE more[i] \notin gone
      <4>1. k \in Nat /\ Len(more) = k + 1
        BY <3>2 DEF more, k
      <4>2. CASE i = k + 1
        BY <4>2, <3>2, <2>6 DEF more, k
      <4>3. CASE i # k + 1
        <5>1. i \in 1..k
          BY <4>1, <4>3
        <5>2. more[i] = kept[i] /\ kept[i] \notin gone
          BY <5>1, <3>2, <2>3 DEF more, k, Gone
        <5> QED
          BY <5>2
      <4> QED
        BY <4>2, <4>3
    <3> QED
      BY <2>4, <3>1, <3>3 DEF more, Gone
  <2> QED
    BY <2>5, <2>6
<1> HIDE DEF good
<1>3. Len(rows) \in good
  BY <1>1, <1>2, SetInduction
<1> QED
  BY <1>3, WithoutKept DEF good

-----------------------------------------------------------------------------
(* Row numbers: how many rows are before a page.                           *)

RowsBefore(page) == RowsLimit * (page - 1)

\* Arithmetic of pages.
LEMMA RowsBeforeInt ==
    /\ \A page \in Int : RowsBefore(page) \in Int
    /\ RowsBefore(1) = 0
    /\ RowsBefore(0) = -RowsLimit
BY RowsLimitPositive DEF RowsBefore

\* A page more is RowsLimit rows more.
LEMMA RowsBeforeNext == \A page \in Int : RowsBefore(page + 1) = RowsBefore(page) + RowsLimit
BY RowsLimitPositive DEF RowsBefore

\* The rows before a sum of page numbers.
LEMMA RowsBeforeSum ==
    \A a, b \in Int : RowsBefore(a + b) = RowsBefore(a) + RowsBefore(b) + RowsLimit
BY RowsLimitPositive DEF RowsBefore

\* There are no fewer rows before a later page.
LEMMA RowsBeforeOrder ==
    \A a, b \in Int : a <= b => RowsBefore(a) <= RowsBefore(b)
<1> TAKE a, b \in Int
<1>1. SUFFICES ASSUME a <= b PROVE RowsBefore(a) <= RowsBefore(b)
  OBVIOUS
<1>2. \A d \in Nat : RowsLimit * d \in Nat
  BY RowsLimitPositive
<1>3. RowsBefore(b) = RowsBefore(a) + RowsLimit * (b - a)
  BY RowsLimitPositive DEF RowsBefore
<1>4. b - a \in Nat
  BY <1>1
<1>5. RowsLimit * (b - a) \in Nat
  BY <1>2, <1>4
<1> QED
  BY <1>3, <1>5, RowsBeforeInt

\* There are no fewer rows before a page than pages, if a page holds a row.
LEMMA RowsBeforePages ==
    \A page \in Nat : page - 1 <= RowsBefore(page) \/ page = 0
<1> TAKE page \in Nat
<1>1. SUFFICES ASSUME page >= 1 PROVE page - 1 <= RowsBefore(page)
  OBVIOUS
<1>2. RowsLimit - 1 \in Nat /\ page - 1 \in Nat
  BY RowsLimitPositive, <1>1
<1>3. \A x, y \in Nat : x * y \in Nat
  OBVIOUS
<1>4. (RowsLimit - 1) * (page - 1) \in Nat
  BY <1>2, <1>3
<1>5. RowsBefore(page) = (RowsLimit - 1) * (page - 1) + (page - 1)
  BY RowsLimitPositive DEF RowsBefore
<1> QED
  BY <1>2, <1>4, <1>5

\* Of RowsLimit * q + c only the first and the last c give a multiple.
LEMMA MultipleOfRowsLimit ==
    \A q \in Nat : \A c \in 0..RowsLimit :
        (RowsLimit * q + c) % RowsLimit = 0 <=> c \in {0, RowsLimit}
<1> TAKE q \in Nat
<1> TAKE c \in 0..RowsLimit
<1> DEFINE r == RowsLimit
<1>1. r \in Nat /\ r > 0 /\ r * q \in Nat
  BY RowsLimitPositive
<1>2. CASE c = r
  <2>1. r * q + c = r * (q + 1)
    BY <1>1, <1>2
  <2>2. (r * (q + 1)) % r = 0
    BY <1>1
  <2> QED
    BY <1>2, <2>1, <2>2
<1>3. CASE c < r
  <2>1. (r * q + c) % r = c
    BY <1>1, <1>3
  <2> QED
    BY <1>3, <2>1
<1> QED
  BY <1>2, <1>3, RowsLimitPositive

\* A page has been read when the cursor has gone over its last row.
LEMMA PageRead ==
    \A page \in Nat \ {0} : \A c \in 1..RowsLimit :
        (RowsBefore(page) + c) % RowsLimit = 0 <=> c = RowsLimit
<1> TAKE page \in Nat \ {0}
<1> TAKE c \in 1..RowsLimit
<1>1. page - 1 \in Nat /\ c \in 0..RowsLimit /\ c # 0
  BY RowsLimitPositive
<1> QED
  BY <1>1, MultipleOfRowsLimit DEF RowsBefore

\* Between the beginnings of two pages is a multiple of RowsLimit.
LEMMA PagesApart ==
    \A a, b \in Int : a <= b => (RowsBefore(b) - RowsBefore(a)) % RowsLimit = 0
<1> TAKE a, b \in Int
<1>1. SUFFICES ASSUME a <= b PROVE (RowsBefore(b) - RowsBefore(a)) % RowsLimit = 0
  OBVIOUS
<1>2. RowsBefore(b) - RowsBefore(a) = RowsLimit * (b - a) + 0
  BY RowsLimitPositive DEF RowsBefore
<1>3. b - a \in Nat /\ 0 \in 0..RowsLimit
  BY RowsLimitPositive, <1>1
<1> QED
  BY <1>2, <1>3, MultipleOfRowsLimit

-----------------------------------------------------------------------------
(* When pages and a position are a table: Good between two operations, Unwritten *)
(* while a row has its position and key and is not in its page yet.        *)

\* The files of the pages.
Pages == UNION {[D -> Seq(Row)] : D \in SUBSET (Nat \ {0})}

\* What it is to be such files, taken apart ...
LEMMA PagesType ==
    ASSUME NEW pages \in Pages
    PROVE  /\ pages = [p \in DOMAIN pages |-> pages[p]]
           /\ DOMAIN pages \subseteq Nat \ {0}
           /\ \A p \in DOMAIN pages : pages[p] \in Seq(Row)
BY DEF Pages

\* ... and put together.
LEMMA PagesIntro ==
    ASSUME NEW pages, pages = [p \in DOMAIN pages |-> pages[p]], DOMAIN pages \subseteq Nat \ {0},
           \A p \in DOMAIN pages : pages[p] \in Seq(Row)
    PROVE  pages \in Pages
<1>1. pages \in [DOMAIN pages -> Seq(Row)]
  OBVIOUS
<1> QED
  BY <1>1 DEF Pages

\* A page is written.
LEMMA PageWritten ==
    ASSUME NEW pages \in Pages, NEW page \in Nat \ {0}, NEW rows \in Seq(Row)
    PROVE  /\ Written(pages, page, rows) \in Pages
           /\ DOMAIN Written(pages, page, rows) = DOMAIN pages \cup {page}
           /\ Written(pages, page, rows)[page] = rows
           /\ \A p \in DOMAIN pages : p # page => Written(pages, page, rows)[p] = pages[p]
<1> DEFINE after == Written(pages, page, rows)
<1>1. after = [x \in DOMAIN pages \cup {page} |-> IF x = page THEN rows ELSE pages[x]]
  BY DEF Written
<1>2. /\ DOMAIN after = DOMAIN pages \cup {page}
      /\ \A x \in DOMAIN pages \cup {page} : after[x] = IF x = page THEN rows ELSE pages[x]
  BY <1>1
<1> HIDE DEF after
<1>3. \A x \in DOMAIN after : after[x] \in Seq(Row)
  BY <1>2, PagesType
<1>4. DOMAIN after \subseteq Nat \ {0}
  BY <1>2, PagesType
<1>5. after = [x \in DOMAIN after |-> after[x]]
  BY <1>1, <1>2
<1>6. after \in Pages
  BY <1>3, <1>4, <1>5, PagesIntro
<1> QED
  BY <1>2, <1>6 DEF after

\* Pages that exist are sequences of rows.
LEMMA PagesThereIn ==
    ASSUME NEW pages \in Pages, NEW a \in Nat, NEW b \in Int, a..b \subseteq DOMAIN pages
    PROVE  PagesThere(pages, a, b)
BY PagesType DEF PagesThere

Ascending(rows) == \A i, j \in 1..Len(rows) : i < j => rows[i] < rows[j]
UpTo(rows, key) == \A i \in 1..Len(rows) : rows[i] <= key

Full(pages, n, short) ==
    \A k \in 0..n : /\ Len(Rows(pages, 1, k)) <= RowsBefore(k + 1)
                    /\ RowsBefore(k + 1) <= Len(Rows(pages, 1, k)) + short

Good(pages, page, row, pk, short) ==
    /\ 1..page \subseteq DOMAIN pages
    /\ Ascending(Rows(pages, 1, page)) /\ UpTo(Rows(pages, 1, page), pk)
    /\ RowsBefore(page) + row <= pk
    /\ Len(Rows(pages, 1, page)) <= RowsBefore(page) + row
    /\ RowsBefore(page) + row <= Len(Rows(pages, 1, page)) + short
    /\ Full(pages, page - 1, short)

Unwritten(pages, page, row, pk, short) ==
    /\ row >= 1 /\ page >= 1
    /\ 1..page \subseteq DOMAIN pages
    /\ Ascending(Rows(pages, 1, page)) /\ UpTo(Rows(pages, 1, page), pk - 1)
    /\ RowsBefore(page) + row <= pk
    /\ Len(Rows(pages, 1, page)) < RowsBefore(page) + row
    /\ RowsBefore(page) + row <= Len(Rows(pages, 1, page)) + short + 1
    /\ Full(pages, page - 1, short)

\* Good looks at nothing but the pages of the table.
LEMMA GoodSame ==
    ASSUME NEW pages, NEW after, NEW page \in Nat, NEW row, NEW pk, NEW short,
           Good(pages, page, row, pk, short), 1..page \subseteq DOMAIN after,
           \A k \in 1..page : after[k] = pages[k]
    PROVE  Good(after, page, row, pk, short)
<1>1. \A k \in Int : k <= page => Rows(after, 1, k) = Rows(pages, 1, k)
  <2> TAKE k \in Int
  <2>1. SUFFICES ASSUME k <= page PROVE Rows(after, 1, k) = Rows(pages, 1, k)
    OBVIOUS
  <2>2. \A n \in 1..k : after[n] = pages[n]
    BY <2>1
  <2> QED
    BY <2>2, RowsSame
<1>2. Full(after, page - 1, short)
  <2> SUFFICES ASSUME NEW k \in 0..(page - 1)
               PROVE  /\ Len(Rows(after, 1, k)) <= RowsBefore(k + 1)
                      /\ RowsBefore(k + 1) <= Len(Rows(after, 1, k)) + short
    BY DEF Full
  <2>1. k \in Int /\ k <= page
    OBVIOUS
  <2>2. Rows(after, 1, k) = Rows(pages, 1, k)
    BY <1>1, <2>1
  <2>3. Full(pages, page - 1, short)
    BY DEF Good
  <2> QED
    BY <2>2, <2>3 DEF Full
<1>3. Rows(after, 1, page) = Rows(pages, 1, page)
  BY <1>1
<1> QED
  BY <1>2, <1>3 DEF Good

\* Fewer pages are full too, and full but for more failed appends.
LEMMA FullLess ==
    ASSUME NEW pages, NEW n \in Int, NEW m \in Int, n <= m, NEW short \in Nat, NEW more \in Nat,
           short <= more, PagesThere(pages, 1, m), Full(pages, m, short)
    PROVE  Full(pages, n, more)
<1> SUFFICES ASSUME NEW k \in 0..n
             PROVE  /\ Len(Rows(pages, 1, k)) <= RowsBefore(k + 1)
                    /\ RowsBefore(k + 1) <= Len(Rows(pages, 1, k)) + more
  BY DEF Full
<1>1. k \in 0..m /\ k \in Int
  OBVIOUS
<1>2. PagesThere(pages, 1, k)
  BY <1>1 DEF PagesThere
<1>3. Len(Rows(pages, 1, k)) \in Nat
  <2>1. Rows(pages, 1, k) \in Seq(Row)
    BY <1>1, <1>2, RowsType
  <2> QED
    BY <2>1
<1>4. RowsBefore(k + 1) \in Int
  BY <1>1, RowsBeforeInt
<1> QED
  BY <1>1, <1>3, <1>4 DEF Full

\* The rows of the first pages.
LEMMA FirstRows ==
    ASSUME NEW pages \in Pages, NEW page \in Nat, 1..page \subseteq DOMAIN pages,
           NEW k \in Int, k <= page
    PROVE  /\ PagesThere(pages, 1, k)
           /\ Rows(pages, 1, k) \in Seq(Row)
           /\ Len(Rows(pages, 1, k)) \in Nat
           /\ \A i \in 1..Len(Rows(pages, 1, k)) : Rows(pages, 1, k)[i] \in Int
<1>1. PagesThere(pages, 1, page)
  BY PagesThereIn
<1>2. PagesThere(pages, 1, k)
  BY <1>1 DEF PagesThere
<1>3. Rows(pages, 1, k) \in Seq(Row)
  BY <1>2, RowsType
<1>4. \A i \in 1..Len(Rows(pages, 1, k)) : Rows(pages, 1, k)[i] \in Row
  BY <1>3
<1>5. Row \subseteq Int
  BY BoundsNat DEF Row
<1>6. Len(Rows(pages, 1, k)) \in Nat
  BY <1>3
<1>7. \A i \in 1..Len(Rows(pages, 1, k)) : Rows(pages, 1, k)[i] \in Int
  BY <1>4, <1>5
<1> QED
  BY <1>2, <1>3, <1>6, <1>7

\* row_writing_start on a page that is not full.
LEMMA NextRow ==
    ASSUME NEW pages \in Pages, NEW page \in Nat, NEW row \in 0..RowsLimit, NEW pk \in Nat,
           NEW short \in Nat, Good(pages, page, row, pk, short), row # RowsLimit
    PROVE  Unwritten(pages, page, row + 1, pk + 1, short)
<1>1. 1..page \subseteq DOMAIN pages
  BY DEF Good
<1>2. Len(Rows(pages, 1, page)) \in Nat
  BY <1>1, FirstRows
<1>3. page # 0
  <2>1. SUFFICES ASSUME page = 0 PROVE FALSE
    OBVIOUS
  <2>2. Len(Rows(pages, 1, page)) <= -RowsLimit + row
    BY <2>1, RowsBeforeInt DEF Good
  <2> QED
    BY <1>2, <2>2, RowsLimitPositive
<1>4. RowsBefore(page) \in Int
  BY RowsBeforeInt
<1>5. (pk + 1) - 1 = pk
  OBVIOUS
<1> QED
  BY <1>1, <1>2, <1>3, <1>4, <1>5 DEF Good, Unwritten

\* row_writing_start on a full page: a new page.
LEMMA NextPage ==
    ASSUME NEW pages \in Pages, NEW page \in Nat, NEW pk \in Nat,
           NEW short \in Nat, Good(pages, page, RowsLimit, pk, short)
    PROVE  /\ Unwritten(Written(pages, page + 1, <<>>), page + 1, 1, pk + 1, short)
           /\ Rows(Written(pages, page + 1, <<>>), 1, page + 1) = Rows(pages, 1, page)
<1> DEFINE after == Written(pages, page + 1, <<>>)
<1>1. 1..page \subseteq DOMAIN pages
  BY DEF Good
<1>2. page + 1 \in Nat \ {0} /\ <<>> \in Seq(Row)
  OBVIOUS
<1>3. /\ after \in Pages
      /\ DOMAIN after = DOMAIN pages \cup {page + 1}
      /\ after[page + 1] = <<>>
      /\ \A p \in DOMAIN pages : p # page + 1 => after[p] = pages[p]
  BY <1>2, PageWritten
<1> HIDE DEF after
<1>4. 1..(page + 1) \subseteq DOMAIN after
  BY <1>1, <1>3
<1>5. \A k \in 1..page : after[k] = pages[k]
  BY <1>1, <1>3
<1>6. Good(after, page, RowsLimit, pk, short)
  <2>1. 1..page \subseteq DOMAIN after
    BY <1>4
  <2> QED
    BY <1>5, <2>1, GoodSame
<1>7. Rows(after, 1, page) = Rows(pages, 1, page)
  BY <1>5, RowsSame
<1>8. Rows(after, 1, page + 1) = Rows(after, 1, page)
  <2>1. PagesThere(after, 1, page + 1)
    BY <1>2, <1>3, <1>4, PagesThereIn
  <2>2. Rows(after, 1, page + 1) = Rows(after, 1, page) \o after[page + 1]
    BY <2>1, RowsBack
  <2>3. Rows(after, 1, page) \in Seq(Row)
    BY <1>2, <1>3, <1>4, FirstRows
  <2> QED
    BY <1>3, <2>2, <2>3, ConcatEmptySeq
<1>9. RowsBefore(page) \in Int /\ RowsBefore(page + 1) = RowsBefore(page) + RowsLimit
  BY RowsBeforeInt, RowsBeforeNext
<1>10. Len(Rows(after, 1, page)) \in Nat
  BY <1>2, <1>3, <1>4, FirstRows
<1>11. Full(after, page, short)
  <2> SUFFICES ASSUME NEW k \in 0..page
               PROVE  /\ Len(Rows(after, 1, k)) <= RowsBefore(k + 1)
                      /\ RowsBefore(k + 1) <= Len(Rows(after, 1, k)) + short
    BY DEF Full
  <2>1. CASE k = page
    BY <1>6, <1>9, <2>1 DEF Good
  <2>2. CASE k # page
    <3>1. k \in 0..(page - 1)
      BY <2>2
    <3> QED
      BY <1>6, <3>1 DEF Good, Full
  <2> QED
    BY <2>1, <2>2
<1>12. (pk + 1) - 1 = pk /\ (page + 1) - 1 = page
  OBVIOUS
<1>13. RowsBefore(page + 1) + 1 <= pk + 1
  BY <1>6, <1>9, RowsLimitPositive DEF Good
<1>14. /\ Len(Rows(after, 1, page + 1)) < RowsBefore(page + 1) + 1
       /\ RowsBefore(page + 1) + 1 <= Len(Rows(after, 1, page + 1)) + short + 1
  BY <1>6, <1>8, <1>9, <1>10, RowsLimitPositive DEF Good
<1>15. Ascending(Rows(after, 1, page + 1)) /\ UpTo(Rows(after, 1, page + 1), (pk + 1) - 1)
  BY <1>6, <1>8, <1>12 DEF Good
<1>16. Unwritten(after, page + 1, 1, pk + 1, short)
  BY <1>4, <1>11, <1>12, <1>13, <1>14, <1>15 DEF Unwritten
<1> QED
  BY <1>7, <1>8, <1>16 DEF after

\* A row at the end of the second of two sequences.
LEMMA ConcatAppend ==
    ASSUME NEW s \in Seq(Row), NEW t \in Seq(Row), NEW row \in Row
    PROVE  s \o Append(t, row) = Append(s \o t, row)
OBVIOUS

\* A key above all others goes to the end.
LEMMA AppendAscends ==
    ASSUME NEW rows \in Seq(Row), NEW key \in Row, Ascending(rows), UpTo(rows, key - 1)
    PROVE  Ascending(Append(rows, key)) /\ UpTo(Append(rows, key), key)
<1> DEFINE more == Append(rows, key)
           n == Len(rows)
<1>1. /\ n \in Nat /\ Len(more) = n + 1 /\ more[n + 1] = key
      /\ \A i \in 1..n : more[i] = rows[i]
  OBVIOUS
<1>2. \A i \in 1..n : rows[i] \in Int /\ rows[i] <= key - 1 /\ rows[i] < key
  <2>1. \A i \in 1..n : rows[i] \in Row
    OBVIOUS
  <2>2. Row \subseteq Int /\ key \in Int
    BY BoundsNat DEF Row
  <2> QED
    <3> TAKE i \in 1..n
    <3>1. rows[i] <= key - 1
      BY DEF UpTo
    <3>2. rows[i] \in Int
      BY <2>1, <2>2
    <3> HIDE DEF n
    <3> QED
      BY <2>2, <3>1, <3>2
<1>3. key \in Int
  BY BoundsNat DEF Row
<1>4. ASSUME NEW i \in 1..(n + 1), NEW j \in 1..(n + 1), i < j PROVE more[i] < more[j]
  <2>1. i \in 1..n
    BY <1>1, <1>4
  <2>2. CASE j = n + 1
    BY <1>1, <1>2, <2>1, <2>2
  <2>3. CASE j # n + 1
    <3>1. j \in 1..n
      BY <1>1, <2>3
    <3>2. rows[i] < rows[j]
      BY <1>4, <2>1, <3>1 DEF Ascending
    <3> QED
      BY <1>1, <2>1, <3>1, <3>2
  <2> QED
    BY <2>2, <2>3
<1>5. \A i \in 1..(n + 1) : more[i] <= key
  <2> TAKE i \in 1..(n + 1)
  <2>1. i = n + 1 \/ i \in 1..n
    BY <1>1
  <2> QED
    BY <1>1, <1>2, <1>3, <2>1
<1> HIDE DEF more, n
<1> QED
  BY <1>1, <1>4, <1>5 DEF Ascending, UpTo, more

\* add_page, on the files.
LEMMA PageAppended ==
    ASSUME NEW pages \in Pages, NEW page \in DOMAIN pages, NEW pk \in Row
    PROVE  /\ [pages EXCEPT ![page] = Append(@, pk)] \in Pages
           /\ DOMAIN [pages EXCEPT ![page] = Append(@, pk)] = DOMAIN pages
           /\ \A p \in DOMAIN pages : [pages EXCEPT ![page] = Append(@, pk)][p]
                                        = IF p = page THEN Append(pages[p], pk) ELSE pages[p]
<1> DEFINE more  == Append(pages[page], pk)
           after == [pages EXCEPT ![page] = Append(@, pk)]
<1>1. pages[page] \in Seq(Row)
  BY PagesType
<1>2. more \in Seq(Row)
  BY <1>1
<1>3. PICK D \in SUBSET (Nat \ {0}) : pages \in [D -> Seq(Row)]
  BY DEF Pages
<1>4. DOMAIN pages = D
  BY <1>3
<1>5. after = [pages EXCEPT ![page] = more]
  OBVIOUS
<1> HIDE DEF more
<1>6. after \in [D -> Seq(Row)]
  BY <1>2, <1>3, <1>4, <1>5
<1>7. \A p \in DOMAIN pages : after[p] = IF p = page THEN more ELSE pages[p]
  BY <1>3, <1>4, <1>5
<1>8. \A p \in DOMAIN pages : after[p] = IF p = page THEN Append(pages[p], pk) ELSE pages[p]
  BY <1>7 DEF more
<1>9. DOMAIN after = DOMAIN pages
  BY <1>4, <1>6
<1>10. after \in Pages
  BY <1>6 DEF Pages
<1> QED
  BY <1>8, <1>9, <1>10

\* add_page.
LEMMA RowAppended ==
    ASSUME NEW pages \in Pages, NEW page \in Nat, NEW row \in Nat, NEW pk \in Row,
           NEW short \in Nat, Unwritten(pages, page, row, pk, short),
           NEW after \in Pages, DOMAIN after = DOMAIN pages,
           \A p \in DOMAIN pages : after[p] = IF p = page THEN Append(pages[p], pk) ELSE pages[p]
    PROVE  /\ Good(after, page, row, pk, short)
           /\ Rows(after, 1, page) = Append(Rows(pages, 1, page), pk)
<1>1. 1..page \subseteq DOMAIN pages /\ page \in 1..page /\ page \in DOMAIN pages
  BY DEF Unwritten
<1>2. 1..page \subseteq DOMAIN after
  BY <1>1
<1>4. \A k \in Int : k <= page - 1 => Rows(after, 1, k) = Rows(pages, 1, k)
  <2> TAKE k \in Int
  <2>1. SUFFICES ASSUME k <= page - 1 PROVE Rows(after, 1, k) = Rows(pages, 1, k)
    OBVIOUS
  <2>2. \A n \in 1..k : after[n] = pages[n]
    <3> TAKE n \in 1..k
    <3>1. n \in 1..page /\ n # page
      BY <2>1
    <3>2. n \in DOMAIN pages
      BY <1>1, <3>1
    <3> QED
      BY <3>1, <3>2
  <2> QED
    BY <2>2, RowsSame
<1> DEFINE front == Rows(pages, 1, page - 1)
           old   == Rows(pages, 1, page)
<1>5. /\ front \in Seq(Row) /\ old \in Seq(Row) /\ pages[page] \in Seq(Row)
      /\ PagesThere(pages, 1, page) /\ PagesThere(after, 1, page)
  <2>1. page - 1 \in Int /\ page - 1 <= page /\ page \in Int /\ page <= page
    OBVIOUS
  <2> QED
    BY <1>1, <1>2, <2>1, FirstRows, PagesType
<1>6. old = front \o pages[page] /\ Rows(after, 1, page) = Rows(after, 1, page - 1) \o after[page]
  <2>1. page - 1 \in Int /\ (page - 1) + 1 = page /\ 1 <= (page - 1) + 1 /\ 1 \in Nat \ {0}
    BY <1>1
  <2>2. \A other : PagesThere(other, 1, (page - 1) + 1) =>
           Rows(other, 1, (page - 1) + 1) = Rows(other, 1, page - 1) \o other[(page - 1) + 1]
    BY <2>1, RowsBack
  <2> QED
    BY <1>5, <2>1, <2>2
<1>7. Rows(after, 1, page - 1) = front
  <2>1. page - 1 \in Int /\ page - 1 <= page - 1
    OBVIOUS
  <2> QED
    BY <1>4, <2>1
<1>8. after[page] = Append(pages[page], pk)
  BY <1>1
<1>9. front \o Append(pages[page], pk) = Append(front \o pages[page], pk)
  BY <1>5, ConcatAppend
<1>10. Rows(after, 1, page) = Append(old, pk)
  BY <1>6, <1>7, <1>8, <1>9
<1> HIDE DEF front, old
<1>11. Ascending(Append(old, pk)) /\ UpTo(Append(old, pk), pk)
  <2>1. Ascending(old) /\ UpTo(old, pk - 1)
    BY DEF Unwritten, old
  <2> QED
    BY <1>5, <2>1, AppendAscends
<1>12. Len(Append(old, pk)) = Len(old) + 1 /\ Len(old) \in Nat
  BY <1>5
<1>13. RowsBefore(page) \in Int
  BY RowsBeforeInt
<1>14. Full(after, page - 1, short)
  <2> SUFFICES ASSUME NEW k \in 0..(page - 1)
               PROVE  /\ Len(Rows(after, 1, k)) <= RowsBefore(k + 1)
                      /\ RowsBefore(k + 1) <= Len(Rows(after, 1, k)) + short
    BY DEF Full
  <2>1. Rows(after, 1, k) = Rows(pages, 1, k)
    <3>1. k \in Int /\ k <= page - 1
      OBVIOUS
    <3> QED
      BY <1>4, <3>1
  <2>2. Full(pages, page - 1, short)
    BY DEF Unwritten
  <2> QED
    BY <2>1, <2>2 DEF Full
<1>15. /\ RowsBefore(page) + row <= pk
       /\ Len(old) < RowsBefore(page) + row
       /\ RowsBefore(page) + row <= Len(old) + short + 1
  BY DEF Unwritten, old
<1>16. Good(after, page, row, pk, short)
  <2>1. 1..page \subseteq DOMAIN after
    BY <1>2
  <2>2. Len(Append(old, pk)) <= RowsBefore(page) + row
    BY <1>12, <1>13, <1>15
  <2>3. RowsBefore(page) + row <= Len(Append(old, pk)) + short
    BY <1>12, <1>13, <1>15
  <2> QED
    BY <1>10, <1>11, <1>14, <1>15, <2>1, <2>2, <2>3 DEF Good
<1> QED
  BY <1>10, <1>16 DEF old

\* More appends have failed.
LEMMA GoodMore ==
    ASSUME NEW pages \in Pages, NEW page \in Nat, NEW row \in Nat, NEW pk \in Nat,
           NEW short \in Nat, NEW more \in Nat, short <= more, Good(pages, page, row, pk, short)
    PROVE  Good(pages, page, row, pk, more)
<1>1. 1..page \subseteq DOMAIN pages
  BY DEF Good
<1>2. Len(Rows(pages, 1, page)) \in Nat
  BY <1>1, FirstRows
<1>3. RowsBefore(page) + row \in Int
  BY RowsBeforeInt
<1>4. Full(pages, page - 1, more)
  <2>1. PagesThere(pages, 1, page - 1)
    <3>1. page - 1 \in Int /\ page - 1 <= page
      OBVIOUS
    <3> QED
      BY <1>1, <3>1, FirstRows
  <2>2. Full(pages, page - 1, short)
    BY DEF Good
  <2>3. page - 1 \in Int /\ page - 1 <= page - 1
    OBVIOUS
  <2> QED
    BY <2>1, <2>2, <2>3, FullLess
<1>5. RowsBefore(page) + row <= Len(Rows(pages, 1, page)) + more
  <2>1. RowsBefore(page) + row <= Len(Rows(pages, 1, page)) + short
    BY DEF Good
  <2> QED
    BY <1>2, <1>3, <2>1
<1> QED
  BY <1>4, <1>5 DEF Good

\* The row in the middle of writing may be lost.
LEMMA RowLost ==
    ASSUME NEW pages \in Pages, NEW page \in Nat, NEW row \in Nat, NEW pk \in Nat,
           NEW short \in Nat, Unwritten(pages, page, row, pk, short)
    PROVE  /\ Good(pages, page, row, pk, short + 1)
           /\ Unwritten(pages, page, row, pk, short + 1)
<1>1. 1..page \subseteq DOMAIN pages
  BY DEF Unwritten
<1>2. /\ Len(Rows(pages, 1, page)) \in Nat
      /\ \A i \in 1..Len(Rows(pages, 1, page)) : Rows(pages, 1, page)[i] \in Int
  <2>1. page \in Int /\ page <= page
    OBVIOUS
  <2>2. Rows(pages, 1, page) \in Seq(Row)
    BY <1>1, <2>1, FirstRows
  <2>3. \A i \in 1..Len(Rows(pages, 1, page)) : Rows(pages, 1, page)[i] \in Row
    BY <2>2
  <2>4. Row \subseteq Int
    BY BoundsNat DEF Row
  <2>5. Len(Rows(pages, 1, page)) \in Nat
    BY <2>2
  <2>6. \A i \in 1..Len(Rows(pages, 1, page)) : Rows(pages, 1, page)[i] \in Int
    BY <2>3, <2>4
  <2> QED
    BY <2>5, <2>6
<1>3. RowsBefore(page) + row \in Int
  BY RowsBeforeInt
<1>4. Full(pages, page - 1, short + 1)
  <2>1. PagesThere(pages, 1, page - 1)
    <3>1. page - 1 \in Int /\ page - 1 <= page
      OBVIOUS
    <3> QED
      BY <1>1, <3>1, FirstRows
  <2>2. Full(pages, page - 1, short)
    BY DEF Unwritten
  <2>3. page - 1 \in Int /\ page - 1 <= page - 1 /\ short <= short + 1 /\ short + 1 \in Nat
    OBVIOUS
  <2> QED
    BY <2>1, <2>2, <2>3, FullLess
<1>5. /\ Len(Rows(pages, 1, page)) < RowsBefore(page) + row
      /\ RowsBefore(page) + row <= Len(Rows(pages, 1, page)) + short + 1
  BY DEF Unwritten
<1>6. /\ Len(Rows(pages, 1, page)) <= RowsBefore(page) + row
      /\ RowsBefore(page) + row <= Len(Rows(pages, 1, page)) + (short + 1)
      /\ RowsBefore(page) + row <= Len(Rows(pages, 1, page)) + (short + 1) + 1
  BY <1>2, <1>3, <1>5
<1>7. UpTo(Rows(pages, 1, page), pk)
  <2> SUFFICES ASSUME NEW i \in 1..Len(Rows(pages, 1, page)) PROVE Rows(pages, 1, page)[i] <= pk
    BY DEF UpTo
  <2>1. Rows(pages, 1, page)[i] <= pk - 1
    BY DEF Unwritten, UpTo
  <2> QED
    BY <1>2, <2>1
<1>8. Good(pages, page, row, pk, short + 1)
  BY <1>4, <1>6, <1>7 DEF Unwritten, Good
<1>9. Unwritten(pages, page, row, pk, short + 1)
  BY <1>4, <1>6 DEF Unwritten
<1> QED
  BY <1>8, <1>9

\* The first rows of an ascending sequence ascend.
LEMMA FrontAscends ==
    ASSUME NEW front \in Seq(Row), NEW back \in Seq(Row), NEW key,
           Ascending(front \o back), UpTo(front \o back, key)
    PROVE  Ascending(front) /\ UpTo(front, key)
<1> DEFINE all == front \o back
<1>1. /\ Len(front) \in Nat /\ Len(all) \in Nat /\ Len(front) <= Len(all)
      /\ \A i \in 1..Len(front) : all[i] = front[i]
  OBVIOUS
<1>2. \A i \in 1..Len(front) : i \in 1..Len(all)
  BY <1>1
<1>3. Ascending(all) /\ UpTo(all, key)
  OBVIOUS
<1> HIDE DEF all
<1> QED
  BY <1>1, <1>2, <1>3 DEF Ascending, UpTo

\* sync takes the row back that was not written.
LEMMA RowTakenBack ==
    ASSUME NEW pages \in Pages, NEW page \in Nat, NEW row \in Nat, NEW pk \in Nat,
           NEW short \in Nat, Unwritten(pages, page, row, pk, short)
    PROVE  /\ page >= 1 /\ pk >= 1
           /\ row = 1 => Good(pages, page - 1, RowsLimit, pk - 1, short)
           /\ row # 1 => Good(pages, page, row - 1, pk - 1, short)
<1>1. 1..page \subseteq DOMAIN pages /\ page >= 1 /\ row >= 1 /\ page - 1 \in Nat
  BY DEF Unwritten
<1>2. Len(Rows(pages, 1, page)) \in Nat /\ Rows(pages, 1, page) \in Seq(Row)
  BY <1>1, FirstRows, SMTT(30)
<1>3. RowsBefore(page) \in Int /\ RowsBefore(page - 1) \in Int
      /\ RowsBefore(page) = RowsBefore(page - 1) + RowsLimit
  <2>1. page - 1 \in Int /\ (page - 1) + 1 = page
    OBVIOUS
  <2> QED
    BY <2>1, RowsBeforeInt, RowsBeforeNext
<1>4. /\ RowsBefore(page) + row <= pk
      /\ Len(Rows(pages, 1, page)) < RowsBefore(page) + row
      /\ RowsBefore(page) + row <= Len(Rows(pages, 1, page)) + short + 1
      /\ Ascending(Rows(pages, 1, page)) /\ UpTo(Rows(pages, 1, page), pk - 1)
      /\ Full(pages, page - 1, short)
  BY DEF Unwritten
<1>5. pk >= 1
  BY <1>1, <1>2, <1>3, <1>4
<1>6. ASSUME row # 1 PROVE Good(pages, page, row - 1, pk - 1, short)
  <2>1. /\ RowsBefore(page) + (row - 1) <= pk - 1
        /\ Len(Rows(pages, 1, page)) <= RowsBefore(page) + (row - 1)
        /\ RowsBefore(page) + (row - 1) <= Len(Rows(pages, 1, page)) + short
    BY <1>2, <1>3, <1>4
  <2> QED
    BY <1>1, <1>4, <2>1 DEF Good
<1>7. ASSUME row = 1 PROVE Good(pages, page - 1, RowsLimit, pk - 1, short)
  <2> DEFINE q == page - 1
  <2>1. q \in Nat /\ q <= page /\ q + 1 = page /\ q \in Int /\ q - 1 <= q /\ q - 1 \in Int
        /\ 1 <= q + 1 /\ q \in 0..q
    BY <1>1
  <2>2. Full(pages, q, short) /\ RowsBefore(page) = RowsBefore(q) + RowsLimit
    BY <1>3, <1>4
  <2> HIDE DEF q
  <2>3. /\ PagesThere(pages, 1, q) /\ Rows(pages, 1, q) \in Seq(Row)
        /\ Len(Rows(pages, 1, q)) \in Nat
    BY <1>1, <2>1, FirstRows
  <2>4. PagesThere(pages, 1, page)
    BY <1>1, PagesThereIn
  <2>5. pages[page] \in Seq(Row)
    BY <1>1, PagesType
  <2>6. Rows(pages, 1, page) = Rows(pages, 1, q) \o pages[page]
    <3>1. PagesThere(pages, 1, q + 1)
      BY <2>1, <2>4
    <3>2. Rows(pages, 1, q + 1) = Rows(pages, 1, q) \o pages[q + 1]
      BY <2>1, <3>1, RowsBack
    <3> QED
      BY <2>1, <3>2
  <2>7. Ascending(Rows(pages, 1, q)) /\ UpTo(Rows(pages, 1, q), pk - 1)
    BY <1>4, <2>3, <2>5, <2>6, FrontAscends
  <2>8. Full(pages, q - 1, short)
    <3>1. short <= short
      OBVIOUS
    <3> QED
      BY <2>1, <2>2, <2>3, <3>1, FullLess
  <2>9. /\ Len(Rows(pages, 1, q)) <= RowsBefore(q) + RowsLimit
        /\ RowsBefore(q) + RowsLimit <= Len(Rows(pages, 1, q)) + short
    <3>1. RowsBefore(q + 1) = RowsBefore(q) + RowsLimit
      BY <2>1, RowsBeforeNext
    <3> QED
      BY <2>1, <2>2, <3>1 DEF Full
  <2>10. RowsBefore(q) + RowsLimit <= pk - 1
    BY <1>3, <1>4, <1>7, <2>2
  <2>11. 1..q \subseteq DOMAIN pages
    BY <1>1, <2>1
  <2> QED
    BY <2>7, <2>8, <2>9, <2>10, <2>11 DEF Good, q
<1> QED
  BY <1>1, <1>5, <1>6, <1>7

\* When no append has failed every page but the last is full.
LEMMA GoodExact ==
    ASSUME NEW pages \in Pages, NEW page \in Nat, NEW row \in 0..RowsLimit, NEW pk \in Nat,
           Good(pages, page, row, pk, 0)
    PROVE  /\ \A p \in 1..page : Len(pages[p]) = IF p < page THEN RowsLimit ELSE row
           /\ page = 0 => row = RowsLimit
<1>1. 1..page \subseteq DOMAIN pages
  BY DEF Good
<1>2. \A k \in 0..page : Len(Rows(pages, 1, k)) = RowsBefore(k) + IF k < page THEN RowsLimit ELSE row
  <2> TAKE k \in 0..page
  <2>1. k \in Int /\ k <= page
    OBVIOUS
  <2>2. Len(Rows(pages, 1, k)) \in Nat
    BY <1>1, <2>1, FirstRows
  <2>3. RowsBefore(k) \in Int /\ RowsBefore(k + 1) = RowsBefore(k) + RowsLimit
    BY <2>1, RowsBeforeInt, RowsBeforeNext
  <2>4. CASE k < page
    <3>1. k \in 0..(page - 1)
      BY <2>4
    <3>2. Len(Rows(pages, 1, k)) <= RowsBefore(k + 1) /\ RowsBefore(k + 1) <= Len(Rows(pages, 1, k)) + 0
      BY <3>1 DEF Good, Full
    <3> QED
      BY <2>2, <2>3, <2>4, <3>2, RowsLimitPositive
  <2>5. CASE k = page
    <3>1. Len(Rows(pages, 1, k)) <= RowsBefore(k) + row /\ RowsBefore(k) + row <= Len(Rows(pages, 1, k)) + 0
      BY <2>5 DEF Good
    <3> QED
      BY <2>2, <2>3, <2>5, <3>1
  <2> QED
    BY <2>4, <2>5
<1>3. ASSUME NEW p \in 1..page PROVE Len(pages[p]) = IF p < page THEN RowsLimit ELSE row
  <2> DEFINE k == p - 1
  <2>1. k \in 0..page /\ p \in 0..page /\ k < page /\ k \in Int /\ k + 1 = p /\ 1 <= k + 1
        /\ k <= page /\ p <= page /\ p \in Int
    OBVIOUS
  <2> HIDE DEF k
  <2>2. PagesThere(pages, 1, k + 1) /\ Rows(pages, 1, k) \in Seq(Row)
    BY <1>1, <2>1, FirstRows
  <2>3. Rows(pages, 1, k + 1) = Rows(pages, 1, k) \o pages[k + 1]
    BY <2>1, <2>2, RowsBack, SMTT(30)
  <2>4. pages[p] \in Seq(Row)
    BY <1>1, PagesType
  <2>5. Len(Rows(pages, 1, p)) = Len(Rows(pages, 1, k)) + Len(pages[p]) /\ Len(pages[p]) \in Nat
    BY <2>1, <2>2, <2>3, <2>4
  <2>6. Len(Rows(pages, 1, k)) = RowsBefore(k) + RowsLimit
    BY <1>2, <2>1
  <2>7. Len(Rows(pages, 1, p)) = RowsBefore(p) + IF p < page THEN RowsLimit ELSE row
    BY <1>2, <2>1
  <2>8. RowsBefore(p) = RowsBefore(k) + RowsLimit /\ RowsBefore(k) \in Int
    BY <2>1, RowsBeforeNext, RowsBeforeInt
  <2> QED
    BY <2>5, <2>6, <2>7, <2>8, RowsLimitPositive, SMTT(30)
<1>4. ASSUME page = 0 PROVE row = RowsLimit
  <2>1. Rows(pages, 1, 0) = <<>>
    BY RowsEmpty
  <2>2. 0 \in 0..page /\ ~(0 < page)
    BY <1>4
  <2>3. Len(<<>>) = RowsBefore(0) + row
    BY <1>2, <1>4, <2>1, <2>2
  <2> QED
    BY <2>3, RowsBeforeInt, RowsLimitPositive
<1> QED
  BY <1>3, <1>4

-----------------------------------------------------------------------------
(* The iterator over the rows of a table. It holds the rows of some pages in *)
(* memory; the pages before are written, those behind are not loaded.      *)

Iter == [rows : Seq(Row), cur : Nat \ {0}, page : Nat \ {0}, read : Nat, loaded : Nat,
         deleted : Nat, cnt : Nat]

Shape(i) == i.cur <= Len(i.rows) + 1 /\ i.loaded <= i.cnt /\ i.page <= i.cnt + 1

\* The rows from those in memory on.
AheadOf(i, pages) == i.rows \o Rows(pages, i.loaded + 1, i.cnt)
Passed(i) == i.read + i.deleted

Cursor(i, pages, rows, short, win) ==
    /\ i.cur <= RowsLimit
    /\ i.read = RowsBefore(i.page) + i.cur - 1
    /\ Passed(i) <= Len(rows) /\ Len(rows) <= RowsBefore(i.cnt + 1)
    /\ Len(AheadOf(i, pages)) = Len(rows) - Passed(i) + i.cur - 1
    /\ \A j \in 1..(Len(rows) - Passed(i)) :
           AheadOf(i, pages)[i.cur - 1 + j] = rows[Passed(i) + j]
    /\ i.loaded < i.cnt =>
           RowsBefore(win + i.page - 1) + i.deleted < RowsBefore(i.loaded + 1)
    /\ \A k \in i.loaded..(i.cnt - 1) :
           RowsBefore(k + 1) <= Len(rows) - Len(Rows(pages, k + 1, i.cnt)) + short

Loads(i, pages) == i \in Iter /\ pages \in Pages /\ Shape(i) /\ 1..i.cnt \subseteq DOMAIN pages

Walks(i, pages, rows, short, win) ==
    /\ Loads(i, pages) /\ rows \in Seq(Row) /\ short \in Nat
    /\ short < RowsBefore(win) /\ (i.deleted > 0 => short = 0)
    /\ Cursor(i, pages, rows, short, win)

\* Two lists of rows one after the other.
LEMMA TwoLists ==
    ASSUME NEW s, s \in Seq(Row), NEW t, t \in Seq(Row)
    PROVE  /\ s \o t \in Seq(Row) /\ Len(s) \in Nat /\ Len(t) \in Nat
           /\ Len(s \o t) = Len(s) + Len(t) /\ Len(s) <= Len(s \o t) /\ Len(s \o t) \in Nat
           /\ \A j \in 1..Len(s) : (s \o t)[j] = s[j]
           /\ \A j \in 1..Len(t) : (s \o t)[Len(s) + j] = t[j]
OBVIOUS

\* The pages not loaded yet.
LEMMA LastRows ==
    ASSUME NEW pages \in Pages, NEW cnt \in Nat, 1..cnt \subseteq DOMAIN pages,
           NEW a \in Nat \ {0}
    PROVE  /\ PagesThere(pages, a, cnt) /\ Rows(pages, a, cnt) \in Seq(Row)
           /\ Len(Rows(pages, a, cnt)) \in Nat
<1>1. a..cnt \subseteq DOMAIN pages
  OBVIOUS
<1>2. PagesThere(pages, a, cnt)
  BY <1>1, PagesThereIn
<1>3. Rows(pages, a, cnt) \in Seq(Row)
  BY <1>2, RowsType
<1> QED
  BY <1>2, <1>3

\* The numbers of an iterator.
LEMMA IterNumbers ==
    ASSUME NEW i, i \in Iter
    PROVE  /\ i.cnt \in Nat /\ i.loaded \in Nat /\ i.page \in Nat \ {0} /\ i.cur \in Nat \ {0}
           /\ i.read \in Nat /\ i.deleted \in Nat /\ Passed(i) \in Nat
           /\ i.deleted <= Passed(i) /\ i.read <= Passed(i)
           /\ \A a \in Int : RowsBefore(i.cnt + a) \in Int /\ RowsBefore(i.page + a) \in Int
                               /\ RowsBefore(i.loaded + a) \in Int
           /\ RowsBefore(i.page) \in Int
<1>1. /\ i.cnt \in Nat /\ i.loaded \in Nat /\ i.page \in Nat \ {0} /\ i.cur \in Nat \ {0}
      /\ i.read \in Nat /\ i.deleted \in Nat
  BY DEF Iter
<1>2. \A a \in Int : i.cnt + a \in Int /\ i.page + a \in Int /\ i.loaded + a \in Int
  BY <1>1
<1>3. \A a \in Int : RowsBefore(i.cnt + a) \in Int /\ RowsBefore(i.page + a) \in Int
                               /\ RowsBefore(i.loaded + a) \in Int
  BY <1>2, RowsBeforeInt
<1>4. RowsBefore(i.page) \in Int
  BY <1>1, RowsBeforeInt
<1>5. /\ Passed(i) \in Nat
      /\ i.deleted <= Passed(i) /\ i.read <= Passed(i)
  BY <1>1 DEF Passed
<1> QED
  BY <1>1, <1>3, <1>4, <1>5

\* The rows from those in memory on are rows.
LEMMA AheadType ==
    ASSUME NEW pages, NEW i, Loads(i, pages)
    PROVE  /\ AheadOf(i, pages) \in Seq(Row)
           /\ i.rows \in Seq(Row) /\ Rows(pages, i.loaded + 1, i.cnt) \in Seq(Row)
           /\ Len(i.rows) \in Nat /\ Len(Rows(pages, i.loaded + 1, i.cnt)) \in Nat
           /\ Len(AheadOf(i, pages)) = Len(i.rows) + Len(Rows(pages, i.loaded + 1, i.cnt))
           /\ \A j \in 1..Len(i.rows) : AheadOf(i, pages)[j] = i.rows[j]
<1>1. i.cnt \in Nat /\ i.loaded + 1 \in Nat \ {0} /\ i.rows \in Seq(Row)
  BY DEF Iter, Loads
<1>2. /\ Rows(pages, i.loaded + 1, i.cnt) \in Seq(Row)
      /\ Len(Rows(pages, i.loaded + 1, i.cnt)) \in Nat
  <2>1. pages \in Pages /\ 1..i.cnt \subseteq DOMAIN pages
    BY DEF Loads
  <2> QED
    BY <1>1, <2>1, LastRows
<1>3. /\ Len(i.rows) \in Nat /\ AheadOf(i, pages) \in Seq(Row)
      /\ Len(AheadOf(i, pages)) = Len(i.rows) + Len(Rows(pages, i.loaded + 1, i.cnt))
  BY <1>1, <1>2, TwoLists DEF AheadOf
<1>4. \A j \in 1..Len(i.rows) : AheadOf(i, pages)[j] = i.rows[j]
  BY <1>1, <1>2, TwoLists, ZenonT(30) DEF AheadOf
<1> QED
  BY <1>1, <1>2, <1>3, <1>4

\* next_page_load gives an iterator again.
LEMMA LoadType ==
    ASSUME NEW pages, NEW i, Loads(i, pages)
    PROVE  LET n == NextPageLoad(i, pages) IN
           /\ Loads(n, pages)
           /\ n.page = i.page /\ n.read = i.read /\ n.deleted = i.deleted /\ n.cnt = i.cnt
<1>1. CASE i.loaded = i.cnt
  BY <1>1 DEF NextPageLoad
<1>2. CASE i.loaded # i.cnt
  <2> DEFINE all == i.rows \o pages[i.loaded + 1]
             cur == IF AtEnd(i) THEN Len(all) + 1 ELSE i.cur
             n   == [i EXCEPT !.rows = all, !.loaded = i.loaded + 1, !.cur = cur]
  <2>1. i.loaded + 1 \in 1..i.cnt /\ i.loaded + 1 <= i.cnt /\ i.loaded + 1 \in Nat
    BY <1>2 DEF Iter, Shape, Loads
  <2>2. pages[i.loaded + 1] \in Seq(Row) /\ i.rows \in Seq(Row)
    BY <2>1, PagesType DEF Iter, Loads
  <2>3. all \in Seq(Row) /\ Len(i.rows) <= Len(all) /\ Len(i.rows) \in Nat /\ Len(all) \in Nat
    BY <2>2, TwoLists
  <2> HIDE DEF all
  <2>4. cur \in Nat \ {0} /\ cur <= Len(all) + 1
    BY <2>3 DEF Iter, Shape, AtEnd, Loads
  <2> HIDE DEF cur
  <2>5. n \in Iter
    BY <2>1, <2>3, <2>4 DEF Iter, Loads
  <2>6. n.rows = all /\ n.cur = cur /\ n.loaded = i.loaded + 1 /\ n.page = i.page
        /\ n.read = i.read /\ n.deleted = i.deleted /\ n.cnt = i.cnt
    BY DEF Iter, Loads
  <2>7. NextPageLoad(i, pages) = n
    BY <1>2 DEF NextPageLoad, all, cur
  <2> HIDE DEF n
  <2> QED
    BY <2>1, <2>4, <2>5, <2>6, <2>7 DEF Shape, Loads
<1> QED
  BY <1>1, <1>2

\* It moves a page from the files to the memory and leaves the cursor where it
\* is, if the cursor is not at the end of a list that is to grow.
LEMMA LoadKeeps ==
    ASSUME NEW pages, NEW i, Loads(i, pages), AtEnd(i) => i.loaded = i.cnt
    PROVE  LET n == NextPageLoad(i, pages) IN
           /\ n.cur = i.cur
           /\ n.loaded = IF i.loaded = i.cnt THEN i.loaded ELSE i.loaded + 1
           /\ AheadOf(n, pages) = AheadOf(i, pages)
<1>1. CASE i.loaded = i.cnt
  BY <1>1 DEF NextPageLoad
<1>2. CASE i.loaded # i.cnt
  <2> DEFINE a   == i.loaded + 1
             all == i.rows \o pages[a]
             n   == [i EXCEPT !.rows = all, !.loaded = a, !.cur = i.cur]
  <2>1. a \in 1..i.cnt /\ a <= i.cnt /\ a \in Nat \ {0} /\ i.cnt \in Nat
    BY <1>2 DEF Iter, Shape, Loads
  <2>2. NextPageLoad(i, pages) = n
    BY <1>2 DEF NextPageLoad
  <2>3. n.rows = all /\ n.loaded = a /\ n.cur = i.cur /\ n.cnt = i.cnt
    BY DEF Iter, Loads
  <2> HIDE DEF n
  <2>4. AheadOf(n, pages) = (i.rows \o pages[a]) \o Rows(pages, a + 1, i.cnt)
    BY <2>3 DEF AheadOf
  <2>5. AheadOf(i, pages) = i.rows \o Rows(pages, a, i.cnt)
    BY DEF AheadOf
  <2>6. i.rows \in Seq(Row) /\ pages[a] \in Seq(Row)
    BY <2>1, PagesType DEF Iter, Loads
  <2> HIDE DEF a
  <2>7. PagesThere(pages, a, i.cnt) /\ Rows(pages, a + 1, i.cnt) \in Seq(Row)
    <3>1. pages \in Pages /\ 1..i.cnt \subseteq DOMAIN pages /\ a + 1 \in Nat \ {0}
      BY <2>1 DEF Loads
    <3> QED
      BY <2>1, <3>1, LastRows
  <2>8. Rows(pages, a, i.cnt) = pages[a] \o Rows(pages, a + 1, i.cnt)
    <3>1. a \in Nat \ {0} /\ i.cnt \in Int /\ a <= i.cnt
      BY <2>1
    <3> QED
      BY <2>7, <3>1, RowsFront
  <2> HIDE DEF all
  <2>9. AheadOf(n, pages) = AheadOf(i, pages)
    <3>1. (i.rows \o pages[a]) \o Rows(pages, a + 1, i.cnt)
             = i.rows \o (pages[a] \o Rows(pages, a + 1, i.cnt))
      BY <2>6, <2>7, RowsAssociate
    <3> QED
      BY <2>4, <2>5, <2>8, <3>1
  <2> QED
    BY <1>2, <2>2, <2>3, <2>9 DEF a
<1> QED
  BY <1>1, <1>2

\* While pages are left to load the list holds more than a page.
LEMMA MoreThanAPage ==
    ASSUME NEW pages, NEW i, NEW rows, NEW short, NEW win \in Nat \ {0, 1},
           Walks(i, pages, rows, short, win), i.loaded < i.cnt
    PROVE  Len(i.rows) > RowsLimit
<1> DEFINE m  == win + i.page - 1
           d  == Len(Rows(pages, i.loaded + 1, i.cnt))
           n  == Len(i.rows)
           bm == RowsBefore(m)
           bl == RowsBefore(i.loaded + 1)
           bp == RowsBefore(i.page)
           bc == RowsBefore(win)
           lb == Len(rows)
<1>0. i \in Iter /\ Loads(i, pages) /\ Cursor(i, pages, rows, short, win)
  BY DEF Walks, Loads
<1>1. /\ i.loaded \in Nat /\ i.page \in Nat \ {0} /\ i.cur \in Nat \ {0}
      /\ i.read \in Nat /\ i.deleted \in Nat /\ i.cnt \in Nat
  BY <1>0, IterNumbers
<1>2. win \in Nat /\ win >= 2 /\ m \in Int
  BY <1>1
<1>3. n \in Nat /\ d \in Nat /\ Len(AheadOf(i, pages)) = n + d
  BY <1>0, AheadType
<1>4. bm \in Int /\ bp \in Int /\ bc \in Int /\ bl \in Int
  BY <1>1, <1>2, RowsBeforeInt
<1>5. bm = bc + bp /\ RowsBefore(m + 1) = bm + RowsLimit
  <2>1. m + 1 = win + i.page
    BY <1>1, <1>2
  <2>2. RowsBefore(m + 1) = bm + RowsLimit
    BY <1>2, RowsBeforeNext
  <2>3. RowsBefore(win + i.page) = bc + bp + RowsLimit
    <3>1. win \in Int /\ i.page \in Int
      BY <1>1, <1>2
    <3> QED
      BY <3>1, RowsBeforeSum
  <2> HIDE DEF m, bm, bc, bp
  <2> QED
    BY <1>4, <2>1, <2>2, <2>3, RowsLimitPositive
<1>6. bc >= RowsLimit
  <2>1. RowsBefore(2) = RowsLimit
    BY RowsLimitPositive DEF RowsBefore
  <2>2. RowsBefore(2) <= RowsBefore(win)
    BY <1>2, RowsBeforeOrder
  <2> HIDE DEF m
  <2> QED
    BY <1>4, <2>1, <2>2, RowsLimitPositive
<1>7. bl <= lb - d + short
  <2>1. i.loaded \in i.loaded..(i.cnt - 1)
    BY <1>1
  <2> QED
    BY <1>0, <2>1 DEF Cursor
<1>8. bm + i.deleted < bl
  BY <1>0 DEF Cursor
<1>9. n + d = lb - (i.read + i.deleted) + i.cur - 1
  BY <1>0, <1>3 DEF Cursor, Passed
<1>10. i.read = bp + i.cur - 1
  BY <1>0 DEF Cursor
<1>11. lb \in Nat
  BY DEF Walks
<1>12. short < bc /\ (i.deleted > 0 => short = 0) /\ short \in Nat
  BY DEF Walks
<1>13. i.deleted = 0 => bm + RowsLimit <= bl
  <2>1. SUFFICES ASSUME i.deleted = 0 PROVE bm + RowsLimit <= bl
    OBVIOUS
  <2>2. m + 1 <= i.loaded + 1
    <3>1. SUFFICES ASSUME i.loaded + 1 <= m PROVE FALSE
      BY <1>1, <1>2
    <3>2. bl <= bm
      BY <1>1, <1>2, <3>1, RowsBeforeOrder
    <3> HIDE DEF bl, bm
    <3> QED
      BY <1>4, <1>8, <2>1, <3>2
  <2>3. RowsBefore(m + 1) <= bl
    BY <1>1, <1>2, <2>2, RowsBeforeOrder
  <2> QED
    BY <1>5, <2>3
<1> HIDE DEF m, d, n, bm, bl, bp, bc, lb
<1>14. n = lb - bp - i.deleted - d
  <2>1. n \in Int /\ d \in Int /\ lb \in Int /\ i.deleted \in Int /\ i.cur \in Int /\ bp \in Int
    BY <1>1, <1>3, <1>4, <1>11
  <2>2. n + d = lb - ((bp + i.cur - 1) + i.deleted) + i.cur - 1
    BY <1>9, <1>10
  <2> QED
    BY <2>1, <2>2
<1>15. n > RowsLimit
  <2>1. CASE i.deleted > 0
    BY <1>1, <1>3, <1>4, <1>5, <1>6, <1>7, <1>8, <1>11, <1>12, <1>14, <2>1, RowsLimitPositive
  <2>2. CASE i.deleted = 0
    BY <1>3, <1>4, <1>5, <1>7, <1>11, <1>12, <1>13, <1>14, <2>2, RowsLimitPositive
  <2> QED
    BY <1>1, <2>1, <2>2
<1> QED
  BY <1>15 DEF n

\* A cursor that is not at the end stands on the next row of the table, in a
\* page the table has and the iterator has loaded.
LEMMA CursorOnRow ==
    ASSUME NEW pages, NEW i, NEW rows, NEW short, NEW win \in Nat \ {0, 1},
           Walks(i, pages, rows, short, win), ~AtEnd(i)
    PROVE  /\ Passed(i) < Len(rows) /\ i.page <= i.cnt /\ i.page <= i.loaded
           /\ i.cur \in 1..Len(i.rows) /\ i.rows[i.cur] = rows[Passed(i) + 1]
<1> DEFINE n  == Len(i.rows)
           lb == Len(rows)
           ps == Passed(i)
           ahead == AheadOf(i, pages)
<1>0. i \in Iter /\ Loads(i, pages) /\ Cursor(i, pages, rows, short, win) /\ Shape(i)
  BY DEF Walks, Loads
<1>1. /\ i.loaded \in Nat /\ i.page \in Nat \ {0} /\ i.cur \in Nat \ {0}
      /\ i.cnt \in Nat /\ i.deleted \in Nat /\ i.read \in Nat /\ ps \in Nat
      /\ i.read <= ps
  BY <1>0, IterNumbers
<1>2. n \in Nat /\ lb \in Nat /\ Len(ahead) \in Nat /\ n <= Len(ahead)
  <2>1. /\ Len(i.rows) \in Nat /\ Len(Rows(pages, i.loaded + 1, i.cnt)) \in Nat
        /\ Len(AheadOf(i, pages)) = Len(i.rows) + Len(Rows(pages, i.loaded + 1, i.cnt))
    BY <1>0, AheadType
  <2>2. rows \in Seq(Row)
    BY DEF Walks
  <2>3. lb \in Nat
    BY <2>2
  <2> HIDE DEF lb
  <2>4. Len(ahead) \in Nat /\ n <= Len(ahead)
    <3> DEFINE u == Len(Rows(pages, i.loaded + 1, i.cnt))
    <3>1. n \in Nat /\ u \in Nat /\ Len(ahead) = n + u
      BY <2>1
    <3> HIDE DEF n, u, ahead
    <3> QED
      BY <3>1
  <2> QED
    BY <2>1, <2>3, <2>4
<1>3. \A j \in 1..n : ahead[j] = i.rows[j]
  BY <1>0, AheadType
<1>4. i.cur <= n /\ i.cur \in 1..n
  BY <1>1, <1>2 DEF AtEnd
<1>5. Len(ahead) = lb - ps + i.cur - 1
  BY <1>0 DEF Cursor
<1>6. ps < lb
  <2> HIDE DEF n, lb, ps, ahead
  <2> QED
    BY <1>1, <1>2, <1>4, <1>5
<1>7. i.rows[i.cur] = rows[ps + 1]
  <2>1. 1 \in 1..(lb - ps)
    <3> HIDE DEF n, lb, ps, ahead
    <3> QED
      BY <1>1, <1>2, <1>6
  <2>2. ahead[i.cur - 1 + 1] = rows[ps + 1]
    BY <1>0, <2>1 DEF Cursor
  <2>3. i.cur - 1 + 1 = i.cur
    BY <1>1
  <2> HIDE DEF n, lb, ps, ahead
  <2> QED
    BY <1>3, <1>4, <2>2, <2>3
<1>8. i.page <= i.cnt
  <2>1. SUFFICES ASSUME i.cnt + 1 <= i.page PROVE FALSE
    BY <1>1
  <2>2. RowsBefore(i.cnt + 1) <= RowsBefore(i.page)
    BY <1>1, <2>1, RowsBeforeOrder
  <2>3. /\ RowsBefore(i.cnt + 1) \in Int /\ RowsBefore(i.page) \in Int
    BY <1>0, IterNumbers
  <2>4. i.read = RowsBefore(i.page) + i.cur - 1 /\ lb <= RowsBefore(i.cnt + 1)
    BY <1>0 DEF Cursor
  <2> HIDE DEF n, lb, ps, ahead
  <2> QED
    BY <1>1, <1>2, <1>6, <2>2, <2>3, <2>4
<1>9. i.page <= i.loaded
  <2>1. CASE i.loaded = i.cnt
    BY <1>8, <2>1
  <2>2. CASE i.loaded # i.cnt
    <3> DEFINE m == win + i.page - 1
    <3>1. i.loaded < i.cnt
      BY <1>0, <1>1, <2>2 DEF Shape
    <3>2. RowsBefore(m) + i.deleted < RowsBefore(i.loaded + 1)
      BY <1>0, <3>1 DEF Cursor
    <3>3. m \in Int /\ m >= i.page + 1 /\ i.loaded + 1 \in Int
      BY <1>1
    <3>4. SUFFICES ASSUME i.loaded + 1 <= m PROVE FALSE
      BY <1>1, <3>3
    <3> HIDE DEF m
    <3>5. RowsBefore(i.loaded + 1) <= RowsBefore(m)
      BY <3>3, <3>4, RowsBeforeOrder
    <3>6. RowsBefore(i.loaded + 1) \in Int /\ RowsBefore(m) \in Int
      BY <3>3, RowsBeforeInt
    <3> QED
      BY <1>1, <3>2, <3>5, <3>6
  <2> QED
    BY <2>1, <2>2
<1> QED
  BY <1>4, <1>6, <1>7, <1>8, <1>9

\* At the end all is loaded and every row has been passed.
LEMMA CursorAtEnd ==
    ASSUME NEW pages, NEW i, NEW rows, NEW short, NEW win \in Nat \ {0, 1},
           Walks(i, pages, rows, short, win), AtEnd(i)
    PROVE  /\ i.loaded = i.cnt /\ Passed(i) = Len(rows) /\ AheadOf(i, pages) = i.rows
           /\ i.cur = Len(i.rows) + 1
<1>0. i \in Iter /\ Loads(i, pages) /\ Cursor(i, pages, rows, short, win) /\ Shape(i)
  BY DEF Walks, Loads
<1>1. /\ i.cnt \in Nat /\ i.loaded \in Nat /\ i.cur \in Nat \ {0}
      /\ Passed(i) \in Nat
  BY <1>0, IterNumbers
<1>2. Len(i.rows) \in Nat /\ i.rows \in Seq(Row)
  BY <1>0, AheadType
<1>3. i.cur = Len(i.rows) + 1
  BY <1>0, <1>1, <1>2 DEF Shape, AtEnd
<1>4. i.loaded = i.cnt
  <2>1. SUFFICES ASSUME i.loaded # i.cnt PROVE FALSE
    OBVIOUS
  <2>2. i.loaded < i.cnt
    BY <1>0, <1>1, <2>1 DEF Shape
  <2>3. Len(i.rows) > RowsLimit
    BY <2>2, MoreThanAPage
  <2>4. i.cur <= RowsLimit
    BY <1>0 DEF Cursor
  <2> QED
    BY <1>2, <1>3, <2>3, <2>4, RowsLimitPositive
<1>5. AheadOf(i, pages) = i.rows
  <2>1. i.loaded + 1 \in Nat \ {0} /\ i.cnt \in Int /\ i.cnt < i.loaded + 1
    BY <1>1, <1>4
  <2>2. Rows(pages, i.loaded + 1, i.cnt) = <<>>
    BY <2>1, RowsEmpty
  <2> QED
    BY <1>2, <2>2, ConcatEmptySeq DEF AheadOf
<1>6. Len(i.rows) = Len(rows) - Passed(i) + i.cur - 1 /\ Passed(i) <= Len(rows)
  BY <1>0, <1>5 DEF Cursor
<1>7. Len(rows) \in Nat
  BY DEF Walks
<1>8. Passed(i) = Len(rows)
  BY <1>1, <1>2, <1>3, <1>6, <1>7
<1> QED
  BY <1>3, <1>4, <1>5, <1>8

-----------------------------------------------------------------------------
(* next().                                                                 *)

\* next(), as functions of the iterator and the pages.
Stepped(i) == [i EXCEPT !.cur = @ + 1, !.read = @ + 1]
AdvancedPages(i, pages) ==
    IF OnePageRead(Stepped(i)) THEN UploadedPages(Stepped(i), pages) ELSE pages
AdvancedIter(i, pages) ==
    IF OnePageRead(Stepped(i))
    THEN NextPageLoad(Uploaded(Stepped(i)), AdvancedPages(i, pages)) ELSE Stepped(i)

\* A part of a list of rows.
LEMMA PartType ==
    ASSUME NEW s, s \in Seq(Row), NEW a \in Nat \ {0}, NEW b \in Nat, b <= Len(s)
    PROVE  /\ SubSeq(s, a, b) \in Seq(Row) /\ Len(SubSeq(s, a, b)) \in Nat
           /\ Len(SubSeq(s, a, b)) = IF a <= b THEN b - a + 1 ELSE 0
           /\ \A j \in 1..(b - a + 1) : SubSeq(s, a, b)[j] = s[a + j - 1]
<1>1. \A k \in a..b : s[k] \in Row
  OBVIOUS
<1> QED
  BY <1>1, SubSeqProperties

\* ++cur_; ++rowsRead: an iterator that is not at the end stays one.
LEMMA SteppedType ==
    ASSUME NEW i, NEW pages, Loads(i, pages), ~AtEnd(i)
    PROVE  /\ Loads(Stepped(i), pages)
           /\ Stepped(i).cur = i.cur + 1 /\ Stepped(i).read = i.read + 1
           /\ Stepped(i).rows = i.rows /\ Stepped(i).page = i.page
           /\ Stepped(i).loaded = i.loaded /\ Stepped(i).deleted = i.deleted
           /\ Stepped(i).cnt = i.cnt
<1>1. i \in Iter /\ Shape(i)
  BY DEF Loads
<1>2. /\ Stepped(i).cur = i.cur + 1 /\ Stepped(i).read = i.read + 1
      /\ Stepped(i).rows = i.rows /\ Stepped(i).page = i.page
      /\ Stepped(i).loaded = i.loaded /\ Stepped(i).deleted = i.deleted
      /\ Stepped(i).cnt = i.cnt
  BY <1>1 DEF Stepped, Iter
<1>3. i.cur + 1 \in Nat \ {0} /\ i.read + 1 \in Nat
  BY <1>1 DEF Iter
<1>4. Stepped(i) \in Iter
  BY <1>1, <1>3 DEF Stepped, Iter
<1>5. i.cur + 1 <= Len(i.rows) + 1
  <2>1. i.cur \in Nat /\ Len(i.rows) \in Nat
    BY <1>1 DEF Iter
  <2> QED
    BY <2>1 DEF AtEnd
<1>6. Shape(Stepped(i))
  BY <1>1, <1>2, <1>5 DEF Shape
<1> QED
  BY <1>2, <1>4, <1>6 DEF Loads

\* current_page_upload leaves an iterator, one page further.
LEMMA UploadType ==
    ASSUME NEW i, NEW pages, Loads(i, pages)
    PROVE  /\ Loads(Uploaded(i), UploadedPages(i, pages))
           /\ Uploaded(i).read = i.read /\ Uploaded(i).deleted = i.deleted
           /\ Uploaded(i).loaded = i.loaded /\ Uploaded(i).cnt = i.cnt
           /\ i.page <= i.cnt => /\ Uploaded(i).rows = SubSeq(i.rows, i.cur, Len(i.rows))
                                 /\ Uploaded(i).cur = 1 /\ Uploaded(i).page = i.page + 1
<1>1. i \in Iter /\ Shape(i) /\ pages \in Pages /\ 1..i.cnt \subseteq DOMAIN pages
  BY DEF Loads
<1>2. /\ i.rows \in Seq(Row) /\ i.cur \in Nat \ {0} /\ i.page \in Nat \ {0} /\ i.cnt \in Nat
      /\ Len(i.rows) \in Nat
  BY <1>1 DEF Iter
<1>3. CASE i.page <= i.cnt
  <2> DEFINE rest == SubSeq(i.rows, i.cur, Len(i.rows))
             n == [i EXCEPT !.rows = rest, !.cur = 1, !.page = i.page + 1]
             front == SubSeq(i.rows, 1, i.cur - 1)
  <2>1. Uploaded(i) = n
    BY <1>2, <1>3 DEF Uploaded
  <2>2. rest \in Seq(Row) /\ Len(rest) \in Nat
    BY <1>2, PartType
  <2> HIDE DEF rest
  <2>3. /\ n.rows = rest /\ n.cur = 1 /\ n.page = i.page + 1 /\ n.read = i.read
        /\ n.deleted = i.deleted /\ n.loaded = i.loaded /\ n.cnt = i.cnt
    BY <1>1 DEF Iter
  <2>4. 1 \in Nat \ {0} /\ i.page + 1 \in Nat \ {0} /\ i.page + 1 <= i.cnt + 1
    BY <1>2, <1>3
  <2>5. n \in Iter
    BY <1>1, <2>2, <2>4 DEF Iter
  <2> HIDE DEF n
  <2>6. Shape(n)
    BY <1>1, <2>2, <2>3, <2>4 DEF Shape
  <2>7. front \in Seq(Row)
    <3>1. i.cur - 1 \in Nat /\ i.cur - 1 <= Len(i.rows)
      BY <1>1, <1>2 DEF Shape
    <3> QED
      BY <1>2, <3>1, PartType
  <2> HIDE DEF front
  <2>8. UploadedPages(i, pages) = pages \/ UploadedPages(i, pages) = Written(pages, i.page, front)
    BY DEF UploadedPages, front
  <2>9. UploadedPages(i, pages) \in Pages /\ DOMAIN pages \subseteq DOMAIN UploadedPages(i, pages)
    <3>1. /\ Written(pages, i.page, front) \in Pages
          /\ DOMAIN Written(pages, i.page, front) = DOMAIN pages \cup {i.page}
      BY <1>1, <1>2, <2>7, PageWritten, ZenonT(30)
    <3> QED
      BY <1>1, <2>8, <3>1
  <2>10. Loads(n, UploadedPages(i, pages))
    BY <1>1, <2>3, <2>5, <2>6, <2>9 DEF Loads
  <2> QED
    BY <2>1, <2>3, <2>10 DEF rest
<1>4. CASE ~(i.page <= i.cnt)
  <2>1. Uploaded(i) = i /\ UploadedPages(i, pages) = pages
    BY <1>2, <1>4 DEF Uploaded, UploadedPages, Writes
  <2> QED
    BY <1>4, <2>1
<1> QED
  BY <1>3, <1>4

\* next() gives an iterator again.
LEMMA AdvanceType ==
    ASSUME NEW i, NEW pages, Loads(i, pages), ~AtEnd(i)
    PROVE  /\ Loads(AdvancedIter(i, pages), AdvancedPages(i, pages))
           /\ AdvancedIter(i, pages).deleted = i.deleted
           /\ AdvancedIter(i, pages).cnt = i.cnt
           /\ AdvancedPages(i, pages) = pages \/ i.deleted > 0
<1> DEFINE e == Stepped(i)
           u == Uploaded(e)
           ps == UploadedPages(e, pages)
<1>1. Loads(e, pages) /\ e.deleted = i.deleted /\ e.cnt = i.cnt
  BY SteppedType
<1> HIDE DEF e
<1>2. CASE OnePageRead(e)
  <2>1. Loads(u, ps) /\ u.deleted = e.deleted /\ u.cnt = e.cnt
    BY <1>1, UploadType
  <2>2. AdvancedPages(i, pages) = ps /\ AdvancedIter(i, pages) = NextPageLoad(u, ps)
    BY <1>2 DEF AdvancedPages, AdvancedIter, e
  <2>3. ps = pages \/ e.deleted > 0
    BY DEF UploadedPages, Writes
  <2> HIDE DEF u, ps
  <2>4. /\ Loads(NextPageLoad(u, ps), ps)
        /\ NextPageLoad(u, ps).deleted = u.deleted /\ NextPageLoad(u, ps).cnt = u.cnt
    BY <2>1, LoadType
  <2> QED
    BY <1>1, <2>1, <2>2, <2>3, <2>4
<1>3. CASE ~OnePageRead(e)
  <2>1. AdvancedPages(i, pages) = pages /\ AdvancedIter(i, pages) = e
    BY <1>3 DEF AdvancedPages, AdvancedIter, e
  <2> QED
    BY <1>1, <2>1
<1> QED
  BY <1>2, <1>3

\* The page is full when the cursor has gone over its last row.
LEMMA SteppedPageRead ==
    ASSUME NEW i, NEW pages, NEW rows, NEW short, NEW win \in Nat \ {0, 1},
           Walks(i, pages, rows, short, win), ~AtEnd(i)
    PROVE  OnePageRead(Stepped(i)) <=> i.cur = RowsLimit
<1>0. i \in Iter /\ Loads(i, pages) /\ Cursor(i, pages, rows, short, win)
  BY DEF Walks, Loads
<1>1. i.page \in Nat \ {0} /\ i.cur \in Nat \ {0} /\ RowsBefore(i.page) \in Int
  BY <1>0, IterNumbers
<1>2. i.cur <= RowsLimit /\ i.read = RowsBefore(i.page) + i.cur - 1
  BY <1>0 DEF Cursor
<1>3. i.cur \in 1..RowsLimit
  BY <1>1, <1>2, RowsLimitPositive
<1>4. Stepped(i).read = i.read + 1
  BY <1>0, SteppedType
<1>5. i.read + 1 = RowsBefore(i.page) + i.cur
  BY <1>1, <1>2
<1>6. (RowsBefore(i.page) + i.cur) % RowsLimit = 0 <=> i.cur = RowsLimit
  BY <1>1, <1>3, PageRead
<1> QED
  BY <1>4, <1>5, <1>6 DEF OnePageRead

\* The first n rows of a list are dropped.
Dropped(all, front, left, n) ==
    /\ left \in Seq(Row) /\ front \in Seq(Row)
    /\ Len(left) = Len(all) - n /\ Len(front) = n
    /\ \A j \in 1..(Len(all) - n) : left[j] = all[n + j]
    /\ front \o left = all

\* What is left of two lists when the front of the first is dropped.
LEMMA DropFront ==
    ASSUME NEW s, s \in Seq(Row), NEW t, t \in Seq(Row), NEW n \in Nat, n <= Len(s)
    PROVE  Dropped(s \o t, SubSeq(s, 1, n), SubSeq(s, n + 1, Len(s)) \o t, n)
<1> DEFINE rest  == SubSeq(s, n + 1, Len(s))
           front == SubSeq(s, 1, n)
           left  == rest \o t
           all   == s \o t
           ls == Len(s)
           lt == Len(t)
           lr == Len(rest)
<1>1. /\ ls \in Nat /\ lt \in Nat /\ Len(all) = ls + lt /\ all \in Seq(Row)
      /\ \A j \in 1..ls : all[j] = s[j]
      /\ \A j \in 1..lt : all[ls + j] = t[j]
  BY TwoLists
<1>2. /\ rest \in Seq(Row) /\ lr = ls - n /\ lr \in Nat
      /\ \A j \in 1..(ls - n) : rest[j] = s[n + j]
  <2>1. n + 1 \in Nat \ {0} /\ ls <= ls
    BY <1>1
  <2>2. /\ rest \in Seq(Row) /\ lr \in Nat
        /\ lr = IF n + 1 <= ls THEN ls - (n + 1) + 1 ELSE 0
        /\ \A j \in 1..(ls - (n + 1) + 1) : rest[j] = s[(n + 1) + j - 1]
    BY <1>1, <2>1, PartType
  <2> HIDE DEF rest, ls, lr
  <2>3. n <= ls
    BY DEF ls
  <2>4. lr = ls - n
    <3>1. n \in Nat /\ ls \in Nat
      BY <1>1
    <3> QED
      BY <2>2, <2>3, <3>1
  <2>5. ls - (n + 1) + 1 = ls - n
    BY <1>1
  <2>6. \A j \in 1..(ls - n) : (n + 1) + j - 1 = n + j
    BY <1>1
  <2>7. ASSUME NEW j \in 1..(ls - n) PROVE rest[j] = s[n + j]
    <3>1. rest[j] = s[(n + 1) + j - 1]
      BY <2>2, <2>5
    <3> QED
      BY <2>6, <3>1
  <2> QED
    BY <2>2, <2>4, <2>7
<1>3. front \in Seq(Row) /\ Len(front) = n
  <2>1. 1 \in Nat \ {0}
    OBVIOUS
  <2>2. front \in Seq(Row) /\ Len(front) = IF 1 <= n THEN n - 1 + 1 ELSE 0
    BY <1>1, <2>1, PartType
  <2> HIDE DEF front
  <2> QED
    BY <2>2
<1>4. front \o rest = s
  <2>1. 1 \in 1..(Len(s) + 1) /\ n \in (1 - 1)..Len(s) /\ Len(s) \in n..Len(s)
    BY <1>1
  <2>2. SubSeq(s, 1, n) \o SubSeq(s, n + 1, Len(s)) = SubSeq(s, 1, Len(s))
    BY <2>1, ConcatAdjacentSubSeq
  <2>3. SubSeq(s, 1, Len(s)) = s
    BY SubSeqFull
  <2> QED
    BY <2>2, <2>3
<1>5. /\ Len(left) = lr + lt /\ left \in Seq(Row)
      /\ \A j \in 1..lr : left[j] = rest[j]
      /\ \A j \in 1..lt : left[lr + j] = t[j]
  <2>1. t \in Seq(Row) /\ rest \in Seq(Row)
    BY <1>2
  <2> HIDE DEF rest, ls, all
  <2>2. /\ rest \o t \in Seq(Row) /\ Len(rest \o t) = Len(rest) + Len(t)
        /\ \A j \in 1..Len(rest) : (rest \o t)[j] = rest[j]
        /\ \A j \in 1..Len(t) : (rest \o t)[Len(rest) + j] = t[j]
    BY <2>1, TwoLists
  <2> QED
    BY <2>2
<1>6. front \o left = all
  <2> HIDE DEF rest, front
  <2>1. (front \o rest) \o t = front \o (rest \o t)
    BY <1>2, <1>3, RowsAssociate
  <2> QED
    BY <1>4, <2>1
<1> HIDE DEF rest, front, all, left, ls, lt, lr
<1>7. ASSUME NEW j \in 1..(Len(all) - n) PROVE left[j] = all[n + j]
  <2>0. n \in Nat /\ n <= ls /\ j \in 1..(ls + lt - n)
    BY <1>1 DEF ls
  <2>1. CASE j <= ls - n
    <3>1. j \in 1..lr /\ j \in 1..(ls - n) /\ n + j \in 1..ls
      BY <1>1, <1>2, <2>0, <2>1
    <3> QED
      BY <1>1, <1>2, <1>5, <3>1
  <2>2. CASE ~(j <= ls - n)
    <3> DEFINE k == j - (ls - n)
    <3>1. k \in 1..lt /\ j = lr + k /\ n + j = ls + k
      BY <1>1, <1>2, <2>0, <2>2
    <3> HIDE DEF k
    <3> QED
      BY <1>1, <1>5, <3>1
  <2> QED
    BY <2>1, <2>2
<1>8. Len(left) = Len(all) - n
  BY <1>1, <1>2, <1>5
<1> QED
  <2>1. Dropped(all, front, left, n)
    BY <1>3, <1>5, <1>6, <1>7, <1>8 DEF Dropped
  <2> QED
    BY <2>1 DEF front, left, all, rest

\* What current_page_upload writes.
LEMMA UploadedPagesAre ==
    ASSUME NEW i, NEW pages, Loads(i, pages), i.page <= i.cnt
    PROVE  LET ps == UploadedPages(i, pages) IN
           /\ ps \in Pages /\ DOMAIN ps = DOMAIN pages
           /\ \A p \in DOMAIN pages : p # i.page => ps[p] = pages[p]
           /\ i.deleted = 0 => ps = pages
           /\ i.deleted > 0 => ps[i.page] = SubSeq(i.rows, 1, i.cur - 1)
<1> DEFINE front == SubSeq(i.rows, 1, i.cur - 1)
<1>1. i \in Iter /\ Shape(i) /\ pages \in Pages /\ 1..i.cnt \subseteq DOMAIN pages
  BY DEF Loads
<1>2. /\ i.rows \in Seq(Row) /\ i.cur \in Nat \ {0} /\ i.page \in Nat \ {0} /\ i.cnt \in Nat
      /\ Len(i.rows) \in Nat /\ i.deleted \in Nat
  BY <1>1 DEF Iter
<1>3. front \in Seq(Row)
  <2>1. 1 \in Nat \ {0} /\ i.cur - 1 \in Nat /\ i.cur - 1 <= Len(i.rows)
    BY <1>1, <1>2 DEF Shape
  <2> QED
    BY <1>2, <2>1, PartType
<1>4. i.page \in DOMAIN pages
  BY <1>1, <1>2
<1>5. /\ i.deleted = 0 => UploadedPages(i, pages) = pages
      /\ i.deleted > 0 => UploadedPages(i, pages) = Written(pages, i.page, front)
  BY <1>2 DEF UploadedPages, Writes
<1> HIDE DEF front
<1>6. /\ Written(pages, i.page, front) \in Pages
      /\ DOMAIN Written(pages, i.page, front) = DOMAIN pages \cup {i.page}
      /\ Written(pages, i.page, front)[i.page] = front
      /\ \A p \in DOMAIN pages : p # i.page => Written(pages, i.page, front)[p] = pages[p]
  BY <1>1, <1>2, <1>3, PageWritten, ZenonT(30)
<1>7. CASE i.deleted = 0
  BY <1>1, <1>5, <1>7
<1>8. CASE i.deleted > 0
  BY <1>4, <1>5, <1>6, <1>8 DEF front
<1> QED
  BY <1>2, <1>7, <1>8

\* The pages behind the page written.
LEMMA LaterRows ==
    ASSUME NEW pages \in Pages, NEW ps, NEW page \in Nat, NEW cnt \in Nat,
           1..cnt \subseteq DOMAIN pages,
           \A p \in DOMAIN pages : p # page => ps[p] = pages[p],
           NEW a \in Nat \ {0}, page < a
    PROVE  Rows(ps, a, cnt) = Rows(pages, a, cnt)
<1>1. \A k \in a..cnt : ps[k] = pages[k]
  OBVIOUS
<1> QED
  BY <1>1, RowsSame

\* next() within a page.
LEMMA StepWalks ==
    ASSUME NEW i, NEW pages, NEW rows, NEW short, NEW win \in Nat \ {0, 1},
           Walks(i, pages, rows, short, win), ~AtEnd(i),
           i.cur # RowsLimit
    PROVE  Walks(Stepped(i), pages, rows, short, win) /\ Passed(Stepped(i)) = Passed(i) + 1
<1> DEFINE e == Stepped(i)
           lb == Len(rows)
           ps == Passed(i)
           ahead == AheadOf(i, pages)
<1>0. i \in Iter /\ Loads(i, pages) /\ Cursor(i, pages, rows, short, win)
  BY DEF Walks, Loads
<1>1. /\ Loads(e, pages) /\ e.cur = i.cur + 1 /\ e.read = i.read + 1
      /\ e.rows = i.rows /\ e.page = i.page /\ e.loaded = i.loaded /\ e.deleted = i.deleted
      /\ e.cnt = i.cnt
  BY <1>0, SteppedType
<1> HIDE DEF e
<1>2. /\ i.cur \in Nat \ {0} /\ i.read \in Nat /\ i.deleted \in Nat /\ RowsBefore(i.page) \in Int
      /\ ps \in Nat
  BY <1>0, IterNumbers
<1>3. rows \in Seq(Row) /\ lb \in Nat
  <2>1. rows \in Seq(Row)
    BY DEF Walks
  <2> QED
    BY <2>1
<1>4. Passed(e) = ps + 1
  BY <1>1, <1>2 DEF Passed
<1>5. AheadOf(e, pages) = ahead
  BY <1>1 DEF AheadOf
<1>6. ps < lb
  BY CursorOnRow
<1>7. /\ i.cur <= RowsLimit /\ i.read = RowsBefore(i.page) + i.cur - 1
      /\ Len(ahead) = lb - ps + i.cur - 1
      /\ \A j \in 1..(lb - ps) : ahead[i.cur - 1 + j] = rows[ps + j]
  BY <1>0 DEF Cursor
<1>8. /\ lb <= RowsBefore(e.cnt + 1)
      /\ e.loaded < e.cnt =>
           RowsBefore(win + e.page - 1) + e.deleted < RowsBefore(e.loaded + 1)
      /\ \A k \in e.loaded..(e.cnt - 1) :
           RowsBefore(k + 1) <= lb - Len(Rows(pages, k + 1, e.cnt)) + short
  BY <1>0, <1>1 DEF Cursor
<1> HIDE DEF lb, ps, ahead
<1>9. /\ e.cur <= RowsLimit /\ e.read = RowsBefore(e.page) + e.cur - 1
      /\ ps + 1 <= lb
  <2> DEFINE c == i.cur
             bp == RowsBefore(i.page)
  <2>1. c \in Nat /\ bp \in Int /\ c <= RowsLimit /\ c # RowsLimit /\ RowsLimit \in Nat
    BY <1>2, <1>7, RowsLimitPositive
  <2>2. e.cur = c + 1 /\ RowsBefore(e.page) = bp /\ e.read = bp + c - 1 + 1
    BY <1>1, <1>7
  <2>3. ps + 1 <= lb
    BY <1>2, <1>3, <1>6
  <2> HIDE DEF c, bp
  <2>4. c + 1 <= RowsLimit /\ bp + c - 1 + 1 = bp + (c + 1) - 1
    BY <2>1
  <2> QED
    BY <2>2, <2>3, <2>4
<1>10. Len(ahead) = lb - (ps + 1) + e.cur - 1
  BY <1>1, <1>2, <1>3, <1>7
<1>11. ASSUME NEW j \in 1..(lb - (ps + 1)) PROVE ahead[e.cur - 1 + j] = rows[(ps + 1) + j]
  <2>1. j + 1 \in 1..(lb - ps)
    BY <1>2, <1>3
  <2>2. ahead[i.cur - 1 + (j + 1)] = rows[ps + (j + 1)]
    BY <1>7, <2>1
  <2>3. e.cur - 1 + j = i.cur - 1 + (j + 1) /\ (ps + 1) + j = ps + (j + 1)
    BY <1>1, <1>2
  <2> QED
    BY <2>2, <2>3
<1>12. Cursor(e, pages, rows, short, win)
  BY <1>4, <1>5, <1>8, <1>9, <1>10, <1>11 DEF Cursor, lb, ahead
<1>13. /\ rows \in Seq(Row) /\ short \in Nat
       /\ short < RowsBefore(win) /\ (e.deleted > 0 => short = 0)
  BY <1>1 DEF Walks
<1> QED
  BY <1>1, <1>4, <1>12, <1>13 DEF Walks, e, ps

\* next() at the end of a page: before the next page is loaded ...
LEMMA PageOut ==
    ASSUME NEW i, NEW pages, NEW rows, NEW short, NEW win \in Nat \ {0, 1},
           Walks(i, pages, rows, short, win), ~AtEnd(i),
           i.cur = RowsLimit
    PROVE  LET e  == Stepped(i)
               ps == UploadedPages(e, pages)
               u  == Uploaded(e)
           IN  /\ Loads(e, pages) /\ e.page <= e.cnt
               /\ Loads(u, ps) /\ (AtEnd(u) => u.loaded = u.cnt)
               /\ u.cur = 1 /\ u.page = i.page + 1 /\ u.read = i.read + 1
               /\ u.deleted = i.deleted /\ u.loaded = i.loaded /\ u.cnt = i.cnt
               /\ AheadOf(u, ps) \in Seq(Row)
               /\ Len(AheadOf(u, ps)) = Len(AheadOf(i, pages)) - RowsLimit
               /\ \A j \in 1..(Len(AheadOf(i, pages)) - RowsLimit) :
                      AheadOf(u, ps)[j] = AheadOf(i, pages)[RowsLimit + j]
               /\ SubSeq(i.rows, 1, RowsLimit) \in Seq(Row)
               /\ Len(SubSeq(i.rows, 1, RowsLimit)) = RowsLimit
               /\ SubSeq(i.rows, 1, RowsLimit) \o AheadOf(u, ps) = AheadOf(i, pages)
               /\ \A a \in Nat : i.page < a => Rows(ps, a, i.cnt) = Rows(pages, a, i.cnt)
<1> DEFINE e  == Stepped(i)
           ps == UploadedPages(e, pages)
           u  == Uploaded(e)
           later == Rows(pages, i.loaded + 1, i.cnt)
<1>0. i \in Iter /\ Loads(i, pages) /\ Cursor(i, pages, rows, short, win) /\ pages \in Pages
      /\ 1..i.cnt \subseteq DOMAIN pages
  BY DEF Walks, Loads
<1>1. /\ i.loaded \in Nat /\ i.cnt \in Nat /\ i.page \in Nat \ {0} /\ i.page <= i.loaded
      /\ i.page <= i.cnt /\ i.cur \in 1..Len(i.rows)
  <2>1. i.page <= i.cnt /\ i.page <= i.loaded /\ i.cur \in 1..Len(i.rows)
    BY CursorOnRow
  <2> QED
    BY <1>0, <2>1, IterNumbers
<1>2. /\ Loads(e, pages) /\ e.cur = i.cur + 1 /\ e.read = i.read + 1
      /\ e.rows = i.rows /\ e.page = i.page /\ e.loaded = i.loaded /\ e.deleted = i.deleted
      /\ e.cnt = i.cnt
  BY <1>0, SteppedType
<1>3. e.page <= e.cnt
  BY <1>1, <1>2
<1> HIDE DEF e
<1>4. /\ Loads(u, ps)
      /\ u.read = i.read + 1 /\ u.deleted = i.deleted
      /\ u.loaded = i.loaded /\ u.cnt = i.cnt
      /\ u.rows = SubSeq(i.rows, RowsLimit + 1, Len(i.rows))
      /\ u.cur = 1 /\ u.page = i.page + 1
  BY <1>2, <1>3, UploadType
<1>5. \A a \in Nat : i.page < a => Rows(ps, a, i.cnt) = Rows(pages, a, i.cnt)
  <2>1. \A p \in DOMAIN pages : p # i.page => ps[p] = pages[p]
    BY <1>2, <1>3, UploadedPagesAre
  <2> HIDE DEF ps
  <2> SUFFICES ASSUME NEW a \in Nat, i.page < a PROVE Rows(ps, a, i.cnt) = Rows(pages, a, i.cnt)
    OBVIOUS
  <2>2. a \in Nat \ {0} /\ i.page \in Nat
    BY <1>1
  <2> QED
    BY <1>0, <1>1, <2>1, <2>2, LaterRows
<1> HIDE DEF u, ps
<1>6. AheadOf(u, ps) = SubSeq(i.rows, RowsLimit + 1, Len(i.rows)) \o later
  <2>1. Rows(ps, i.loaded + 1, i.cnt) = later
    <3>1. i.loaded + 1 \in Nat /\ i.page < i.loaded + 1
      BY <1>1
    <3> QED
      BY <1>5, <3>1
  <2> QED
    BY <1>4, <2>1 DEF AheadOf
<1>7. i.rows \in Seq(Row) /\ later \in Seq(Row) /\ RowsLimit \in Nat /\ RowsLimit <= Len(i.rows)
  <2>1. i.rows \in Seq(Row) /\ later \in Seq(Row)
    BY <1>0, AheadType
  <2> QED
    BY <1>1, <2>1, RowsLimitPositive
<1>8. AheadOf(i, pages) = i.rows \o later
  BY DEF AheadOf
<1> HIDE DEF later
<1>9. /\ AheadOf(u, ps) \in Seq(Row)
      /\ Len(AheadOf(u, ps)) = Len(AheadOf(i, pages)) - RowsLimit
      /\ \A j \in 1..(Len(AheadOf(i, pages)) - RowsLimit) :
             AheadOf(u, ps)[j] = AheadOf(i, pages)[RowsLimit + j]
      /\ SubSeq(i.rows, 1, RowsLimit) \in Seq(Row)
      /\ Len(SubSeq(i.rows, 1, RowsLimit)) = RowsLimit
      /\ SubSeq(i.rows, 1, RowsLimit) \o AheadOf(u, ps) = AheadOf(i, pages)
  <2>1. Dropped(i.rows \o later, SubSeq(i.rows, 1, RowsLimit),
                SubSeq(i.rows, RowsLimit + 1, Len(i.rows)) \o later, RowsLimit)
    BY <1>7, DropFront
  <2>2. Dropped(AheadOf(i, pages), SubSeq(i.rows, 1, RowsLimit), AheadOf(u, ps), RowsLimit)
    BY <1>6, <1>8, <2>1
  <2> QED
    BY <2>2 DEF Dropped
<1>10. AtEnd(u) => u.loaded = u.cnt
  <2>1. SUFFICES ASSUME u.loaded # u.cnt PROVE ~AtEnd(u)
    OBVIOUS
  <2>2. i.loaded < i.cnt
    BY <1>0, <1>1, <1>4, <2>1 DEF Loads, Shape
  <2>3. Len(i.rows) > RowsLimit /\ Len(i.rows) \in Nat
    <3>1. Len(i.rows) > RowsLimit
      BY <2>2, MoreThanAPage
    <3> QED
      BY <1>7, <3>1
  <2> DEFINE n == Len(i.rows)
  <2>4. Len(u.rows) = IF RowsLimit + 1 <= n THEN n - (RowsLimit + 1) + 1 ELSE 0
    <3>1. RowsLimit + 1 \in Nat \ {0} /\ n <= n
      BY <1>7, <2>3
    <3> QED
      BY <1>4, <1>7, <2>3, <3>1, PartType
  <2> HIDE DEF n
  <2>5. Len(u.rows) >= 1
    <3>1. n \in Nat /\ n > RowsLimit /\ RowsLimit \in Nat
      BY <1>7, <2>3 DEF n
    <3> QED
      BY <2>4, <3>1
  <2> QED
    BY <1>4, <2>4, <2>5, RowsLimitPositive, <2>3 DEF AtEnd, n
<1> QED
  BY <1>2, <1>3, <1>4, <1>5, <1>9, <1>10 DEF e, u, ps

\* ... and after.
LEMMA PageOver ==
    ASSUME NEW i, NEW pages, NEW rows, NEW short, NEW win \in Nat \ {0, 1},
           Walks(i, pages, rows, short, win), ~AtEnd(i),
           i.cur = RowsLimit
    PROVE  LET e  == Stepped(i)
               ps == UploadedPages(e, pages)
               n  == NextPageLoad(Uploaded(e), ps)
           IN  /\ Walks(n, ps, rows, short, win) /\ Passed(n) = Passed(i) + 1
               /\ n.page = i.page + 1
               /\ SubSeq(i.rows, 1, RowsLimit) \o AheadOf(n, ps) = AheadOf(i, pages)
<1> DEFINE e  == Stepped(i)
           ps == UploadedPages(e, pages)
           u  == Uploaded(e)
           n  == NextPageLoad(u, ps)
           ahead == AheadOf(i, pages)
           left  == AheadOf(n, ps)
           lb == Len(rows)
           pd == Passed(i)
<1>0. i \in Iter /\ Loads(i, pages) /\ Cursor(i, pages, rows, short, win)
  BY DEF Walks, Loads
<1>1. /\ Loads(u, ps) /\ (AtEnd(u) => u.loaded = u.cnt)
      /\ u.cur = 1 /\ u.page = i.page + 1 /\ u.read = i.read + 1
      /\ u.deleted = i.deleted /\ u.loaded = i.loaded /\ u.cnt = i.cnt
      /\ Len(AheadOf(u, ps)) = Len(ahead) - RowsLimit
      /\ \A j \in 1..(Len(ahead) - RowsLimit) : AheadOf(u, ps)[j] = ahead[RowsLimit + j]
      /\ SubSeq(i.rows, 1, RowsLimit) \o AheadOf(u, ps) = ahead
      /\ \A a \in Nat : i.page < a => Rows(ps, a, i.cnt) = Rows(pages, a, i.cnt)
  BY PageOut
<1> HIDE DEF u, ps
<1>2. /\ Loads(n, ps)
      /\ n.page = i.page + 1 /\ n.read = i.read + 1 /\ n.deleted = i.deleted /\ n.cnt = i.cnt
      /\ n.cur = 1
      /\ n.loaded = IF i.loaded = i.cnt THEN i.loaded ELSE i.loaded + 1
      /\ left = AheadOf(u, ps)
  <2>1. /\ Loads(n, ps)
        /\ n.page = u.page /\ n.read = u.read /\ n.deleted = u.deleted /\ n.cnt = u.cnt
    BY <1>1, LoadType
  <2>2. /\ n.cur = u.cur
        /\ n.loaded = IF u.loaded = u.cnt THEN u.loaded ELSE u.loaded + 1
        /\ left = AheadOf(u, ps)
    BY <1>1, LoadKeeps
  <2> HIDE DEF n, left
  <2> QED
    BY <1>1, <2>1, <2>2
<1> HIDE DEF n, left
<1>3. /\ i.cur \in Nat \ {0} /\ i.read \in Nat /\ i.deleted \in Nat /\ i.loaded \in Nat
      /\ i.page \in Nat \ {0} /\ i.cnt \in Nat /\ RowsBefore(i.page) \in Int /\ pd \in Nat
  BY <1>0, IterNumbers
<1>4. lb \in Nat
  <2>1. rows \in Seq(Row)
    BY DEF Walks
  <2> QED
    BY <2>1
<1>5. Passed(n) = pd + 1
  BY <1>2, <1>3 DEF Passed
<1>6. pd < lb /\ i.page <= i.loaded
  BY CursorOnRow
<1>7. /\ i.read = RowsBefore(i.page) + i.cur - 1
      /\ Len(ahead) = lb - pd + i.cur - 1
      /\ \A j \in 1..(lb - pd) : ahead[i.cur - 1 + j] = rows[pd + j]
      /\ lb <= RowsBefore(i.cnt + 1)
      /\ i.loaded < i.cnt =>
           RowsBefore(win + i.page - 1) + i.deleted < RowsBefore(i.loaded + 1)
      /\ \A k \in i.loaded..(i.cnt - 1) :
           RowsBefore(k + 1) <= lb - Len(Rows(pages, k + 1, i.cnt)) + short
  BY <1>0 DEF Cursor
<1> HIDE DEF lb, pd, ahead
<1>8. /\ n.cur <= RowsLimit /\ pd + 1 <= lb
      /\ n.read = RowsBefore(n.page) + n.cur - 1
  <2> DEFINE bp == RowsBefore(i.page)
  <2>1. RowsBefore(i.page + 1) = bp + RowsLimit
    <3>1. i.page \in Int
      BY <1>3
    <3> QED
      BY <3>1, RowsBeforeNext
  <2>2. bp \in Int /\ RowsLimit \in Nat /\ RowsLimit >= 1 /\ i.read = bp + RowsLimit - 1
    BY <1>3, <1>7, RowsLimitPositive
  <2> HIDE DEF bp
  <2>3. bp + RowsLimit - 1 + 1 = (bp + RowsLimit) + 1 - 1
    BY <2>2
  <2>4. pd + 1 <= lb
    BY <1>3, <1>4, <1>6
  <2> QED
    BY <1>2, <2>1, <2>2, <2>3, <2>4
<1>9. Len(left) = lb - (pd + 1) + n.cur - 1
  <2>1. Len(ahead) = lb - pd + RowsLimit - 1 /\ Len(left) = Len(ahead) - RowsLimit
    BY <1>1, <1>2, <1>7
  <2>2. Len(left) = (lb - pd + RowsLimit - 1) - RowsLimit
    BY <2>1
  <2> QED
    BY <1>2, <1>3, <1>4, <2>2, RowsLimitPositive
<1>10. ASSUME NEW j \in 1..(lb - (pd + 1)) PROVE left[n.cur - 1 + j] = rows[(pd + 1) + j]
  <2>1. j + 1 \in 1..(lb - pd) /\ j \in Nat
    BY <1>3, <1>4
  <2>2. ahead[i.cur - 1 + (j + 1)] = rows[pd + (j + 1)]
    BY <1>7, <2>1
  <2>3. i.cur - 1 + (j + 1) = RowsLimit + j /\ pd + (j + 1) = (pd + 1) + j
        /\ n.cur - 1 + j = j
    BY <1>2, <1>3, <2>1, RowsLimitPositive
  <2>4. j \in 1..(Len(ahead) - RowsLimit)
    <3>1. Len(ahead) = lb - pd + RowsLimit - 1
      BY <1>7
    <3>2. Len(ahead) - RowsLimit = lb - (pd + 1)
      BY <1>3, <1>4, <3>1, RowsLimitPositive
    <3> QED
      BY <3>2
  <2>5. left[j] = ahead[RowsLimit + j]
    BY <1>1, <1>2, <2>4
  <2> QED
    BY <2>2, <2>3, <2>5
<1>11. ASSUME n.loaded < n.cnt
       PROVE  RowsBefore(win + n.page - 1) + n.deleted < RowsBefore(n.loaded + 1)
  <2> DEFINE m == win + i.page - 1
             bm == RowsBefore(m)
             bl == RowsBefore(i.loaded + 1)
  <2>1. i.loaded < i.cnt /\ n.loaded = i.loaded + 1
    BY <1>2, <1>3, <1>11
  <2>2. bm + i.deleted < bl
    BY <1>7, <2>1
  <2>3. m \in Int /\ i.loaded + 1 \in Int /\ win + n.page - 1 = m + 1
    BY <1>2, <1>3
  <2> HIDE DEF m
  <2>4. RowsBefore(m + 1) = bm + RowsLimit /\ bm \in Int
    BY <2>3, RowsBeforeNext, RowsBeforeInt
  <2>5. RowsBefore((i.loaded + 1) + 1) = bl + RowsLimit /\ bl \in Int
    BY <2>3, RowsBeforeNext, RowsBeforeInt
  <2> HIDE DEF bm, bl
  <2>6. (bm + RowsLimit) + i.deleted < bl + RowsLimit
    BY <1>3, <2>2, <2>4, <2>5, RowsLimitPositive
  <2> QED
    BY <1>2, <2>1, <2>3, <2>4, <2>5, <2>6
<1>12. ASSUME NEW k \in n.loaded..(n.cnt - 1)
       PROVE  RowsBefore(k + 1) <= lb - Len(Rows(ps, k + 1, n.cnt)) + short
  <2>1. k \in i.loaded..(i.cnt - 1) /\ k + 1 \in Nat /\ i.page < k + 1
    BY <1>2, <1>3, <1>6
  <2>2. Rows(ps, k + 1, i.cnt) = Rows(pages, k + 1, i.cnt)
    BY <1>1, <2>1
  <2>3. RowsBefore(k + 1) <= lb - Len(Rows(pages, k + 1, i.cnt)) + short
    BY <1>7, <2>1
  <2> QED
    BY <1>2, <2>2, <2>3
<1>13. Cursor(n, ps, rows, short, win)
  <2>1. lb <= RowsBefore(n.cnt + 1)
    BY <1>2, <1>7
  <2> QED
    BY <1>5, <1>8, <1>9, <1>10, <1>11, <1>12, <2>1 DEF Cursor, lb, left
<1>14. /\ rows \in Seq(Row) /\ short \in Nat
       /\ short < RowsBefore(win) /\ (n.deleted > 0 => short = 0)
  BY <1>2 DEF Walks
<1>15. Walks(n, ps, rows, short, win)
  BY <1>2, <1>13, <1>14 DEF Walks
<1> QED
  BY <1>1, <1>2, <1>5, <1>15 DEF n, u, ps, left, ahead, pd

\* A step of the iterator keeps it walking over the rows it began with.
LEMMA AdvanceWalks ==
    ASSUME NEW i, NEW pages, NEW rows, NEW short, NEW win \in Nat \ {0, 1},
           Walks(i, pages, rows, short, win), ~AtEnd(i)
    PROVE  /\ Walks(AdvancedIter(i, pages), AdvancedPages(i, pages), rows, short, win)
           /\ Passed(AdvancedIter(i, pages)) = Passed(i) + 1
<1>1. OnePageRead(Stepped(i)) <=> i.cur = RowsLimit
  BY SteppedPageRead
<1>2. CASE i.cur = RowsLimit
  <2>1. /\ AdvancedPages(i, pages) = UploadedPages(Stepped(i), pages)
        /\ AdvancedIter(i, pages)
              = NextPageLoad(Uploaded(Stepped(i)), UploadedPages(Stepped(i), pages))
    BY <1>1, <1>2 DEF AdvancedPages, AdvancedIter
  <2> QED
    BY <1>2, <2>1, PageOver
<1>3. CASE i.cur # RowsLimit
  <2>1. AdvancedPages(i, pages) = pages /\ AdvancedIter(i, pages) = Stepped(i)
    BY <1>1, <1>3 DEF AdvancedPages, AdvancedIter
  <2> QED
    BY <1>3, <2>1, StepWalks
<1> QED
  BY <1>2, <1>3

-----------------------------------------------------------------------------
(* No row is lost between the pages and the list of the iterator.          *)

\* The table behind the iterator, and the rows from its list on, are the rows left.
Whole(i, pages, left, pk) ==
    /\ left \in Seq(Row) /\ Ascending(left) /\ UpTo(left, pk)
    /\ Rows(pages, 1, i.page - 1) \o AheadOf(i, pages) = left
    /\ \A k \in 0..(i.page - 1) : Len(Rows(pages, 1, k)) = RowsBefore(k + 1)
    /\ DOMAIN pages = 1..i.cnt

\* While nothing is deleted these are the rows of the files.
Untouched(i, pages, rows) == Rows(pages, 1, i.cnt) = rows /\ Full(pages, i.cnt - 1, 0)

\* Equal lists have equal fronts.
LEMMA SameFront ==
    ASSUME NEW s, NEW t, NEW u, NEW v, s \in Seq(Row), t \in Seq(Row), u \in Seq(Row),
           v \in Seq(Row), s \o t = u \o v, Len(s) = Len(u)
    PROVE  s = u
<1>1. \A j \in 1..Len(s) : (s \o t)[j] = s[j] /\ (u \o v)[j] = u[j]
  OBVIOUS
<1>2. \A j \in 1..Len(s) : s[j] = u[j]
  BY <1>1
<1> QED
  BY <1>2, SeqEqual

\* The pages of a table that is being walked over.
LEMMA WalkedPages ==
    ASSUME NEW i, NEW pages, Loads(i, pages), NEW k \in Int, k <= i.cnt
    PROVE  /\ PagesThere(pages, 1, k) /\ Rows(pages, 1, k) \in Seq(Row)
           /\ Len(Rows(pages, 1, k)) \in Nat
<1>1. pages \in Pages /\ i.cnt \in Nat /\ 1..i.cnt \subseteq DOMAIN pages
  BY DEF Loads, Iter
<1> QED
  BY <1>1, FirstRows

\* A full page of rows leaves the list: it is the page in the files.
LEMMA PageKept ==
    ASSUME NEW i, NEW pages, NEW rows, NEW pk, NEW win \in Nat \ {0, 1},
           Walks(i, pages, rows, 0, win), ~AtEnd(i),
           i.cur = RowsLimit, Whole(i, pages, rows, pk), Untouched(i, pages, rows),
           NEW left, Dropped(AheadOf(i, pages), SubSeq(i.rows, 1, RowsLimit), left, RowsLimit)
    PROVE  Rows(pages, 1, i.page) = Rows(pages, 1, i.page - 1) \o SubSeq(i.rows, 1, RowsLimit)
<1> DEFINE behind == Rows(pages, 1, i.page - 1)
           upto  == Rows(pages, 1, i.page)
           later == Rows(pages, i.page + 1, i.cnt)
           front == SubSeq(i.rows, 1, RowsLimit)
<1>0. Loads(i, pages) /\ i \in Iter /\ Cursor(i, pages, rows, 0, win) /\ pages \in Pages
      /\ 1..i.cnt \subseteq DOMAIN pages
  BY DEF Walks, Loads
<1>1. i.page <= i.cnt /\ Passed(i) < Len(rows)
  BY CursorOnRow
<1>2. i.page \in Nat \ {0} /\ i.cnt \in Nat /\ RowsBefore(i.page) \in Int
      /\ Passed(i) \in Nat /\ i.read \in Nat /\ i.read <= Passed(i)
  BY <1>0, IterNumbers
<1>3. behind \in Seq(Row) /\ upto \in Seq(Row) /\ later \in Seq(Row)
  <2>1. i.page - 1 \in Int /\ i.page - 1 <= i.cnt /\ i.page \in Int
        /\ i.page + 1 \in Nat \ {0}
    BY <1>1, <1>2
  <2>2. behind \in Seq(Row) /\ upto \in Seq(Row)
    BY <1>0, <1>1, <2>1, WalkedPages
  <2>3. later \in Seq(Row)
    BY <1>0, <1>2, <2>1, LastRows
  <2> QED
    BY <2>2, <2>3
<1>4. rows = upto \o later
  <2>1. PagesThere(pages, 1, i.cnt)
    BY <1>0, <1>2, WalkedPages
  <2>2. Rows(pages, 1, i.cnt) = upto \o later
    <3>1. 1 \in Nat \ {0} /\ i.page \in Int /\ i.cnt \in Int /\ 1 <= i.page + 1
      BY <1>2
    <3> QED
      BY <1>1, <2>1, <3>1, RowsSplit
  <2> QED
    BY <2>2 DEF Untouched
<1>5. /\ front \in Seq(Row) /\ left \in Seq(Row) /\ Len(front) = RowsLimit
      /\ rows = (behind \o front) \o left
  <2>1. /\ front \in Seq(Row) /\ left \in Seq(Row) /\ Len(front) = RowsLimit
        /\ front \o left = AheadOf(i, pages)
    BY DEF Dropped
  <2>2. behind \o AheadOf(i, pages) = rows
    BY DEF Whole
  <2> HIDE DEF behind, front
  <2>3. (behind \o front) \o left = behind \o (front \o left)
    BY <1>3, <2>1, RowsAssociate
  <2> QED
    BY <2>1, <2>2, <2>3
<1>6. Len(upto) = RowsBefore(i.page + 1)
  <2>0. RowsBefore(i.page + 1) \in Int /\ Len(upto) \in Int
    <3>1. i.page + 1 \in Int
      BY <1>2
    <3>2. Len(upto) \in Int
      BY <1>3
    <3> QED
      BY <3>1, <3>2, RowsBeforeInt
  <2>1. CASE i.page < i.cnt
    <3>1. i.page \in 0..(i.cnt - 1)
      BY <1>2, <2>1
    <3>2. /\ Len(upto) <= RowsBefore(i.page + 1)
          /\ RowsBefore(i.page + 1) <= Len(upto) + 0
      BY <3>1 DEF Untouched, Full
    <3> HIDE DEF upto
    <3> QED
      BY <2>0, <3>2
  <2>2. CASE i.page = i.cnt
    <3>1. upto = rows
      BY <2>2 DEF Untouched
    <3>2. Len(rows) <= RowsBefore(i.page + 1)
      BY <1>0, <2>2 DEF Cursor
    <3>3. i.read = RowsBefore(i.page) + RowsLimit - 1
      BY <1>0 DEF Cursor
    <3>4. RowsBefore(i.page + 1) = RowsBefore(i.page) + RowsLimit
      <4>1. i.page \in Int
        BY <1>2
      <4> QED
        BY <4>1, RowsBeforeNext
    <3>5. Len(rows) \in Nat
      BY <1>3, <3>1
    <3> DEFINE n == Len(rows)
               m == RowsBefore(i.page)
               o == RowsBefore(i.page + 1)
    <3>6. n \in Nat /\ m \in Int /\ o = m + RowsLimit /\ n <= o /\ i.read = m + RowsLimit - 1
          /\ Passed(i) < n /\ i.read <= Passed(i) /\ Passed(i) \in Nat /\ RowsLimit \in Nat
      BY <1>1, <1>2, <3>2, <3>3, <3>4, <3>5, RowsLimitPositive
    <3>7. Len(upto) = n
      BY <3>1
    <3> HIDE DEF n, m, o, upto
    <3>8. n = o
      BY <3>6
    <3> QED
      BY <3>7, <3>8 DEF o
  <2> QED
    BY <1>1, <1>2, <2>1, <2>2
<1>9. Len(behind) = RowsBefore(i.page)
  <2>1. i.page - 1 \in 0..(i.page - 1) /\ (i.page - 1) + 1 = i.page
    BY <1>2
  <2> QED
    BY <2>1 DEF Whole
<1>10. RowsBefore(i.page + 1) = RowsBefore(i.page) + RowsLimit
  <2>1. i.page \in Int
    BY <1>2
  <2> QED
    BY <2>1, RowsBeforeNext
<1> HIDE DEF behind, upto, later, front
<1>7. behind \o front \in Seq(Row) /\ Len(behind \o front) = RowsBefore(i.page + 1)
  <2>1. behind \o front \in Seq(Row) /\ Len(behind \o front) = Len(behind) + Len(front)
    BY <1>3, <1>5, TwoLists
  <2> QED
    BY <1>5, <1>9, <1>10, <2>1
<1>8. upto = behind \o front
  BY <1>3, <1>4, <1>5, <1>6, <1>7, SameFront
<1> QED
  BY <1>8 DEF upto, behind, front

\* A step of the iterator moves rows between the pages, the list and the pages,
\* and loses none.
LEMMA PageOverWhole ==
    ASSUME NEW i, NEW pages, NEW rows, NEW left, NEW pk, NEW win \in Nat \ {0, 1},
           Walks(i, pages, rows, 0, win), ~AtEnd(i),
           i.cur = RowsLimit, Whole(i, pages, left, pk),
           i.deleted = 0 => left = rows /\ Untouched(i, pages, rows)
    PROVE  LET e  == Stepped(i)
               ps == UploadedPages(e, pages)
               n  == NextPageLoad(Uploaded(e), ps)
           IN  Whole(n, ps, left, pk)
<1> DEFINE e  == Stepped(i)
           ps == UploadedPages(e, pages)
           u  == Uploaded(e)
           n  == NextPageLoad(u, ps)
           front  == SubSeq(i.rows, 1, RowsLimit)
           behind == Rows(pages, 1, i.page - 1)
           ahead  == AheadOf(i, pages)
           after  == AheadOf(n, ps)
<1>0. i \in Iter /\ Loads(i, pages) /\ Cursor(i, pages, rows, 0, win) /\ pages \in Pages
  BY DEF Walks, Loads
<1>1. /\ i.page \in Nat \ {0} /\ i.page <= i.cnt /\ i.cnt \in Nat /\ i.deleted \in Nat
      /\ RowsBefore(i.page) \in Int
  BY <1>0, CursorOnRow, IterNumbers
<1>2. /\ Loads(e, pages) /\ e.page = i.page /\ e.cnt = i.cnt /\ e.deleted = i.deleted
      /\ e.rows = i.rows /\ e.cur = i.cur + 1
  BY <1>0, SteppedType
<1>3. /\ Walks(n, ps, rows, 0, win) /\ n.page = i.page + 1
      /\ front \o after = ahead
  BY PageOver
<1>4. n.cnt = i.cnt
  <2>1. Loads(u, ps) /\ u.cnt = e.cnt
    BY <1>2, UploadType
  <2> HIDE DEF u, ps, e
  <2> QED
    BY <1>2, <2>1, LoadType
<1>5. /\ ps \in Pages /\ DOMAIN ps = DOMAIN pages
      /\ \A p \in DOMAIN pages : p # i.page => ps[p] = pages[p]
      /\ i.deleted = 0 => ps = pages
      /\ i.deleted > 0 => ps[i.page] = front
  <2> HIDE DEF e
  <2>1. /\ ps \in Pages /\ DOMAIN ps = DOMAIN pages
        /\ \A p \in DOMAIN pages : p # e.page => ps[p] = pages[p]
        /\ e.deleted = 0 => ps = pages
        /\ e.deleted > 0 => ps[e.page] = SubSeq(e.rows, 1, e.cur - 1)
    BY <1>1, <1>2, UploadedPagesAre
  <2>2. e.cur - 1 = RowsLimit
    BY <1>2, RowsLimitPositive
  <2> HIDE DEF ps
  <2> QED
    BY <1>2, <2>1, <2>2
<1>6. Dropped(ahead, front, after, RowsLimit)
  <2>1. /\ AheadOf(u, ps) \in Seq(Row)
        /\ Len(AheadOf(u, ps)) = Len(ahead) - RowsLimit
        /\ \A j \in 1..(Len(ahead) - RowsLimit) : AheadOf(u, ps)[j] = ahead[RowsLimit + j]
        /\ front \in Seq(Row) /\ Len(front) = RowsLimit
        /\ front \o AheadOf(u, ps) = ahead
        /\ Loads(u, ps) /\ (AtEnd(u) => u.loaded = u.cnt)
    BY PageOut
  <2> HIDE DEF ahead, front, u, ps
  <2>2. AheadOf(n, ps) = AheadOf(u, ps)
    BY <2>1, LoadKeeps
  <2> QED
    BY <2>1, <2>2 DEF Dropped
<1> HIDE DEF e, ps, u, n
<1>7. \A k \in Int : k < i.page => Rows(ps, 1, k) = Rows(pages, 1, k)
  <2> SUFFICES ASSUME NEW k \in Int, k < i.page PROVE Rows(ps, 1, k) = Rows(pages, 1, k)
    OBVIOUS
  <2>1. \A p \in 1..k : p \in DOMAIN pages /\ p # i.page
    BY <1>0, <1>1 DEF Loads
  <2>2. \A p \in 1..k : ps[p] = pages[p]
    BY <1>5, <2>1
  <2>3. 1 \in Nat \ {0}
    OBVIOUS
  <2> HIDE DEF front, behind, ahead, after
  <2> QED
    BY <2>2, <2>3, RowsSame, Zenon
<1>8. behind \in Seq(Row) /\ Len(behind) = RowsBefore(i.page)
  <2>1. i.page - 1 \in 0..(i.page - 1) /\ (i.page - 1) + 1 = i.page /\ i.page - 1 \in Int
        /\ i.page - 1 <= i.cnt
    BY <1>1
  <2>2. Len(behind) = RowsBefore(i.page)
    BY <2>1 DEF Whole
  <2> QED
    BY <1>0, <2>1, <2>2, WalkedPages
<1>9. Rows(ps, 1, i.page) = behind \o front
  <2>1. CASE i.deleted = 0
    <3>1. Whole(i, pages, rows, pk) /\ Untouched(i, pages, rows) /\ ps = pages
      BY <1>5, <2>1
    <3>2. Rows(pages, 1, i.page) = behind \o front
      BY <1>6, <3>1, PageKept
    <3> QED
      BY <3>1, <3>2
  <2>2. CASE i.deleted > 0
    <3> DEFINE k == i.page - 1
    <3>1. k \in Int /\ k + 1 = i.page /\ k < i.page /\ 1 <= k + 1
      BY <1>1
    <3>2. PagesThere(ps, 1, k + 1)
      <4>1. 1..(k + 1) \subseteq DOMAIN ps
        BY <1>0, <1>1, <1>5, <3>1 DEF Loads
      <4>2. 1 \in Nat \ {0} /\ k + 1 \in Int /\ ps \in Pages
        BY <1>5, <3>1
      <4> HIDE DEF k
      <4> QED
        BY <4>1, <4>2, PagesThereIn, Zenon
    <3> HIDE DEF k
    <3>3. Rows(ps, 1, k + 1) = Rows(ps, 1, k) \o ps[k + 1]
      <4>1. 1 \in Nat \ {0}
        OBVIOUS
      <4> QED
        BY <3>1, <3>2, <4>1, RowsBack
    <3>4. Rows(ps, 1, k) = behind
      BY <1>7, <3>1 DEF k
    <3> HIDE DEF front, behind
    <3> QED
      BY <1>5, <2>2, <3>1, <3>3, <3>4
  <2>3. i.deleted = 0 \/ i.deleted > 0
    BY <1>1
  <2> HIDE DEF front, behind
  <2> QED
    BY <2>1, <2>2, <2>3
<1> HIDE DEF front, behind, ahead, after
<1>10. Rows(ps, 1, n.page - 1) \o after = left
  <2>1. n.page - 1 = i.page
    BY <1>1, <1>3
  <2>2. front \in Seq(Row) /\ after \in Seq(Row)
    BY <1>6 DEF Dropped
  <2>3. (behind \o front) \o after = behind \o (front \o after)
    BY <1>8, <2>2, RowsAssociate
  <2>4. behind \o ahead = left
    BY DEF Whole, behind, ahead
  <2> QED
    BY <1>3, <1>9, <2>1, <2>3, <2>4
<1>11. ASSUME NEW k \in 0..(n.page - 1) PROVE Len(Rows(ps, 1, k)) = RowsBefore(k + 1)
  <2>1. CASE k = i.page
    <3>1. front \in Seq(Row) /\ Len(front) = RowsLimit
      BY <1>6 DEF Dropped
    <3>2. Len(behind \o front) = Len(behind) + Len(front)
      BY <1>8, <3>1, TwoLists
    <3>3. RowsBefore(i.page + 1) = RowsBefore(i.page) + RowsLimit
      <4>1. i.page \in Int
        BY <1>1
      <4> QED
        BY <4>1, RowsBeforeNext
    <3> QED
      BY <1>8, <1>9, <2>1, <3>1, <3>2, <3>3
  <2>2. CASE k # i.page
    <3>1. k \in 0..(i.page - 1) /\ k \in Int /\ k < i.page
      BY <1>1, <1>3, <2>2
    <3>2. Len(Rows(pages, 1, k)) = RowsBefore(k + 1)
      BY <3>1 DEF Whole
    <3> QED
      BY <1>7, <3>1, <3>2
  <2> QED
    BY <2>1, <2>2
<1>12. DOMAIN ps = 1..n.cnt /\ left \in Seq(Row) /\ Ascending(left) /\ UpTo(left, pk)
  BY <1>4, <1>5 DEF Whole
<1>13. Whole(n, ps, left, pk)
  BY <1>10, <1>11, <1>12 DEF Whole, after
<1> QED
  BY <1>13 DEF n, u, ps, e

\* The same for every step.
LEMMA AdvanceWhole ==
    ASSUME NEW i, NEW pages, NEW rows, NEW left, NEW pk, NEW win \in Nat \ {0, 1},
           Walks(i, pages, rows, 0, win), ~AtEnd(i),
           Whole(i, pages, left, pk), i.deleted = 0 => left = rows /\ Untouched(i, pages, rows)
    PROVE  Whole(AdvancedIter(i, pages), AdvancedPages(i, pages), left, pk)
<1>1. OnePageRead(Stepped(i)) <=> i.cur = RowsLimit
  BY SteppedPageRead
<1>2. CASE i.cur = RowsLimit
  <2>1. /\ AdvancedPages(i, pages) = UploadedPages(Stepped(i), pages)
        /\ AdvancedIter(i, pages)
              = NextPageLoad(Uploaded(Stepped(i)), UploadedPages(Stepped(i), pages))
    BY <1>1, <1>2 DEF AdvancedPages, AdvancedIter
  <2> QED
    BY <1>2, <2>1, PageOverWhole
<1>3. CASE i.cur # RowsLimit
  <2>1. AdvancedPages(i, pages) = pages /\ AdvancedIter(i, pages) = Stepped(i)
    BY <1>1, <1>3 DEF AdvancedPages, AdvancedIter
  <2>2. /\ Stepped(i).rows = i.rows /\ Stepped(i).page = i.page
        /\ Stepped(i).loaded = i.loaded /\ Stepped(i).cnt = i.cnt
    <3>1. Loads(i, pages)
      BY DEF Walks
    <3> QED
      BY <3>1, SteppedType
  <2>3. AheadOf(Stepped(i), pages) = AheadOf(i, pages)
    BY <2>2 DEF AheadOf
  <2> QED
    BY <2>1, <2>2, <2>3 DEF Whole
<1> QED
  BY <1>2, <1>3

-----------------------------------------------------------------------------
(* erase().                                                                *)

\* The k-th row leaves a list of rows.
Removes(s, k, r) ==
    /\ s \in Seq(Row) /\ k \in 1..Len(s) /\ r \in Seq(Row) /\ Len(r) = Len(s) - 1
    /\ \A j \in 1..(Len(s) - 1) : r[j] = IF j < k THEN s[j] ELSE s[j + 1]

\* This is what RemoveAt does.
LEMMA RemovesAt ==
    ASSUME NEW s, s \in Seq(Row), NEW k \in 1..Len(s)
    PROVE  Removes(s, k, RemoveAt(s, k))
<1> DEFINE a == SubSeq(s, 1, k - 1)
           b == SubSeq(s, k + 1, Len(s))
           n == Len(s)
           r == a \o b
<1>1. n \in Nat /\ k \in Nat /\ k >= 1 /\ k <= n
  OBVIOUS
<1>2. /\ a \in Seq(Row) /\ Len(a) = k - 1 /\ \A j \in 1..(k - 1) : a[j] = s[1 + j - 1]
  <2>1. 1 \in Nat \ {0} /\ k - 1 \in Nat /\ k - 1 <= Len(s)
    BY <1>1
  <2>2. /\ a \in Seq(Row) /\ Len(a) = IF 1 <= k - 1 THEN k - 1 - 1 + 1 ELSE 0
        /\ \A j \in 1..(k - 1 - 1 + 1) : a[j] = s[1 + j - 1]
    BY <2>1, PartType
  <2> HIDE DEF a
  <2>3. k - 1 - 1 + 1 = k - 1
    BY <1>1
  <2> QED
    BY <1>1, <2>2, <2>3
<1>3. /\ b \in Seq(Row) /\ Len(b) = n - k /\ \A j \in 1..(n - k) : b[j] = s[(k + 1) + j - 1]
  <2>1. k + 1 \in Nat \ {0} /\ n \in Nat /\ n <= Len(s)
    BY <1>1
  <2>2. /\ b \in Seq(Row) /\ Len(b) = IF k + 1 <= n THEN n - (k + 1) + 1 ELSE 0
        /\ \A j \in 1..(n - (k + 1) + 1) : b[j] = s[(k + 1) + j - 1]
    BY <2>1, PartType
  <2> HIDE DEF b, n
  <2>3. n - (k + 1) + 1 = n - k
    BY <1>1
  <2> QED
    BY <1>1, <2>2, <2>3
<1> HIDE DEF a, b, n
<1>4. /\ r \in Seq(Row) /\ Len(r) = Len(a) + Len(b)
      /\ \A j \in 1..Len(a) : r[j] = a[j]
      /\ \A j \in 1..Len(b) : r[Len(a) + j] = b[j]
  <2>1. a \in Seq(Row) /\ b \in Seq(Row)
    BY <1>2, <1>3
  <2> QED
    BY <2>1, TwoLists
<1> HIDE DEF r
<1>5. Len(r) = n - 1
  BY <1>1, <1>2, <1>3, <1>4
<1>6. ASSUME NEW j \in 1..(n - 1) PROVE r[j] = IF j < k THEN s[j] ELSE s[j + 1]
  <2>1. CASE j < k
    <3>1. j \in 1..Len(a) /\ j \in 1..(k - 1) /\ 1 + j - 1 = j
      BY <1>1, <1>2, <2>1
    <3> QED
      BY <1>2, <1>4, <2>1, <3>1
  <2>2. CASE ~(j < k)
    <3> DEFINE m == j - k + 1
    <3>1. m \in 1..Len(b) /\ m \in 1..(n - k) /\ Len(a) + m = j /\ (k + 1) + m - 1 = j + 1
      BY <1>1, <1>2, <1>3, <2>2
    <3> HIDE DEF m
    <3> QED
      BY <1>3, <1>4, <2>2, <3>1
  <2> QED
    BY <2>1, <2>2
<1>7. Removes(s, k, r)
  BY <1>4, <1>5, <1>6 DEF Removes, n
<1>8. RemoveAt(s, k) = r
  BY DEF RemoveAt, r, a, b
<1> QED
  BY <1>7, <1>8

\* There is one way to do so.
LEMMA RemovesOne ==
    ASSUME NEW s, NEW k, NEW r, NEW q, Removes(s, k, r), Removes(s, k, q)
    PROVE  r = q
<1>1. r \in Seq(Row) /\ q \in Seq(Row) /\ Len(r) = Len(q)
  BY DEF Removes
<1>2. \A j \in 1..Len(r) : r[j] = q[j]
  <2> DEFINE n == Len(s) - 1
  <2>1. Len(r) = n /\ (\A j \in 1..n : r[j] = IF j < k THEN s[j] ELSE s[j + 1])
                   /\ \A j \in 1..n : q[j] = IF j < k THEN s[j] ELSE s[j + 1]
    BY DEF Removes
  <2> HIDE DEF n
  <2> QED
    BY <2>1
<1> QED
  BY <1>1, <1>2, SeqEqual

\* Rows behind the list do not matter.
LEMMA RemovesMore ==
    ASSUME NEW s, NEW k, NEW r, NEW t, Removes(s, k, r), t \in Seq(Row)
    PROVE  Removes(s \o t, k, r \o t) /\ (s \o t)[k] = s[k]
<1> DEFINE n == Len(s)
           m == Len(t)
           all == s \o t
           new == r \o t
<1>1. /\ s \in Seq(Row) /\ k \in 1..n /\ r \in Seq(Row) /\ Len(r) = n - 1
      /\ \A j \in 1..(n - 1) : r[j] = IF j < k THEN s[j] ELSE s[j + 1]
  BY DEF Removes
<1>2. /\ all \in Seq(Row) /\ n \in Nat /\ m \in Nat /\ Len(all) = n + m
      /\ \A j \in 1..n : all[j] = s[j]
      /\ \A j \in 1..m : all[n + j] = t[j]
  BY <1>1, TwoLists
<1>3. /\ new \in Seq(Row) /\ Len(new) = (n - 1) + m
      /\ \A j \in 1..(n - 1) : new[j] = r[j]
      /\ \A j \in 1..m : new[(n - 1) + j] = t[j]
  <2>0. r \in Seq(Row) /\ t \in Seq(Row)
    BY <1>1
  <2>1. /\ new \in Seq(Row) /\ Len(new) = Len(r) + m
        /\ \A j \in 1..Len(r) : new[j] = r[j]
        /\ \A j \in 1..m : new[Len(r) + j] = t[j]
    BY <2>0, TwoLists
  <2> HIDE DEF new, m, n
  <2> QED
    BY <1>1, <2>1
<1> HIDE DEF n, m, all, new
<1>4. k \in 1..Len(all) /\ Len(new) = Len(all) - 1
  BY <1>1, <1>2, <1>3
<1>5. ASSUME NEW j \in 1..(Len(all) - 1)
      PROVE  new[j] = IF j < k THEN all[j] ELSE all[j + 1]
  <2>0. j \in Nat /\ j >= 1 /\ j <= n + m - 1 /\ k \in Nat /\ k >= 1 /\ k <= n
    BY <1>1, <1>2
  <2>1. CASE j <= n - 1
    <3>1. j \in 1..(n - 1) /\ j \in 1..n /\ j + 1 \in 1..n
      BY <1>2, <2>0, <2>1
    <3> QED
      BY <1>1, <1>2, <1>3, <3>1
  <2>2. CASE ~(j <= n - 1)
    <3> DEFINE p == j - (n - 1)
    <3>1. p \in 1..m /\ j = (n - 1) + p /\ j + 1 = n + p /\ ~(j < k)
      BY <1>2, <2>0, <2>2
    <3> HIDE DEF p
    <3> QED
      BY <1>2, <1>3, <3>1
  <2> QED
    BY <2>1, <2>2
<1>6. Removes(all, k, new)
  BY <1>2, <1>3, <1>4, <1>5 DEF Removes
<1> QED
  BY <1>1, <1>2, <1>6 DEF all, new

\* Rows before the list shift the place.
LEMMA RemovesBehind ==
    ASSUME NEW s, NEW k, NEW r, NEW t, Removes(s, k, r), t \in Seq(Row)
    PROVE  Removes(t \o s, Len(t) + k, t \o r) /\ (t \o s)[Len(t) + k] = s[k]
<1> DEFINE n == Len(s)
           m == Len(t)
           all == t \o s
           new == t \o r
<1>1. /\ s \in Seq(Row) /\ k \in 1..n /\ r \in Seq(Row) /\ Len(r) = n - 1
      /\ \A j \in 1..(n - 1) : r[j] = IF j < k THEN s[j] ELSE s[j + 1]
  BY DEF Removes
<1>2. /\ all \in Seq(Row) /\ n \in Nat /\ m \in Nat /\ Len(all) = m + n
      /\ \A j \in 1..m : all[j] = t[j]
      /\ \A j \in 1..n : all[m + j] = s[j]
  BY <1>1, TwoLists
<1>3. /\ new \in Seq(Row) /\ Len(new) = m + (n - 1)
      /\ \A j \in 1..m : new[j] = t[j]
      /\ \A j \in 1..(n - 1) : new[m + j] = r[j]
  <2>0. r \in Seq(Row) /\ t \in Seq(Row)
    BY <1>1
  <2>1. /\ new \in Seq(Row) /\ Len(new) = m + Len(r)
        /\ \A j \in 1..m : new[j] = t[j]
        /\ \A j \in 1..Len(r) : new[m + j] = r[j]
    BY <2>0, TwoLists
  <2> HIDE DEF new, m, n
  <2> QED
    BY <1>1, <2>1
<1> HIDE DEF n, m, all, new
<1>4. m + k \in 1..Len(all) /\ Len(new) = Len(all) - 1
  BY <1>1, <1>2, <1>3
<1>5. ASSUME NEW j \in 1..(Len(all) - 1)
      PROVE  new[j] = IF j < m + k THEN all[j] ELSE all[j + 1]
  <2>0. j \in Nat /\ j >= 1 /\ j <= n + m - 1 /\ k \in Nat /\ k >= 1 /\ k <= n
    BY <1>1, <1>2
  <2>1. CASE j <= m
    <3>1. j \in 1..m /\ j < m + k
      BY <1>2, <2>0, <2>1
    <3> QED
      BY <1>2, <1>3, <3>1
  <2>2. CASE ~(j <= m)
    <3> DEFINE p == j - m
    <3>1. p \in 1..(n - 1) /\ p \in 1..n /\ p + 1 \in 1..n /\ j = m + p /\ j + 1 = m + (p + 1)
          /\ (j < m + k <=> p < k)
      BY <1>2, <2>0, <2>2
    <3> HIDE DEF p
    <3>2. new[j] = r[p] /\ all[j] = s[p] /\ all[j + 1] = s[p + 1]
      BY <1>2, <1>3, <3>1
    <3>3. r[p] = IF p < k THEN s[p] ELSE s[p + 1]
      BY <1>1, <3>1
    <3> QED
      BY <3>1, <3>2, <3>3
  <2> QED
    BY <2>1, <2>2
<1>6. Removes(all, m + k, new)
  BY <1>2, <1>3, <1>4, <1>5 DEF Removes
<1> QED
  BY <1>1, <1>2, <1>6 DEF all, new, m

\* The rest still ascends.
LEMMA RemovesAscends ==
    ASSUME NEW s, NEW k, NEW r, NEW key, Removes(s, k, r), Ascending(s), UpTo(s, key)
    PROVE  Ascending(r) /\ UpTo(r, key) /\ \A j \in 1..Len(s) : j # k => s[j] # s[k]
<1> DEFINE n == Len(s)
           at(j) == IF j < k THEN j ELSE j + 1
<1>1. s \in Seq(Row) /\ k \in 1..n /\ r \in Seq(Row) /\ Len(r) = n - 1
  BY DEF Removes
<1>2. n \in Nat
  BY <1>1
<1>3. \A j \in 1..n : s[j] \in Int
  BY <1>1, BoundsNat DEF Row
<1>4. \A j \in 1..(n - 1) : r[j] = s[at(j)]
  BY DEF Removes
<1>5. /\ \A p, q \in 1..n : p < q => s[p] < s[q]
      /\ \A p \in 1..n : s[p] <= key
  BY DEF Ascending, UpTo
<1> HIDE DEF n
<1>6. /\ \A j \in 1..(n - 1) : at(j) \in 1..n
      /\ \A p, q \in 1..(n - 1) : p < q => at(p) < at(q)
  BY <1>1, <1>2
<1> HIDE DEF at
<1>7. ASSUME NEW p \in 1..Len(r), NEW q \in 1..Len(r), p < q PROVE r[p] < r[q]
  <2>1. p \in 1..(n - 1) /\ q \in 1..(n - 1)
    BY <1>1
  <2>2. s[at(p)] < s[at(q)]
    BY <1>5, <1>6, <1>7, <2>1
  <2> QED
    BY <1>4, <2>1, <2>2
<1>8. ASSUME NEW p \in 1..Len(r) PROVE r[p] <= key
  <2>1. p \in 1..(n - 1)
    BY <1>1
  <2> QED
    BY <1>4, <1>5, <1>6, <2>1
<1>9. ASSUME NEW j \in 1..n, j # k PROVE s[j] # s[k]
  <2>1. j < k \/ k < j
    BY <1>1, <1>2, <1>9
  <2>2. s[j] < s[k] \/ s[k] < s[j]
    BY <1>1, <1>5, <2>1
  <2>3. s[j] \in Int /\ s[k] \in Int
    BY <1>1, <1>3
  <2> QED
    BY <2>2, <2>3
<1> QED
  BY <1>7, <1>8, <1>9 DEF Ascending, UpTo, n

\* erase(), as a function of the iterator and the pages.
ErasedIter(i, pages) ==
    IF OnePageDeleted(Removed(i)) THEN NextPageLoad(Removed(i), pages) ELSE Removed(i)

\* A row leaves the list and the cursor stands on the next one.
LEMMA RemovedType ==
    ASSUME NEW i, NEW pages, Loads(i, pages), ~AtEnd(i)
    PROVE  /\ Loads(Removed(i), pages)
           /\ Removed(i).cur = i.cur /\ Removed(i).read = i.read /\ Removed(i).page = i.page
           /\ Removed(i).loaded = i.loaded /\ Removed(i).cnt = i.cnt
           /\ Removed(i).deleted = i.deleted + 1
           /\ Removes(i.rows, i.cur, Removed(i).rows)
           /\ Removes(AheadOf(i, pages), i.cur, AheadOf(Removed(i), pages))
           /\ AheadOf(i, pages)[i.cur] = i.rows[i.cur]
<1> DEFINE r == RemoveAt(i.rows, i.cur)
           e == Removed(i)
           later == Rows(pages, i.loaded + 1, i.cnt)
<1>1. i \in Iter /\ Shape(i) /\ i.rows \in Seq(Row) /\ i.cur \in Nat \ {0} /\ i.deleted \in Nat
      /\ Len(i.rows) \in Nat /\ later \in Seq(Row)
  <2>1. i \in Iter /\ Shape(i)
    BY DEF Loads
  <2> QED
    BY <2>1, AheadType, IterNumbers
<1>2. i.cur \in 1..Len(i.rows)
  BY <1>1 DEF AtEnd
<1>3. Removes(i.rows, i.cur, r)
  BY <1>1, <1>2, RemovesAt
<1> HIDE DEF r
<1>4. r \in Seq(Row) /\ Len(r) = Len(i.rows) - 1
  BY <1>3 DEF Removes
<1>5. e = [i EXCEPT !.rows = r, !.deleted = i.deleted + 1]
  BY DEF Removed, r
<1>6. /\ e.rows = r /\ e.cur = i.cur /\ e.read = i.read /\ e.page = i.page
      /\ e.loaded = i.loaded /\ e.cnt = i.cnt /\ e.deleted = i.deleted + 1
  BY <1>1, <1>5 DEF Iter
<1>7. e \in Iter
  <2>1. i.deleted + 1 \in Nat
    BY <1>1
  <2> QED
    BY <1>1, <1>4, <1>5, <2>1 DEF Iter
<1> HIDE DEF e
<1>8. Shape(e)
  <2>1. i.cur <= Len(r) + 1
    BY <1>1, <1>2, <1>4
  <2> QED
    BY <1>1, <1>6, <2>1 DEF Shape
<1>9. Loads(e, pages)
  BY <1>6, <1>7, <1>8 DEF Loads
<1>10. AheadOf(e, pages) = r \o later /\ AheadOf(i, pages) = i.rows \o later
  BY <1>6 DEF AheadOf
<1>11. Removes(i.rows \o later, i.cur, r \o later) /\ (i.rows \o later)[i.cur] = i.rows[i.cur]
  <2> DEFINE s == i.rows
             k == i.cur
  <2>1. later \in Seq(Row) /\ Removes(s, k, r)
    BY <1>1, <1>3
  <2> HIDE DEF later, s, k
  <2>2. Removes(s \o later, k, r \o later) /\ (s \o later)[k] = s[k]
    BY <2>1, RemovesMore
  <2> QED
    BY <2>2 DEF s, k
<1> HIDE DEF later
<1> QED
  BY <1>3, <1>6, <1>9, <1>10, <1>11 DEF e

\* erase() gives an iterator again.
LEMMA EraseType ==
    ASSUME NEW i, NEW pages, Loads(i, pages), ~AtEnd(i)
    PROVE  /\ Loads(ErasedIter(i, pages), pages)
           /\ ErasedIter(i, pages).deleted = i.deleted + 1
           /\ ErasedIter(i, pages).cnt = i.cnt /\ ErasedIter(i, pages).page = i.page
           /\ ErasedIter(i, pages).read = i.read
<1> DEFINE e == Removed(i)
<1>1. /\ Loads(e, pages) /\ e.deleted = i.deleted + 1 /\ e.cnt = i.cnt /\ e.page = i.page
      /\ e.read = i.read
  BY RemovedType
<1>2. ErasedIter(i, pages) = NextPageLoad(e, pages) \/ ErasedIter(i, pages) = e
  BY DEF ErasedIter
<1> HIDE DEF e
<1>3. /\ Loads(NextPageLoad(e, pages), pages)
      /\ NextPageLoad(e, pages).deleted = e.deleted /\ NextPageLoad(e, pages).cnt = e.cnt
      /\ NextPageLoad(e, pages).page = e.page /\ NextPageLoad(e, pages).read = e.read
  BY <1>1, LoadType
<1> QED
  BY <1>1, <1>2, <1>3

\* When a whole page of rows has been deleted the next page is in the list.
LEMMA EraseKeeps ==
    ASSUME NEW i, NEW pages, NEW rows, NEW win \in Nat \ {0, 1},
           Walks(i, pages, rows, 0, win), ~AtEnd(i)
    PROVE  LET e == Removed(i)
               n == ErasedIter(i, pages) IN
           /\ n.cur = i.cur /\ AheadOf(n, pages) = AheadOf(e, pages)
           /\ n.loaded = IF OnePageDeleted(e) /\ i.loaded # i.cnt THEN i.loaded + 1 ELSE i.loaded
<1> DEFINE e == Removed(i)
           n == ErasedIter(i, pages)
<1>1. i \in Iter /\ Loads(i, pages) /\ i.cur <= RowsLimit
  BY DEF Walks, Loads, Cursor
<1>2. /\ Loads(e, pages) /\ e.cur = i.cur /\ e.loaded = i.loaded /\ e.cnt = i.cnt
      /\ Removes(i.rows, i.cur, e.rows)
  BY <1>1, RemovedType
<1>3. AtEnd(e) => e.loaded = e.cnt
  <2>1. SUFFICES ASSUME e.loaded # e.cnt PROVE ~AtEnd(e)
    OBVIOUS
  <2>2. i.loaded < i.cnt
    <3>1. i.loaded \in Nat /\ i.cnt \in Nat /\ i.loaded <= i.cnt
      BY <1>1, IterNumbers DEF Loads, Shape
    <3> QED
      BY <1>2, <2>1, <3>1
  <2>3. Len(i.rows) > RowsLimit
    BY <2>2, MoreThanAPage
  <2>4. Len(e.rows) = Len(i.rows) - 1 /\ Len(i.rows) \in Nat
    <3>1. i.rows \in Seq(Row) /\ Len(e.rows) = Len(i.rows) - 1
      BY <1>2 DEF Removes
    <3> QED
      BY <3>1
  <2> DEFINE le == Len(e.rows)
             li == Len(i.rows)
  <2>5. i.cur \in Nat
    BY <1>1, IterNumbers
  <2> HIDE DEF le, li
  <2>6. i.cur <= le
    <3>1. le = li - 1 /\ li \in Nat /\ li > RowsLimit /\ i.cur <= RowsLimit /\ RowsLimit \in Nat
      BY <1>1, <2>3, <2>4, RowsLimitPositive DEF le, li
    <3> QED
      BY <2>5, <3>1
  <2>7. le \in Int
    BY <2>4 DEF le
  <2> QED
    BY <1>2, <2>5, <2>6, <2>7 DEF AtEnd, le
<1>4. CASE OnePageDeleted(e)
  <2>1. n = NextPageLoad(e, pages)
    BY <1>4 DEF ErasedIter
  <2> HIDE DEF e, n
  <2>2. /\ NextPageLoad(e, pages).cur = e.cur
        /\ NextPageLoad(e, pages).loaded = IF e.loaded = e.cnt THEN e.loaded ELSE e.loaded + 1
        /\ AheadOf(NextPageLoad(e, pages), pages) = AheadOf(e, pages)
    BY <1>2, <1>3, LoadKeeps
  <2>3. /\ n.cur = i.cur /\ AheadOf(n, pages) = AheadOf(e, pages)
        /\ n.loaded = IF i.loaded # i.cnt THEN i.loaded + 1 ELSE i.loaded
    BY <1>2, <2>1, <2>2
  <2> QED
    BY <1>4, <2>3 DEF e, n
<1>5. CASE ~OnePageDeleted(e)
  <2>1. n = e
    BY <1>5 DEF ErasedIter
  <2> HIDE DEF e, n
  <2>3. /\ n.cur = i.cur /\ AheadOf(n, pages) = AheadOf(e, pages)
        /\ n.loaded = i.loaded
    BY <1>2, <2>1
  <2> QED
    BY <1>5, <2>3 DEF e, n
<1> QED
  BY <1>4, <1>5

\* Deletions bring pages in as fast as they empty the list.
LEMMA DeletedApart ==
    ASSUME NEW m \in Int, NEW l \in Int, NEW d \in Nat, RowsBefore(m) + d < RowsBefore(l)
    PROVE  /\ (d + 1) % RowsLimit # 0 => RowsBefore(m) + (d + 1) < RowsBefore(l)
           /\ RowsBefore(m) + (d + 1) < RowsBefore(l + 1)
<1> DEFINE bm == RowsBefore(m)
           bl == RowsBefore(l)
<1>1. bm \in Int /\ bl \in Int /\ RowsBefore(l + 1) = bl + RowsLimit
  BY RowsBeforeInt, RowsBeforeNext
<1>2. m <= l
  <2>1. SUFFICES ASSUME l <= m PROVE FALSE
    OBVIOUS
  <2>2. bl <= bm
    BY <2>1, RowsBeforeOrder
  <2> HIDE DEF bl, bm
  <2>3. bm + d < bl
    BY DEF bl, bm
  <2> QED
    BY <1>1, <2>2, <2>3
<1>3. (bl - bm) % RowsLimit = 0
  BY <1>2, PagesApart
<1>4. bm + d < bl
  OBVIOUS
<1> HIDE DEF bl, bm
<1>5. (d + 1) % RowsLimit # 0 => bl - bm # d + 1
  BY <1>3
<1>6. (d + 1) % RowsLimit # 0 => bm + (d + 1) < bl
  BY <1>1, <1>4, <1>5
<1>7. bm + (d + 1) < bl + RowsLimit
  BY <1>1, <1>4, RowsLimitPositive
<1> QED
  BY <1>1, <1>6, <1>7 DEF bl, bm

\* erase() passes a row as next() does.
LEMMA EraseWalks ==
    ASSUME NEW i, NEW pages, NEW rows, NEW win \in Nat \ {0, 1},
           Walks(i, pages, rows, 0, win), ~AtEnd(i)
    PROVE  /\ Walks(ErasedIter(i, pages), pages, rows, 0, win)
           /\ Passed(ErasedIter(i, pages)) = Passed(i) + 1
<1> DEFINE e == Removed(i)
           n == ErasedIter(i, pages)
           ahead == AheadOf(i, pages)
           left  == AheadOf(n, pages)
           lb == Len(rows)
           pd == Passed(i)
<1>0. i \in Iter /\ Loads(i, pages) /\ Cursor(i, pages, rows, 0, win)
  BY DEF Walks, Loads
<1>1. /\ i.cur \in Nat \ {0} /\ i.read \in Nat /\ i.deleted \in Nat /\ i.loaded \in Nat
      /\ i.page \in Nat \ {0} /\ i.cnt \in Nat /\ RowsBefore(i.page) \in Int /\ pd \in Nat
  BY <1>0, IterNumbers
<1>2. lb \in Nat /\ rows \in Seq(Row)
  <2>1. rows \in Seq(Row)
    BY DEF Walks
  <2> QED
    BY <2>1
<1>3. /\ Loads(n, pages) /\ n.deleted = i.deleted + 1 /\ n.cnt = i.cnt /\ n.page = i.page
      /\ n.read = i.read
  BY <1>0, EraseType
<1>4. /\ n.cur = i.cur /\ left = AheadOf(e, pages)
      /\ n.loaded = IF OnePageDeleted(e) /\ i.loaded # i.cnt THEN i.loaded + 1 ELSE i.loaded
  BY EraseKeeps
<1>5. e.deleted = i.deleted + 1 /\ Removes(ahead, i.cur, AheadOf(e, pages))
  BY <1>0, RemovedType
<1>6. Removes(ahead, i.cur, left)
  <2> HIDE DEF ahead, left
  <2> QED
    BY <1>4, <1>5
<1> HIDE DEF e, n, ahead, left
<1>7. Passed(n) = pd + 1
  BY <1>1, <1>3 DEF Passed
<1>8. pd < lb
  BY CursorOnRow
<1>9. /\ i.cur <= RowsLimit /\ i.read = RowsBefore(i.page) + i.cur - 1
      /\ Len(ahead) = lb - pd + i.cur - 1
      /\ \A j \in 1..(lb - pd) : ahead[i.cur - 1 + j] = rows[pd + j]
      /\ lb <= RowsBefore(i.cnt + 1)
      /\ i.loaded < i.cnt =>
           RowsBefore(win + i.page - 1) + i.deleted < RowsBefore(i.loaded + 1)
      /\ \A k \in i.loaded..(i.cnt - 1) :
           RowsBefore(k + 1) <= lb - Len(Rows(pages, k + 1, i.cnt)) + 0
  BY <1>0 DEF Cursor, ahead
<1> HIDE DEF lb, pd
<1>10. Len(left) = lb - (pd + 1) + n.cur - 1
  <2>1. Len(left) = Len(ahead) - 1
    BY <1>6 DEF Removes
  <2>2. Len(left) = (lb - pd + i.cur - 1) - 1
    BY <1>9, <2>1
  <2> QED
    BY <1>1, <1>2, <1>4, <2>2
<1>11. ASSUME NEW j \in 1..(lb - (pd + 1)) PROVE left[n.cur - 1 + j] = rows[(pd + 1) + j]
  <2> DEFINE c == i.cur
             at == c - 1 + j
  <2>1. j + 1 \in 1..(lb - pd) /\ j \in Nat /\ j >= 1
    BY <1>1, <1>2
  <2>2. ahead[c - 1 + (j + 1)] = rows[pd + (j + 1)]
    BY <1>9, <2>1
  <2>3. Len(ahead) - 1 = lb - (pd + 1) + c - 1
    BY <1>1, <1>2, <1>9, SMTT(30)
  <2>4. at \in 1..(Len(ahead) - 1) /\ ~(at < c) /\ at + 1 = c - 1 + (j + 1)
        /\ pd + (j + 1) = (pd + 1) + j
    <3>1. c \in Nat /\ c >= 1
      BY <1>1
    <3> HIDE DEF c
    <3> QED
      BY <1>1, <1>2, <2>1, <2>3, <3>1
  <2> HIDE DEF at, c
  <2>5. left[at] = ahead[at + 1]
    BY <1>6, <2>4 DEF Removes, c
  <2>6. n.cur - 1 + j = at
    BY <1>4 DEF at, c
  <2> QED
    BY <2>2, <2>4, <2>5, <2>6
<1>12. ASSUME n.loaded < n.cnt
       PROVE  RowsBefore(win + n.page - 1) + n.deleted < RowsBefore(n.loaded + 1)
  <2> DEFINE m == win + i.page - 1
             l == i.loaded + 1
             d == i.deleted
  <2>1. i.loaded < i.cnt
    BY <1>1, <1>3, <1>4, <1>12
  <2>2. RowsBefore(m) + d < RowsBefore(l)
    BY <1>9, <2>1
  <2>3. m \in Int /\ l \in Int /\ d \in Nat
    BY <1>1
  <2>4. win + n.page - 1 = m /\ n.deleted = d + 1
        /\ (OnePageDeleted(e) <=> (d + 1) % RowsLimit = 0)
        /\ n.loaded = IF OnePageDeleted(e) THEN l ELSE i.loaded
    BY <1>3, <1>4, <1>5, <2>1, <1>1 DEF OnePageDeleted
  <2> HIDE DEF m, l, d
  <2>5. /\ (d + 1) % RowsLimit # 0 => RowsBefore(m) + (d + 1) < RowsBefore(l)
        /\ RowsBefore(m) + (d + 1) < RowsBefore(l + 1)
    BY <2>2, <2>3, DeletedApart
  <2> QED
    BY <2>4, <2>5 DEF l
<1>13. ASSUME NEW k \in n.loaded..(n.cnt - 1)
       PROVE  RowsBefore(k + 1) <= lb - Len(Rows(pages, k + 1, n.cnt)) + 0
  <2>1. k \in i.loaded..(i.cnt - 1)
    BY <1>1, <1>3, <1>4
  <2> QED
    BY <1>3, <1>9, <2>1
<1>14. /\ n.cur <= RowsLimit /\ pd + 1 <= lb
       /\ n.read = RowsBefore(n.page) + n.cur - 1 /\ lb <= RowsBefore(n.cnt + 1)
  <2>1. pd + 1 <= lb
    BY <1>1, <1>2, <1>8
  <2> QED
    BY <1>3, <1>4, <1>9, <2>1
<1>15. Cursor(n, pages, rows, 0, win)
  BY <1>7, <1>10, <1>11, <1>12, <1>13, <1>14 DEF Cursor, lb, left
<1>16. 0 \in Nat /\ 0 < RowsBefore(win)
  BY DEF Walks
<1> QED
  BY <1>2, <1>3, <1>7, <1>15, <1>16 DEF Walks, n, pd

\* erase() takes one row from the table, the one under the cursor.
LEMMA EraseWhole ==
    ASSUME NEW i, NEW pages, NEW rows, NEW gone, NEW pk, NEW win \in Nat \ {0, 1},
           Walks(i, pages, rows, 0, win), ~AtEnd(i),
           Whole(i, pages, Without(rows, gone), pk)
    PROVE  Whole(ErasedIter(i, pages), pages, Without(rows, gone \cup {i.rows[i.cur]}), pk)
<1> DEFINE n == ErasedIter(i, pages)
           x == i.rows[i.cur]
           all == Without(rows, gone)
           new == Without(rows, gone \cup {x})
           behind == Rows(pages, 1, i.page - 1)
           ahead  == AheadOf(i, pages)
           left   == AheadOf(n, pages)
           c == i.cur
           q == Len(behind) + c
<1>0. i \in Iter /\ Loads(i, pages) /\ rows \in Seq(Row)
  BY DEF Walks, Loads
<1>1. n.cnt = i.cnt /\ n.page = i.page
  BY <1>0, EraseType
<1>2. Removes(ahead, c, left) /\ ahead[c] = x
  <2>1. Removes(ahead, c, AheadOf(Removed(i), pages)) /\ ahead[c] = x
    BY <1>0, RemovedType
  <2>2. left = AheadOf(Removed(i), pages)
    BY EraseKeeps
  <2> HIDE DEF ahead, left
  <2> QED
    BY <2>1, <2>2
<1>3. behind \in Seq(Row)
  <2>1. i.page - 1 \in Int /\ i.page - 1 <= i.cnt
    <3>1. i.page \in Nat /\ i.cnt \in Nat
      BY <1>0, IterNumbers
    <3>2. i.page <= i.cnt
      BY CursorOnRow
    <3> QED
      BY <3>1, <3>2
  <2> QED
    BY <1>0, <2>1, WalkedPages
<1>4. all \in Seq(Row) /\ Ascending(all) /\ UpTo(all, pk) /\ behind \o ahead = all
  BY DEF Whole
<1> HIDE DEF behind, ahead, left, all, n, c
<1>5. Removes(behind \o ahead, q, behind \o left) /\ (behind \o ahead)[q] = ahead[c]
  <2>1. behind \in Seq(Row) /\ Removes(ahead, c, left)
    BY <1>2, <1>3
  <2>2. /\ Removes(behind \o ahead, Len(behind) + c, behind \o left)
        /\ (behind \o ahead)[Len(behind) + c] = ahead[c]
    BY <2>1, RemovesBehind
  <2> QED
    BY <2>2
<1>6. Removes(all, q, behind \o left) /\ all[q] = x
  BY <1>2, <1>4, <1>5
<1> HIDE DEF q, x
<1>7. /\ Ascending(behind \o left) /\ UpTo(behind \o left, pk)
      /\ \A j \in 1..Len(all) : j # q => all[j] # all[q]
  BY <1>4, <1>6, RemovesAscends
<1>8. q \in 1..Len(all) /\ behind \o left \in Seq(Row)
  BY <1>6 DEF Removes
<1>9. behind \o left = RemoveAt(all, q)
  <2>1. Removes(all, q, RemoveAt(all, q))
    BY <1>4, <1>8, RemovesAt
  <2> QED
    BY <1>6, <2>1, RemovesOne
<1>10. RemoveAt(all, q) = Without(all, {x})
  <2>1. Without(all, {all[q]}) = RemoveAt(all, q)
    BY <1>4, <1>7, <1>8, WithoutOne
  <2> QED
    BY <1>6, <2>1
<1>11. Without(all, {x}) = new
  BY <1>0, WithoutTwice DEF all
<1> HIDE DEF new
<1>12. behind \o left = new
  BY <1>9, <1>10, <1>11
<1>13. /\ \A k \in 0..(n.page - 1) : Len(Rows(pages, 1, k)) = RowsBefore(k + 1)
       /\ DOMAIN pages = 1..n.cnt
  BY <1>1 DEF Whole
<1>14. Whole(n, pages, new, pk)
  <2>1. new \in Seq(Row) /\ Ascending(new) /\ UpTo(new, pk)
    BY <1>7, <1>8, <1>12
  <2>2. Rows(pages, 1, n.page - 1) \o AheadOf(n, pages) = new
    BY <1>1, <1>12 DEF behind, left
  <2> QED
    BY <1>13, <2>1, <2>2 DEF Whole
<1> QED
  BY <1>14 DEF n, new, x

-----------------------------------------------------------------------------
(* A page that cannot be read: next_page_load throws, and the iterator is   *)
(* left as it was before, one page further behind than it would be.        *)

\* next() and erase() without their last step.
UnreadIter(i) == Uploaded(Stepped(i))
UnreadPages(i, pages) == UploadedPages(Stepped(i), pages)

\* There is always something read ahead.
LEMMA SomethingAhead == \A win \in Nat \ {0, 1} : 0 < RowsBefore(win)
<1> SUFFICES ASSUME NEW win \in Nat \ {0, 1} PROVE 0 < RowsBefore(win)
  OBVIOUS
<1>1. RowsLimit \in Nat \ {0} /\ win - 1 \in Nat \ {0}
  BY RowsLimitPositive
<1>2. \A x, y \in Nat \ {0} : 0 < x * y
  OBVIOUS
<1> QED
  BY <1>1, <1>2 DEF RowsBefore

\* An iterator that walks when the page is loaded walks without it, too, one
\* page further behind.
LEMMA UnloadedWalks ==
    ASSUME NEW u, NEW ps, NEW rows, NEW win \in Nat \ {0, 1, 2}, Loads(u, ps),
           Walks(NextPageLoad(u, ps), ps, rows, 0, win), AtEnd(u) => u.loaded = u.cnt,
           u.loaded < u.cnt,
           RowsBefore(win - 1 + u.page - 1) + u.deleted < RowsBefore(u.loaded + 1),
           RowsBefore(u.loaded + 1) <= Len(rows) - Len(Rows(ps, u.loaded + 1, u.cnt)) + 0
    PROVE  Walks(u, ps, rows, 0, win - 1) /\ Passed(u) = Passed(NextPageLoad(u, ps))
<1> DEFINE n == NextPageLoad(u, ps)
<1>1. /\ n.page = u.page /\ n.read = u.read /\ n.deleted = u.deleted /\ n.cnt = u.cnt
      /\ Loads(n, ps)
  BY LoadType
<1>2. /\ n.cur = u.cur /\ n.loaded = u.loaded + 1 /\ AheadOf(n, ps) = AheadOf(u, ps)
  <2>1. u.loaded # u.cnt
    <3>1. u \in Iter
      BY DEF Loads
    <3>2. u.loaded \in Nat /\ u.cnt \in Nat
      BY <3>1, IterNumbers
    <3> HIDE DEF n
    <3> QED
      BY <3>2
  <2> QED
    BY <2>1, LoadKeeps
<1>3. Cursor(n, ps, rows, 0, win) /\ rows \in Seq(Row)
  BY DEF Walks
<1>4. u.loaded \in Nat /\ u.cnt \in Nat
  <2>1. u \in Iter
    BY DEF Loads
  <2> QED
    BY <2>1, IterNumbers
<1> HIDE DEF n
<1>5. Passed(u) = Passed(n)
  BY <1>1 DEF Passed
<1>6. ASSUME NEW k \in u.loaded..(u.cnt - 1)
      PROVE  RowsBefore(k + 1) <= Len(rows) - Len(Rows(ps, k + 1, u.cnt)) + 0
  <2>1. CASE k = u.loaded
    BY <2>1
  <2>2. CASE k # u.loaded
    <3>1. k \in n.loaded..(n.cnt - 1)
      BY <1>1, <1>2, <1>4, <2>2
    <3> QED
      BY <3>1, <1>1, <1>3 DEF Cursor
  <2> QED
    BY <2>1, <2>2
<1>7. Cursor(u, ps, rows, 0, win - 1)
  <2>1. /\ u.cur <= RowsLimit /\ u.read = RowsBefore(u.page) + u.cur - 1
        /\ Passed(u) <= Len(rows) /\ Len(rows) <= RowsBefore(u.cnt + 1)
    BY <1>1, <1>2, <1>3, <1>5 DEF Cursor
  <2>2. /\ Len(AheadOf(u, ps)) = Len(rows) - Passed(u) + u.cur - 1
        /\ \A j \in 1..(Len(rows) - Passed(u)) :
               AheadOf(u, ps)[u.cur - 1 + j] = rows[Passed(u) + j]
    BY <1>2, <1>3, <1>5, Zenon DEF Cursor
  <2> QED
    BY <1>6, <2>1, <2>2 DEF Cursor
<1>8. 0 < RowsBefore(win - 1) /\ 0 \in Nat
  <2>1. win - 1 \in Nat \ {0, 1}
    OBVIOUS
  <2> QED
    BY <2>1, SomethingAhead
<1> QED
  BY <1>3, <1>5, <1>7, <1>8 DEF Walks, n

\* Without loading it is the same table.
LEMMA UnloadedWhole ==
    ASSUME NEW u, NEW ps, NEW left, NEW pk, Loads(u, ps), AtEnd(u) => u.loaded = u.cnt,
           Whole(NextPageLoad(u, ps), ps, left, pk)
    PROVE  Whole(u, ps, left, pk)
<1> DEFINE n == NextPageLoad(u, ps)
<1>1. n.page = u.page /\ n.cnt = u.cnt
  BY LoadType
<1>2. AheadOf(n, ps) = AheadOf(u, ps)
  BY LoadKeeps
<1> HIDE DEF n
<1> QED
  BY <1>1, <1>2 DEF Whole, n

\* A window one page smaller, a row on or not.
LEMMA WindowShrinks ==
    ASSUME NEW m \in Int, NEW d \in Nat, NEW b \in Int, RowsBefore(m) + d < b
    PROVE  RowsBefore(m - 1) + d < b /\ RowsBefore(m - 1) + (d + 1) < b
<1>1. RowsBefore(m) = RowsBefore(m - 1) + RowsLimit
  <2>1. m - 1 \in Int /\ (m - 1) + 1 = m
    OBVIOUS
  <2> QED
    BY <2>1, RowsBeforeNext
<1>2. RowsBefore(m - 1) \in Int
  <2>1. m - 1 \in Int
    OBVIOUS
  <2> QED
    BY <2>1, RowsBeforeInt
<1> QED
  BY <1>1, <1>2, RowsLimitPositive

\* next() whose page cannot be read: the rows of the page left are written.
LEMMA UnreadWalks ==
    ASSUME NEW i, NEW pages, NEW rows, NEW left, NEW pk, NEW win \in Nat \ {0, 1, 2},
           Walks(i, pages, rows, 0, win), ~AtEnd(i), i.loaded < i.cnt, OnePageRead(Stepped(i)),
           Whole(i, pages, left, pk), i.deleted = 0 => left = rows /\ Untouched(i, pages, rows)
    PROVE  LET n == UnreadIter(i)
               ps == UnreadPages(i, pages) IN
           /\ Walks(n, ps, rows, 0, win - 1) /\ Whole(n, ps, left, pk)
           /\ Passed(n) = Passed(i) + 1 /\ Loads(n, ps)
           /\ n.page = i.page + 1 /\ n.deleted = i.deleted /\ n.cnt = i.cnt
<1> DEFINE u == UnreadIter(i)
           ps == UnreadPages(i, pages)
           n  == NextPageLoad(u, ps)
<1>0. win \in Nat \ {0, 1} /\ i \in Iter /\ Cursor(i, pages, rows, 0, win)
  BY DEF Walks, Loads
<1>1. i.cur = RowsLimit
  BY <1>0, SteppedPageRead
<1>2. Walks(n, ps, rows, 0, win) /\ Passed(n) = Passed(i) + 1
  BY <1>0, <1>1, PageOver DEF UnreadIter, UnreadPages
<1>3. /\ Loads(u, ps) /\ (AtEnd(u) => u.loaded = u.cnt)
      /\ u.page = i.page + 1 /\ u.deleted = i.deleted /\ u.loaded = i.loaded /\ u.cnt = i.cnt
      /\ \A a \in Nat : i.page < a => Rows(ps, a, i.cnt) = Rows(pages, a, i.cnt)
  BY <1>0, <1>1, PageOut DEF UnreadIter, UnreadPages
<1>4. Whole(n, ps, left, pk)
  BY <1>0, <1>1, PageOverWhole DEF UnreadIter, UnreadPages
<1> HIDE DEF u, ps
<1>5. i.loaded \in Nat /\ i.page \in Nat \ {0} /\ i.page <= i.loaded /\ i.cnt \in Nat
  <2>1. i.page <= i.loaded
    BY <1>0, CursorOnRow
  <2> QED
    BY <1>0, <2>1, IterNumbers
<1>6. RowsBefore(win - 1 + u.page - 1) + u.deleted < RowsBefore(u.loaded + 1)
  <2>1. RowsBefore(win + i.page - 1) + i.deleted < RowsBefore(i.loaded + 1)
    BY <1>0 DEF Cursor
  <2>2. win - 1 + u.page - 1 = win + i.page - 1
    BY <1>3, <1>5
  <2> QED
    BY <1>3, <2>1, <2>2
<1>7. RowsBefore(u.loaded + 1) <= Len(rows) - Len(Rows(ps, u.loaded + 1, u.cnt)) + 0
  <2>1. i.loaded \in i.loaded..(i.cnt - 1) /\ i.loaded + 1 \in Nat /\ i.page < i.loaded + 1
    BY <1>5
  <2>2. RowsBefore(i.loaded + 1) <= Len(rows) - Len(Rows(pages, i.loaded + 1, i.cnt)) + 0
    BY <1>0, <2>1 DEF Cursor
  <2>3. Rows(ps, i.loaded + 1, i.cnt) = Rows(pages, i.loaded + 1, i.cnt)
    BY <1>3, <2>1
  <2> QED
    BY <1>3, <2>2, <2>3
<1>8. Walks(u, ps, rows, 0, win - 1) /\ Passed(u) = Passed(i) + 1
  <2>1. u.loaded < u.cnt
    BY <1>3
  <2> QED
    BY <1>2, <1>3, <1>6, <1>7, <2>1, UnloadedWalks
<1>9. Whole(u, ps, left, pk)
  BY <1>3, <1>4, UnloadedWhole
<1> QED
  BY <1>3, <1>8, <1>9 DEF u, ps

\* erase() whose page cannot be read.
LEMMA EraseUnreadWalks ==
    ASSUME NEW i, NEW pages, NEW rows, NEW gone, NEW pk, NEW win \in Nat \ {0, 1, 2},
           Walks(i, pages, rows, 0, win), ~AtEnd(i), i.loaded < i.cnt, OnePageDeleted(Removed(i)),
           Whole(i, pages, Without(rows, gone), pk)
    PROVE  LET n == Removed(i) IN
           /\ Walks(n, pages, rows, 0, win - 1) /\ Passed(n) = Passed(i) + 1
           /\ Whole(n, pages, Without(rows, gone \cup {i.rows[i.cur]}), pk)
           /\ Loads(n, pages)
           /\ n.page = i.page /\ n.deleted = i.deleted + 1 /\ n.cnt = i.cnt
<1> DEFINE u == Removed(i)
           n == NextPageLoad(u, pages)
           new == Without(rows, gone \cup {i.rows[i.cur]})
<1>0. win \in Nat \ {0, 1} /\ i \in Iter /\ Loads(i, pages) /\ Cursor(i, pages, rows, 0, win)
      /\ rows \in Seq(Row)
  BY DEF Walks, Loads
<1>1. ErasedIter(i, pages) = n
  BY DEF ErasedIter
<1>2. Walks(n, pages, rows, 0, win) /\ Passed(n) = Passed(i) + 1
  BY <1>0, <1>1, EraseWalks
<1>3. Whole(n, pages, new, pk)
  BY <1>0, <1>1, EraseWhole
<1>4. /\ Loads(u, pages) /\ u.page = i.page /\ u.loaded = i.loaded /\ u.cnt = i.cnt
      /\ u.deleted = i.deleted + 1 /\ u.cur = i.cur /\ Removes(i.rows, i.cur, u.rows)
  BY <1>0, RemovedType
<1>5. i.loaded \in Nat /\ i.page \in Nat \ {0} /\ i.cnt \in Nat /\ i.deleted \in Nat
      /\ i.cur \in Nat \ {0}
  BY <1>0, IterNumbers
<1> HIDE DEF u, n, new
<1>6. ~AtEnd(u)
  <2> DEFINE li == Len(i.rows)
  <2>1. li > RowsLimit
    BY <1>0, MoreThanAPage
  <2>2. Len(u.rows) = li - 1 /\ li \in Nat /\ i.cur <= RowsLimit
    BY <1>0, <1>4 DEF Removes, Cursor
  <2> HIDE DEF li
  <2>3. i.cur <= li - 1
    BY <1>5, <2>1, <2>2, RowsLimitPositive
  <2> QED
    BY <1>4, <1>5, <2>2, <2>3 DEF AtEnd
<1>7. RowsBefore(win - 1 + u.page - 1) + u.deleted < RowsBefore(u.loaded + 1)
  <2> DEFINE m == win + i.page - 1
             b == RowsBefore(i.loaded + 1)
  <2>1. RowsBefore(m) + i.deleted < b
    BY <1>0 DEF Cursor
  <2>2. m \in Int /\ b \in Int /\ win - 1 + u.page - 1 = m - 1
    BY <1>4, <1>5, RowsBeforeInt
  <2> HIDE DEF m, b
  <2>3. RowsBefore(m - 1) + (i.deleted + 1) < b
    BY <1>5, <2>1, <2>2, WindowShrinks
  <2> QED
    BY <1>4, <2>2, <2>3 DEF b
<1>8. RowsBefore(u.loaded + 1) <= Len(rows) - Len(Rows(pages, u.loaded + 1, u.cnt)) + 0
  <2>1. i.loaded \in i.loaded..(i.cnt - 1)
    BY <1>5
  <2> QED
    BY <1>0, <1>4, <2>1 DEF Cursor
<1>9. Walks(u, pages, rows, 0, win - 1) /\ Passed(u) = Passed(i) + 1
  <2>1. u.loaded < u.cnt
    BY <1>4
  <2> QED
    BY <1>2, <1>4, <1>6, <1>7, <1>8, <2>1, UnloadedWalks DEF n
<1>10. Whole(u, pages, new, pk)
  BY <1>3, <1>4, <1>6, UnloadedWhole DEF n
<1> QED
  BY <1>4, <1>9, <1>10 DEF u, new

-----------------------------------------------------------------------------
(* The first and the last step of an iterator: its constructor and reset(). *)

\* A fresh iterator.
LEMMA InitType ==
    ASSUME NEW pages \in Pages, NEW cnt \in Nat, 1..cnt \subseteq DOMAIN pages
    PROVE  LET i == InitIter(pages, cnt)
               l == PagesReadFirst(cnt) IN
           /\ Loads(i, pages) /\ l \in 0..cnt /\ (l < cnt => l = MaxPageCnt)
           /\ i.rows = Rows(pages, 1, l) /\ i.cur = 1 /\ i.page = 1 /\ i.read = 0
           /\ i.loaded = l /\ i.deleted = 0 /\ i.cnt = cnt
<1> DEFINE i == InitIter(pages, cnt)
           l == PagesReadFirst(cnt)
           r == Rows(pages, 1, l)
<1>1. l \in 0..cnt /\ (l < cnt => l = MaxPageCnt)
  BY ReadsAhead DEF PagesReadFirst
<1> HIDE DEF l
<1>2. r \in Seq(Row) /\ Len(r) \in Nat
  <2>1. l \in Int /\ l <= cnt
    BY <1>1
  <2> QED
    BY <2>1, FirstRows
<1>3. i = [rows |-> r, cur |-> 1, page |-> 1, read |-> 0, loaded |-> l, deleted |-> 0,
           cnt |-> cnt]
  BY DEF InitIter, l
<1> HIDE DEF r
<1>4. i \in Iter
  <2>1. l \in Nat /\ 1 \in Nat \ {0} /\ 0 \in Nat
    BY <1>1
  <2> QED
    BY <1>2, <1>3, <2>1 DEF Iter
<1>5. Shape(i)
  BY <1>1, <1>2, <1>3 DEF Shape
<1>6. /\ i.rows = r /\ i.cur = 1 /\ i.page = 1 /\ i.read = 0
      /\ i.loaded = l /\ i.deleted = 0 /\ i.cnt = cnt
  BY <1>3
<1> HIDE DEF i
<1>7. Loads(i, pages)
  BY <1>4, <1>5, <1>6 DEF Loads
<1> QED
  BY <1>1, <1>6, <1>7 DEF i, l, r

\* The rows of the first k pages and of the others.
LEMMA TwoParts ==
    ASSUME NEW pages \in Pages, NEW cnt \in Nat, 1..cnt \subseteq DOMAIN pages, NEW k \in 0..cnt
    PROVE  /\ Rows(pages, 1, cnt) = Rows(pages, 1, k) \o Rows(pages, k + 1, cnt)
           /\ Rows(pages, 1, k) \in Seq(Row) /\ Rows(pages, k + 1, cnt) \in Seq(Row)
           /\ Len(Rows(pages, 1, cnt))
                = Len(Rows(pages, 1, k)) + Len(Rows(pages, k + 1, cnt))
           /\ Len(Rows(pages, 1, k)) \in Nat /\ Len(Rows(pages, k + 1, cnt)) \in Nat
<1> DEFINE a == Rows(pages, 1, k)
           b == Rows(pages, k + 1, cnt)
<1>1. a \in Seq(Row) /\ PagesThere(pages, 1, cnt)
  <2>1. k \in Int /\ k <= cnt /\ cnt \in Int /\ cnt <= cnt
    OBVIOUS
  <2> QED
    BY <2>1, FirstRows
<1>2. b \in Seq(Row)
  <2>1. k + 1 \in Nat \ {0}
    OBVIOUS
  <2> QED
    BY <2>1, LastRows
<1>3. Rows(pages, 1, cnt) = a \o b
  <2>1. 1 \in Nat \ {0} /\ k \in Int /\ cnt \in Int /\ 1 <= k + 1 /\ k <= cnt
    OBVIOUS
  <2> QED
    BY <1>1, <2>1, RowsSplit
<1> HIDE DEF a, b
<1>4. Len(a \o b) = Len(a) + Len(b) /\ Len(a) \in Nat /\ Len(b) \in Nat
  BY <1>1, <1>2, TwoLists
<1> QED
  BY <1>1, <1>2, <1>3, <1>4 DEF a, b

\* A fresh iterator is before the first row.
LEMMA InitWalks ==
    ASSUME NEW pages \in Pages, NEW cnt \in Nat, NEW row \in 0..RowsLimit, NEW pk \in Nat,
           NEW short \in Nat, Good(pages, cnt, row, pk, short), short < RowsBefore(MaxPageCnt)
    PROVE  LET i == InitIter(pages, cnt)
               rows == Rows(pages, 1, cnt) IN
           /\ Walks(i, pages, rows, short, MaxPageCnt) /\ Passed(i) = 0
           /\ short = 0 /\ DOMAIN pages = 1..cnt =>
                 Whole(i, pages, rows, pk) /\ Untouched(i, pages, rows)
<1> DEFINE i == InitIter(pages, cnt)
           rows == Rows(pages, 1, cnt)
           l == PagesReadFirst(cnt)
<1>1. /\ 1..cnt \subseteq DOMAIN pages /\ Full(pages, cnt - 1, short)
      /\ Len(rows) <= RowsBefore(cnt) + row /\ Ascending(rows) /\ UpTo(rows, pk)
  BY DEF Good
<1>2. /\ Loads(i, pages) /\ l \in 0..cnt /\ (l < cnt => l = MaxPageCnt)
      /\ i.rows = Rows(pages, 1, l) /\ i.cur = 1 /\ i.page = 1 /\ i.read = 0
      /\ i.loaded = l /\ i.deleted = 0 /\ i.cnt = cnt
  BY <1>1, InitType
<1> HIDE DEF i, l
<1>3. rows \in Seq(Row) /\ Len(rows) \in Nat
  <2>1. cnt \in Int /\ cnt <= cnt
    OBVIOUS
  <2> QED
    BY <1>1, <2>1, FirstRows
<1>4. AheadOf(i, pages) = rows
  BY <1>1, <1>2, TwoParts, SMTT(30) DEF AheadOf
<1>5. Passed(i) = 0
  BY <1>2 DEF Passed
<1>6. RowsBefore(1) = 0 /\ RowsBefore(cnt + 1) = RowsBefore(cnt) + RowsLimit /\ RowsBefore(cnt) \in Int
  <2>1. cnt \in Int
    OBVIOUS
  <2> QED
    BY <2>1, RowsBeforeInt, RowsBeforeNext
<1>7. ASSUME NEW k \in l..(cnt - 1)
      PROVE  RowsBefore(k + 1) <= Len(rows) - Len(Rows(pages, k + 1, cnt)) + short
  <2> DEFINE a == Len(Rows(pages, 1, k))
             b == Len(Rows(pages, k + 1, cnt))
  <2>1. k \in 0..cnt /\ k \in 0..(cnt - 1)
    BY <1>2
  <2>2. Len(rows) = a + b /\ a \in Nat /\ b \in Nat
    BY <1>1, <2>1, TwoParts
  <2>3. RowsBefore(k + 1) <= a + short
    BY <1>1, <2>1 DEF Full
  <2> HIDE DEF a, b, rows
  <2>4. Len(rows) - b + short = a + short
    BY <2>2
  <2> QED
    BY <2>3, <2>4 DEF b
<1>8. ASSUME l < cnt
      PROVE  RowsBefore(MaxPageCnt + 1 - 1) + 0 < RowsBefore(l + 1)
  <2>1. l = MaxPageCnt /\ MaxPageCnt \in Int /\ MaxPageCnt + 1 - 1 = MaxPageCnt
    BY <1>2, <1>8, ReadsAhead
  <2>2. RowsBefore(MaxPageCnt + 1) = RowsBefore(MaxPageCnt) + RowsLimit
        /\ RowsBefore(MaxPageCnt) \in Int
    BY <2>1, RowsBeforeInt, RowsBeforeNext
  <2> QED
    BY <2>1, <2>2, RowsLimitPositive
<1> DEFINE n == Len(rows)
<1>9. n <= RowsBefore(cnt + 1)
  <2>1. n <= RowsBefore(cnt) + row /\ n \in Nat
    BY <1>1, <1>3
  <2> HIDE DEF n, rows
  <2> QED
    BY <1>6, <2>1, RowsLimitPositive
<1> HIDE DEF rows, n
<1>10. Cursor(i, pages, rows, short, MaxPageCnt)
  <2>1. i.cur <= RowsLimit /\ i.read = RowsBefore(i.page) + i.cur - 1
    BY <1>2, <1>6, RowsLimitPositive
  <2>2. /\ Passed(i) <= n /\ n <= RowsBefore(i.cnt + 1)
        /\ n = n - Passed(i) + i.cur - 1
    BY <1>2, <1>3, <1>5, <1>9 DEF n
  <2>3. \A j \in 1..(n - Passed(i)) : rows[i.cur - 1 + j] = rows[Passed(i) + j]
    BY <1>2, <1>5
  <2>4. i.loaded < i.cnt =>
           RowsBefore(MaxPageCnt + i.page - 1) + i.deleted < RowsBefore(i.loaded + 1)
    BY <1>2, <1>8
  <2>5. \A k \in i.loaded..(i.cnt - 1) :
           RowsBefore(k + 1) <= n - Len(Rows(pages, k + 1, i.cnt)) + short
    BY <1>2, <1>7 DEF n
  <2> QED
    BY <1>4, <2>1, <2>2, <2>3, <2>4, <2>5 DEF Cursor, n
<1>11. Walks(i, pages, rows, short, MaxPageCnt)
  BY <1>2, <1>3, <1>10 DEF Walks
<1>12. ASSUME short = 0, DOMAIN pages = 1..cnt
       PROVE  Whole(i, pages, rows, pk) /\ Untouched(i, pages, rows)
  <2>1. Rows(pages, 1, 0) = <<>>
    <3>1. 1 \in Nat \ {0} /\ 0 \in Int /\ 0 < 1
      OBVIOUS
    <3> QED
      BY <3>1, RowsEmpty
  <2>2. <<>> \o AheadOf(i, pages) = rows
    BY <1>3, <1>4, ConcatEmptySeq
  <2>3. i.page - 1 = 0
    BY <1>2
  <2>4. \A k \in 0..(i.page - 1) : Len(Rows(pages, 1, k)) = RowsBefore(k + 1)
    <3>1. \A k \in 0..(i.page - 1) : k = 0
      BY <2>3
    <3>2. Len(Rows(pages, 1, 0)) = RowsBefore(0 + 1)
      BY <1>6, <2>1
    <3> QED
      BY <3>1, <3>2
  <2>5. Whole(i, pages, rows, pk)
    BY <1>1, <1>2, <1>3, <1>12, <2>1, <2>2, <2>3, <2>4 DEF Whole, rows
  <2>6. Untouched(i, pages, rows)
    BY <1>1, <1>2, <1>12 DEF Untouched, rows
  <2> QED
    BY <2>5, <2>6
<1> QED
  BY <1>5, <1>11, <1>12 DEF i, rows

\* reset() after deletions, as functions of the iterator and the pages.
ResetTo(i, pages) ==
    IF i.rows # <<>> THEN PagesLeft(Uploaded(i), UploadedPages(i, pages)) ELSE PagesLeft(i, pages)
LastPage(i) == IF i.rows # <<>> THEN i.page ELSE i.page - 1
LastRow(i)  == IF i.rows # <<>> THEN i.cur - 1 ELSE RowsLimit

\* Pages are removed.
LEMMA PagesLeftAre ==
    ASSUME NEW i, NEW pages \in Pages, i.page \in Nat \ {0}, i.cnt \in Nat, i.page <= i.cnt + 1,
           DOMAIN pages = 1..i.cnt
    PROVE  /\ PagesLeft(i, pages) \in Pages /\ DOMAIN PagesLeft(i, pages) = 1..(i.page - 1)
           /\ \A p \in 1..(i.page - 1) : PagesLeft(i, pages)[p] = pages[p]
<1> DEFINE left == PagesLeft(i, pages)
           d == DOMAIN pages \ (i.page..i.cnt)
<1>1. d = 1..(i.page - 1)
  OBVIOUS
<1>2. left = [p \in d |-> pages[p]]
  BY DEF PagesLeft
<1> HIDE DEF left, d
<1>3. DOMAIN left = d /\ \A p \in d : left[p] = pages[p]
  BY <1>2
<1>4. d \subseteq DOMAIN pages
  BY DEF d
<1>5. left \in Pages
  <2>1. \A p \in DOMAIN left : left[p] \in Seq(Row)
    BY <1>3, <1>4, PagesType
  <2>2. DOMAIN left \subseteq Nat \ {0}
    BY <1>3, <1>4, PagesType
  <2>3. left = [p \in DOMAIN left |-> left[p]]
    BY <1>2, <1>3
  <2> QED
    BY <2>1, <2>2, <2>3, PagesIntro
<1> QED
  BY <1>1, <1>3, <1>5 DEF left

\* The same pages, the same rows.
LEMMA SameRows ==
    ASSUME NEW pages, NEW ps, NEW m \in Int, \A p \in 1..m : ps[p] = pages[p]
    PROVE  \A k \in Int : k <= m => Rows(ps, 1, k) = Rows(pages, 1, k)
<1> SUFFICES ASSUME NEW k \in Int, k <= m PROVE Rows(ps, 1, k) = Rows(pages, 1, k)
  OBVIOUS
<1>1. \A p \in 1..k : ps[p] = pages[p]
  OBVIOUS
<1> QED
  BY <1>1, RowsSame

\* The rows left are the table, and the position is that of the last of them.
LEMMA ResetGood ==
    ASSUME NEW i, NEW pages, NEW rows, NEW left, NEW pk, NEW win \in Nat \ {0, 1},
           Walks(i, pages, rows, 0, win), AtEnd(i),
           i.deleted > 0, Whole(i, pages, left, pk), pk \in Nat, Len(rows) <= pk
    PROVE  LET ps == ResetTo(i, pages)
               page == LastPage(i)
               row == LastRow(i) IN
           /\ i.page <= i.cnt /\ ps \in Pages /\ page \in Nat /\ row \in 0..RowsLimit
           /\ Good(ps, page, row, pk, 0) /\ Rows(ps, 1, page) = left /\ DOMAIN ps = 1..page
           /\ i.cur = Len(i.rows) + 1
<1> DEFINE n == Len(i.rows)
           behind == Rows(pages, 1, i.page - 1)
           bp == RowsBefore(i.page)
           lb == Len(rows)
           ps == ResetTo(i, pages)
<1>0. i \in Iter /\ Loads(i, pages) /\ Cursor(i, pages, rows, 0, win) /\ pages \in Pages
      /\ DOMAIN pages = 1..i.cnt
  BY DEF Walks, Loads, Whole
<1>1. /\ i.cur \in Nat \ {0} /\ i.read \in Nat /\ i.deleted \in Nat
      /\ i.page \in Nat \ {0} /\ i.cnt \in Nat /\ bp \in Int /\ i.rows \in Seq(Row) /\ n \in Nat
  BY <1>0, IterNumbers, AheadType
<1>2. lb \in Nat
  <2>1. rows \in Seq(Row)
    BY DEF Walks
  <2> QED
    BY <2>1
<1>3. i.loaded = i.cnt /\ Passed(i) = lb /\ AheadOf(i, pages) = i.rows /\ i.cur = n + 1
  BY CursorAtEnd
<1>4. i.cur <= RowsLimit /\ i.read = bp + i.cur - 1 /\ lb <= RowsBefore(i.cnt + 1)
  BY <1>0 DEF Cursor
<1>5. i.read + i.deleted = lb
  BY <1>3 DEF Passed
<1> HIDE DEF bp, n, lb
<1>6. i.page <= i.cnt
  <2>1. SUFFICES ASSUME i.cnt + 1 <= i.page PROVE FALSE
    BY <1>1
  <2>2. RowsBefore(i.cnt + 1) <= bp /\ RowsBefore(i.cnt + 1) \in Int
    <3>1. i.cnt + 1 \in Int /\ i.page \in Int
      BY <1>1
    <3> QED
      BY <2>1, <3>1, RowsBeforeOrder, RowsBeforeInt DEF bp
  <2>3. i.read < lb
    BY <1>1, <1>2, <1>5
  <2>4. bp <= i.read
    BY <1>1, <1>4
  <2> QED
    BY <1>1, <1>2, <1>4, <2>2, <2>3, <2>4
<1>7. i.page - 1 \in Int /\ i.page - 1 <= i.cnt /\ i.page - 1 \in 0..(i.page - 1)
      /\ (i.page - 1) + 1 = i.page
  BY <1>1, <1>6
<1>8. behind \in Seq(Row) /\ Len(behind) = bp
  <2>1. Len(behind) = bp
    BY <1>7 DEF Whole, bp
  <2> QED
    BY <1>0, <1>7, <2>1, WalkedPages
<1>9. /\ left \in Seq(Row) /\ Ascending(left) /\ UpTo(left, pk) /\ behind \o i.rows = left
      /\ \A k \in 0..(i.page - 1) : Len(Rows(pages, 1, k)) = RowsBefore(k + 1)
  BY <1>3 DEF Whole
<1>10. bp + n <= pk /\ Len(left) = bp + n
  <2>1. bp + n = i.read
    BY <1>1, <1>3, <1>4
  <2>2. i.read <= lb
    BY <1>1, <1>2, <1>5
  <2>3. lb <= pk
    BY DEF lb
  <2>4. Len(behind \o i.rows) = Len(behind) + n
    BY <1>1, <1>8, TwoLists DEF n
  <2>5. Len(left) = bp + n
    BY <1>8, <1>9, <2>4
  <2> QED
    BY <1>1, <1>2, <2>1, <2>2, <2>3, <2>5
<1> HIDE DEF behind
<1>11. CASE i.rows # <<>>
  <2> DEFINE u == Uploaded(i)
             up == UploadedPages(i, pages)
  <2>1. u.page = i.page + 1 /\ u.cnt = i.cnt
    BY <1>0, <1>6, UploadType
  <2>2. /\ up \in Pages /\ DOMAIN up = 1..i.cnt
        /\ \A p \in DOMAIN pages : p # i.page => up[p] = pages[p]
        /\ up[i.page] = SubSeq(i.rows, 1, i.cur - 1)
    BY <1>0, <1>6, UploadedPagesAre, ZenonT(30)
  <2>3. SubSeq(i.rows, 1, i.cur - 1) = i.rows
    <3>1. i.cur - 1 = Len(i.rows)
      BY <1>1, <1>3 DEF n
    <3>2. SubSeq(i.rows, 1, Len(i.rows)) = i.rows
      BY <1>1, SubSeqFull
    <3> QED
      BY <3>1, <3>2
  <2>4. ps = PagesLeft(u, up)
    BY <1>11 DEF ResetTo
  <2> HIDE DEF u, up, ps
  <2>5. /\ ps \in Pages /\ DOMAIN ps = 1..i.page
        /\ \A p \in 1..i.page : ps[p] = up[p]
    <3>1. u.page \in Nat \ {0} /\ u.cnt \in Nat /\ u.page <= u.cnt + 1 /\ DOMAIN up = 1..u.cnt
          /\ u.page - 1 = i.page
      BY <1>1, <1>6, <2>1, <2>2, SMTT(30)
    <3>2. /\ ps \in Pages /\ DOMAIN ps = 1..(u.page - 1)
          /\ \A p \in 1..(u.page - 1) : ps[p] = up[p]
      BY <2>2, <2>4, <3>1, PagesLeftAre
    <3> QED
      BY <3>1, <3>2
  <2>6. \A k \in Int : k < i.page => Rows(ps, 1, k) = Rows(pages, 1, k)
    <3> DEFINE m == i.page - 1
    <3>1. \A p \in 1..m : p \in 1..i.page /\ p \in DOMAIN pages /\ p # i.page
      BY <1>0, <1>1, <1>6
    <3>2. \A p \in 1..m : ps[p] = pages[p]
      BY <2>2, <2>5, <3>1
    <3>3. m \in Int /\ \A k \in Int : k < i.page => k <= m
      BY <1>1
    <3> HIDE DEF m
    <3>4. \A k \in Int : k <= m => Rows(ps, 1, k) = Rows(pages, 1, k)
      BY <3>2, <3>3, SameRows
    <3> QED
      BY <3>3, <3>4
  <2>7. Rows(ps, 1, i.page) = left
    <3> DEFINE k == i.page - 1
    <3>1. k \in Int /\ k + 1 = i.page /\ k < i.page /\ 1 <= k + 1
      BY <1>1
    <3>2. PagesThere(ps, 1, k + 1)
      <4>1. 1..(k + 1) \subseteq DOMAIN ps /\ 1 \in Nat
        BY <2>5, <3>1
      <4> QED
        BY <2>5, <3>1, <4>1, PagesThereIn
    <3> HIDE DEF k
    <3>3. Rows(ps, 1, k + 1) = Rows(ps, 1, k) \o ps[k + 1]
      <4>1. 1 \in Nat \ {0}
        OBVIOUS
      <4> QED
        BY <3>1, <3>2, <4>1, RowsBack
    <3>4. Rows(ps, 1, k) = behind
      BY <2>6, <3>1 DEF k, behind
    <3>5. ps[i.page] = i.rows
      <4>1. i.page \in 1..i.page
        BY <1>1
      <4> QED
        BY <2>2, <2>3, <2>5, <4>1
    <3> QED
      BY <1>9, <3>1, <3>3, <3>4, <3>5
  <2>8. Full(ps, i.page - 1, 0)
    <3> SUFFICES ASSUME NEW k \in 0..(i.page - 1)
                 PROVE  /\ Len(Rows(ps, 1, k)) <= RowsBefore(k + 1)
                        /\ RowsBefore(k + 1) <= Len(Rows(ps, 1, k)) + 0
      BY DEF Full
    <3>1. k \in Int /\ k < i.page /\ k + 1 \in Int
      BY <1>1
    <3>2. Len(Rows(ps, 1, k)) = RowsBefore(k + 1)
      BY <1>9, <2>6, <3>1
    <3>3. RowsBefore(k + 1) \in Int
      BY <3>1, RowsBeforeInt
    <3> QED
      BY <3>2, <3>3
  <2>9. LastPage(i) = i.page /\ LastRow(i) = n
    <3>1. i.cur - 1 = n
      BY <1>1, <1>3
    <3>2. LastPage(i) = i.page /\ LastRow(i) = i.cur - 1
      BY <1>11 DEF LastPage, LastRow
    <3> QED
      BY <3>1, <3>2
  <2>10. n \in 0..RowsLimit
    BY <1>1, <1>3, <1>4, RowsLimitPositive
  <2>11. Good(ps, i.page, n, pk, 0)
    <3>1. 1..i.page \subseteq DOMAIN ps
      BY <2>5
    <3>2. RowsBefore(i.page) + n <= pk /\ Len(left) <= RowsBefore(i.page) + n
          /\ RowsBefore(i.page) + n <= Len(left) + 0
      <4>1. bp + n \in Int
        BY <1>1
      <4>2. bp + n <= pk /\ Len(left) <= bp + n /\ bp + n <= Len(left) + 0
        BY <1>10, <4>1
      <4> QED
        BY <4>2 DEF bp
    <3> QED
      BY <1>9, <2>7, <2>8, <3>1, <3>2 DEF Good
  <2> QED
    BY <1>1, <1>3, <1>6, <2>5, <2>7, <2>9, <2>10, <2>11 DEF ps, n
<1>12. CASE i.rows = <<>>
  <2> DEFINE p == i.page - 1
  <2>1. ps = PagesLeft(i, pages)
    BY <1>12 DEF ResetTo
  <2> HIDE DEF ps
  <2>2. /\ ps \in Pages /\ DOMAIN ps = 1..p
        /\ \A k \in 1..p : ps[k] = pages[k]
    <3>1. i.page <= i.cnt + 1
      BY <1>1, <1>6
    <3> QED
      BY <1>0, <1>1, <2>1, <3>1, PagesLeftAre
  <2>3. p \in Nat /\ p \in Int /\ p + 1 = i.page
    BY <1>1
  <2>4. left = behind
    <3>1. behind \o <<>> = behind
      BY <1>8, ConcatEmptySeq
    <3> QED
      BY <1>9, <1>12, <3>1
  <2> HIDE DEF p
  <2>5. \A k \in Int : k <= p => Rows(ps, 1, k) = Rows(pages, 1, k)
    BY <2>2, <2>3, SameRows
  <2>6. Rows(ps, 1, p) = left
    <3>1. p <= p
      BY <2>3
    <3>2. Rows(ps, 1, p) = Rows(pages, 1, p)
      BY <2>3, <2>5, <3>1
    <3> QED
      BY <2>4, <3>2 DEF p, behind
  <2>7. RowsBefore(p) + RowsLimit = bp
    BY <2>3, RowsBeforeNext DEF bp
  <2>8. n = 0
    BY <1>12 DEF n
  <2>9. Full(ps, p - 1, 0)
    <3> SUFFICES ASSUME NEW k \in 0..(p - 1)
                 PROVE  /\ Len(Rows(ps, 1, k)) <= RowsBefore(k + 1)
                        /\ RowsBefore(k + 1) <= Len(Rows(ps, 1, k)) + 0
      BY DEF Full
    <3>1. k \in Int /\ k <= p /\ k + 1 \in Int /\ k \in 0..(i.page - 1)
      BY <1>1, <2>3
    <3>2. Len(Rows(ps, 1, k)) = RowsBefore(k + 1)
      BY <1>9, <2>5, <3>1
    <3>3. RowsBefore(k + 1) \in Int
      BY <3>1, RowsBeforeInt
    <3> QED
      BY <3>2, <3>3
  <2>10. Good(ps, p, RowsLimit, pk, 0)
    <3>1. 1..p \subseteq DOMAIN ps
      BY <2>2
    <3>2. bp <= pk /\ Len(left) <= bp /\ bp <= Len(left) + 0
      BY <1>1, <1>10, <2>8
    <3> QED
      BY <1>9, <2>6, <2>7, <2>9, <3>1, <3>2 DEF Good
  <2>11. LastPage(i) = p /\ LastRow(i) = RowsLimit
    BY <1>12 DEF LastPage, LastRow, p
  <2> QED
    BY <1>3, <1>6, <2>2, <2>3, <2>6, <2>10, <2>11, RowsLimitPositive DEF ps, n
<1> QED
  BY <1>11, <1>12
=============================================================================
