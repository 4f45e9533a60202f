---------------------------- MODULE ArbiterProofs ----------------------------
(***************************************************************************)
(* Theorems about the memory arbiter: what a search holds is what its copy *)
(* shows, however often it backtracked, so that a test leaves the copy it  *)
(* should, no address is given twice, and what is assigned is what was     *)
(* asked for.                                                              *)
(***************************************************************************)
EXTENDS Arbiter, FiniteSetTheorems, SequenceTheorems, WellFoundedInduction, TLAPS

-----------------------------------------------------------------------------
(* Numbers.                                                                *)

\* Every non-empty set of naturals has a least element.
LEMMA LeastExists ==
  ASSUME NEW S \in SUBSET Nat, S # {}
  PROVE  \E b \in S : \A c \in S : b <= c
<1> DEFINE T == {0..n : n \in S}
<1>1. T \subseteq FiniteSubsetsOf(Nat)
  <2>1. \A n \in S : IsFiniteSet(0..n)
    BY FS_Interval
  <2> QED BY <2>1 DEF FiniteSubsetsOf
<1>2. \E x \in T : \A y \in T : ~(<<y, x>> \in StrictSubsetOrdering(Nat))
  <2>1. T # {} OBVIOUS
  <2> HIDE DEF T
  <2> QED BY <1>1, <2>1, FS_StrictSubsetOrderingWellFounded, WFMin
<1>3. PICK m \in S : \A n \in S : ~(<<0..n, 0..m>> \in StrictSubsetOrdering(Nat))
  BY <1>2
<1>4. ASSUME NEW n \in S PROVE m <= n
  <2>1. SUFFICES ASSUME n < m PROVE FALSE
    OBVIOUS
  <2>2. 0..n \subseteq 0..m /\ 0..n # 0..m
    <3>1. m \in 0..m /\ m \notin 0..n BY <2>1
    <3> QED BY <2>1, <3>1
  <2>3. <<0..n, 0..m>> \in StrictSubsetOrdering(Nat)
    BY <2>2 DEF StrictSubsetOrdering
  <2> QED BY <2>3, <1>3
<1> QED BY <1>4

\* A bounded set of integers has a minimum and a maximum.
LEMMA MinOfBounded ==
  ASSUME NEW S \in SUBSET Int, S # {}, NEW b \in Int, \A x \in S : b <= x
  PROVE  Min(S) \in S /\ \A x \in S : Min(S) <= x
<1> DEFINE T == {x - b : x \in S}
<1>1. T \in SUBSET Nat /\ T # {}
  <2>1. \A x \in S : x \in Int /\ x - b \in Nat
    OBVIOUS
  <2> QED BY <2>1
<1>2. PICK m \in T : \A n \in T : m <= n
  BY <1>1, LeastExists
<1>3. PICK x \in S : m = x - b
  OBVIOUS
<1>4. \A y \in S : x <= y
  <2>1. \A y \in S : y - b \in T
    OBVIOUS
  <2> HIDE DEF T
  <2> QED BY <1>2, <1>3, <2>1
<1> QED BY <1>4 DEF Min

LEMMA MaxOfBounded ==
  ASSUME NEW S \in SUBSET Int, S # {}, NEW b \in Int, \A x \in S : x <= b
  PROVE  Max(S) \in S /\ \A x \in S : x <= Max(S)
<1> DEFINE T == {b - x : x \in S}
<1>1. T \in SUBSET Nat /\ T # {}
  <2>1. \A x \in S : x \in Int /\ b - x \in Nat
    OBVIOUS
  <2> QED BY <2>1
<1>2. PICK m \in T : \A n \in T : m <= n
  BY <1>1, LeastExists
<1>3. PICK x \in S : m = b - x
  OBVIOUS
<1>4. \A y \in S : y <= x
  <2>1. \A y \in S : b - y \in T
    OBVIOUS
  <2> HIDE DEF T
  <2> QED BY <1>2, <1>3, <2>1
<1> QED BY <1>4 DEF Max

LEMMA MinMaxOfTwo ==
  ASSUME NEW a \in Int, NEW b \in Int
  PROVE  /\ Min({a, b}) = IF a <= b THEN a ELSE b
         /\ Max({a, b}) = IF a <= b THEN b ELSE a
<1>1. Min({a, b}) \in {a, b} /\ Min({a, b}) <= a /\ Min({a, b}) <= b
  <2> DEFINE least == IF a <= b THEN a ELSE b
  <2>1. {a, b} \in SUBSET Int /\ least \in Int /\ \A x \in {a, b} : least <= x
    OBVIOUS
  <2> HIDE DEF least
  <2> QED BY <2>1, MinOfBounded
<1>2. Max({a, b}) \in {a, b} /\ a <= Max({a, b}) /\ b <= Max({a, b})
  <2> DEFINE greatest == IF a <= b THEN b ELSE a
  <2>1. {a, b} \in SUBSET Int /\ greatest \in Int /\ \A x \in {a, b} : x <= greatest
    OBVIOUS
  <2> HIDE DEF greatest
  <2> QED BY <2>1, MaxOfBounded
<1> QED BY <1>1, <1>2

\* Induction on a set of naturals.
LEMMA UpTo ==
  ASSUME NEW n \in Nat, NEW T, 0 \in T, \A i \in 1..n : i - 1 \in T => i \in T
  PROVE  0..n \subseteq T
<1>1. SUFFICES ASSUME 0..n \ T # {} PROVE FALSE
  OBVIOUS
<1>2. PICK m \in 0..n \ T : \A k \in 0..n \ T : m <= k
  <2>1. 0..n \ T \in SUBSET Nat
    OBVIOUS
  <2> QED BY <1>1, <2>1, LeastExists
<1>3. m # 0 /\ m \in 1..n
  BY <1>2
<1>4. m - 1 \in T
  <2>1. m - 1 \in 0..n /\ ~(m <= m - 1)
    BY <1>3
  <2> QED BY <1>2, <2>1
<1> QED BY <1>2, <1>3, <1>4

\* What is defined from one number to the next is defined: h begins with a, and
\* g makes each of its values from the one before, staying in S.
StaysIn(n, S, g) == \A i \in 1..n : \A x \in S : g[i][x] \in S
Follows(h, n, S, a, g) == h \in [0..n -> S] /\ h[0] = a /\ \A i \in 1..n : h[i] = g[i][h[i - 1]]

LEMMA Recursion ==
  ASSUME NEW n \in Nat, NEW S, NEW a \in S, NEW g, StaysIn(n, S, g)
  PROVE  \E h : Follows(h, n, S, a, g)
<1> DEFINE Upto(k, h) == h \in [0..k -> S] /\ h[0] = a /\ \A i \in 1..k : h[i] = g[i][h[i - 1]]
           T == {k \in 0..n : \E h : Upto(k, h)}
<1>1. 0 \in T
  <2> DEFINE h0 == [i \in 0..0 |-> a]
  <2>1. h0 \in [0..0 -> S] /\ h0[0] = a
    OBVIOUS
  <2>2. 1..0 = {}
    OBVIOUS
  <2>3. Upto(0, h0)
    <3> HIDE DEF h0
    <3> QED BY <2>1, <2>2
  <2> HIDE DEF Upto, h0
  <2> QED BY <2>3
<1>2. ASSUME NEW k \in 1..n, k - 1 \in T PROVE k \in T
  <2>1. PICK h : Upto(k - 1, h)
    BY <1>2
  <2> DEFINE h1 == [i \in 0..k |-> IF i = k THEN g[k][h[k - 1]] ELSE h[i]]
  <2>2. h[k - 1] \in S /\ g[k][h[k - 1]] \in S
    BY <2>1 DEF StaysIn
  <2>3. h1 \in [0..k -> S]
    BY <2>1, <2>2
  <2>4. h1[0] = a
    BY <2>1
  <2>5. ASSUME NEW i \in 1..k PROVE h1[i] = g[i][h1[i - 1]]
    <3>1. h1[i - 1] = h[i - 1]
      OBVIOUS
    <3>2. CASE i = k
      BY <3>1, <3>2
    <3>3. CASE i # k
      <4>1. i \in 1..k - 1 /\ h1[i] = h[i]
        BY <3>3
      <4> HIDE DEF h1
      <4> QED BY <2>1, <3>1, <4>1
    <3> QED BY <3>2, <3>3
  <2>6. Upto(k, h1)
    <3> HIDE DEF h1
    <3> QED BY <2>3, <2>4, <2>5
  <2> HIDE DEF Upto, h1
  <2> QED BY <2>6
<1>3. n \in T
  <2>1. 0..n \subseteq T
    <3> HIDE DEF T
    <3> QED BY <1>1, <1>2, UpTo
  <2> QED BY <2>1
<1> QED BY <1>3 DEF Follows

-----------------------------------------------------------------------------
(* The order of a list, and what it wants.                                 *)

\* The number of places of a requirement is a number.
LEMMA ScoreType ==
  ASSUME NEW alt \in Alternative
  PROVE  Score(alt) \in Int
<1>1. alt.min \in Int /\ alt.max \in Int /\ alt.len \in Int /\ alt.align \in Nat \ {0}
  BY ArbiterAssumption DEF Alternative, Address
<1>2. (-alt.min) % alt.align \in Int
  BY <1>1
<1>3. \A x \in Int : x \div alt.align \in Int
  BY <1>1
<1> QED BY <1>1, <1>2, <1>3 DEF Score

LEMMA WorkSpaceType ==
  ASSUME NEW e, e.alts \in Seq(Alternative)
  PROVE  WorkSpace(e) \in Int
<1> DEFINE n == Len(e.alts)
           g == [i \in 1..n |-> [x \in Int |-> x + Score(e.alts[i])]]
           sum[i \in 0..n] == IF i = 0 THEN 0 ELSE sum[i - 1] + Score(e.alts[i])
<1>1. WorkSpace(e) = sum[n]
  BY DEF WorkSpace
<1>2. n \in Nat /\ \A i \in 1..n : Score(e.alts[i]) \in Int
  BY ScoreType
<1> HIDE DEF n
<1>3. \A i \in 1..n : \A x \in Int : g[i][x] = x + Score(e.alts[i])
  OBVIOUS
<1> HIDE DEF g
<1>4. PICK h : Follows(h, n, Int, 0, g)
  <2>1. ASSUME NEW i \in 1..n, NEW x \in Int PROVE g[i][x] \in Int
    <3>1. Score(e.alts[i]) \in Int /\ g[i][x] = x + Score(e.alts[i])
      BY <1>2, <1>3
    <3> QED BY <3>1
  <2>2. StaysIn(n, Int, g)
    BY <2>1 DEF StaysIn
  <2>3. n \in Nat /\ 0 \in Int
    BY <1>2
  <2> HIDE DEF sum
  <2> QED BY <2>2, <2>3, Recursion, Zenon
<1>5. h = [i \in 0..n |-> IF i = 0 THEN 0 ELSE h[i - 1] + Score(e.alts[i])]
  <2>1. ASSUME NEW i \in 1..n PROVE h[i] = h[i - 1] + Score(e.alts[i])
    <3>1. i - 1 \in 0..n
      BY <1>2
    <3> QED BY <1>3, <1>4, <3>1 DEF Follows
  <2>2. \A i \in 0..n : h[i] = IF i = 0 THEN 0 ELSE h[i - 1] + Score(e.alts[i])
    BY <1>2, <1>4, <2>1 DEF Follows
  <2> QED BY <1>4, <2>2 DEF Follows
<1>6. sum = [i \in 0..n |-> IF i = 0 THEN 0 ELSE sum[i - 1] + Score(e.alts[i])]
  BY <1>5
<1> HIDE DEF sum
<1>7. sum[n] \in Int
  <2> DEFINE T == {i \in 0..n : sum[i] \in Int}
  <2>1. 0 \in T
    BY <1>2, <1>6
  <2>2. ASSUME NEW i \in 1..n, i - 1 \in T PROVE i \in T
    <3>1. Score(e.alts[i]) \in Int /\ sum[i - 1] \in Int /\ sum[i] = sum[i - 1] + Score(e.alts[i])
      BY <1>2, <1>6, <2>2
    <3> QED BY <3>1
  <2>3. 0..n \subseteq T
    <3> HIDE DEF T
    <3> QED BY <1>2, <2>1, <2>2, UpTo
  <2> QED BY <1>2, <2>3
<1> QED BY <1>1, <1>7

\* Sorting a list changes nothing but the order: the places of its entries are
\* a permutation, since no two have as many entries before them.
LEMMA SortedPermutes ==
  ASSUME NEW S, NEW l \in Seq(S), \A i \in DOMAIN l : l[i].alts \in Seq(Alternative)
  PROVE  /\ Sorted(l) \in Seq(S) /\ DOMAIN Sorted(l) = DOMAIN l
         /\ \A n \in DOMAIN l : \E j \in DOMAIN l : Sorted(l)[n] = l[j]
         /\ \A j \in DOMAIN l : \E n \in DOMAIN l : Sorted(l)[n] = l[j]
<1> DEFINE W(i) == WorkSpace(l[i])
           Before(i, j) == W(i) < W(j) \/ (W(i) = W(j) /\ i <= j)
           Rank(j) == Cardinality({i \in DOMAIN l : Before(i, j)})
           rank == [j \in DOMAIN l |-> Rank(j)]
           size == Len(l)
<1>1. Sorted(l) = [n \in DOMAIN l |-> l[CHOOSE j \in DOMAIN l : Rank(j) = n]]
  BY Zenon DEF Sorted
<1>2. /\ DOMAIN l = 1..size /\ size \in Nat
      /\ \A i \in DOMAIN l : i \in Int /\ W(i) \in Int
  BY WorkSpaceType
<1>3. IsFiniteSet(DOMAIN l) /\ Cardinality(DOMAIN l) = size
  BY <1>2, FS_Interval
<1> HIDE DEF W, size
<1>4. ASSUME NEW j \in DOMAIN l PROVE Rank(j) \in DOMAIN l
  <2> DEFINE before == {i \in DOMAIN l : Before(i, j)}
  <2>1. IsFiniteSet(before) /\ Cardinality(before) \in Nat /\ Cardinality(before) <= size
    BY <1>3, FS_Subset, FS_CardinalityType
  <2>2. j \in before
    BY <1>2
  <2>3. Cardinality(before) # 0
    <3> HIDE DEF before
    <3> QED BY <2>1, <2>2, FS_EmptySet
  <2> QED BY <1>2, <2>1, <2>3
<1>5. ASSUME NEW i \in DOMAIN l, NEW j \in DOMAIN l, Before(i, j), i # j PROVE Rank(i) < Rank(j)
  <2> DEFINE first == {k \in DOMAIN l : Before(k, i)}
             second == {k \in DOMAIN l : Before(k, j)}
  <2>1. first \subseteq second
    BY <1>2, <1>5
  <2>2. j \in second /\ j \notin first
    BY <1>2, <1>5
  <2>3. IsFiniteSet(second) /\ IsFiniteSet(first)
    BY <1>3, FS_Subset
  <2>4. Cardinality(first) \in Nat /\ Cardinality(second) \in Nat
    BY <2>3, FS_CardinalityType
  <2>5. Cardinality(first) <= Cardinality(second) /\ Cardinality(first) # Cardinality(second)
    <3> HIDE DEF first, second
    <3> QED BY <2>1, <2>2, <2>3, FS_Subset
  <2> QED BY <2>4, <2>5
<1>6. ASSUME NEW i \in DOMAIN l, NEW j \in DOMAIN l PROVE Before(i, j) \/ Before(j, i)
  <2>1. i \in Int /\ j \in Int /\ W(i) \in Int /\ W(j) \in Int
    BY <1>2
  <2> QED BY <2>1
<1> HIDE DEF Before
<1>7. \A i, j \in DOMAIN l : Rank(i) = Rank(j) => i = j
  <2>1. \A i \in DOMAIN l : Rank(i) \in Int
    BY <1>2, <1>4
  <2> HIDE DEF Rank
  <2> QED BY <1>5, <1>6, <2>1
<1> HIDE DEF Rank
<1>8. rank \in Injection(DOMAIN l, DOMAIN l)
  BY <1>4, <1>7 DEF Injection, IsInjective
<1>9. rank \in Surjection(DOMAIN l, DOMAIN l)
  <2> HIDE DEF rank
  <2> QED BY <1>3, <1>8, FS_Injection
<1>10. \A n \in DOMAIN l : \E j \in DOMAIN l : Rank(j) = n
  BY <1>9 DEF Surjection
<1>11. ASSUME NEW n \in DOMAIN l PROVE \E j \in DOMAIN l : Sorted(l)[n] = l[j]
  BY <1>1, <1>10
<1>12. ASSUME NEW j \in DOMAIN l PROVE \E n \in DOMAIN l : Sorted(l)[n] = l[j]
  <2>1. Rank(j) \in DOMAIN l /\ (CHOOSE k \in DOMAIN l : Rank(k) = Rank(j)) = j
    BY <1>4, <1>7
  <2> QED BY <1>1, <2>1
<1>13. Sorted(l) \in [1..size -> S]
  <2>1. DOMAIN Sorted(l) = DOMAIN l
    BY <1>1
  <2>2. \A n \in DOMAIN l : Sorted(l)[n] \in S
    BY <1>11
  <2>3. Sorted(l) = [n \in DOMAIN l |-> Sorted(l)[n]]
    BY <1>1
  <2> QED BY <1>2, <2>2, <2>3
<1>14. Sorted(l) \in Seq(S)
  BY <1>2, <1>13
<1> QED BY <1>1, <1>11, <1>12, <1>14

\* What a list wants are those of its entries that have alternatives.
LEMMA WantingType ==
  ASSUME NEW S, NEW l \in Seq(S)
  PROVE  Wanting(l) \in Seq({l[i] : i \in {i \in DOMAIN l : l[i].alts # <<>>}})
<1> DEFINE E == {l[i] : i \in {i \in DOMAIN l : l[i].alts # <<>>}}
           n == Len(l)
           g == [i \in 1..n |-> [x \in Seq(E) |-> IF l[i].alts = <<>> THEN x ELSE Append(x, l[i])]]
           wanting[i \in 0..n] ==
             IF i = 0 THEN <<>>
             ELSE IF l[i].alts = <<>> THEN wanting[i - 1] ELSE Append(wanting[i - 1], l[i])
<1>1. Wanting(l) = wanting[n]
  BY DEF Wanting
<1>2. n \in Nat /\ DOMAIN l = 1..n
  OBVIOUS
<1>3. \A i \in 1..n : l[i].alts # <<>> => l[i] \in E
  BY <1>2
<1> HIDE DEF n, E
<1>4. <<>> \in Seq(E) /\ \A x \in Seq(E) : \A e \in E : Append(x, e) \in Seq(E)
  OBVIOUS
<1>5. \A i \in 1..n : \A x \in Seq(E) : g[i][x] = IF l[i].alts = <<>> THEN x ELSE Append(x, l[i])
  OBVIOUS
<1> HIDE DEF g
<1>6. PICK h : Follows(h, n, Seq(E), <<>>, g)
  <2>1. ASSUME NEW i \in 1..n, NEW x \in Seq(E) PROVE g[i][x] \in Seq(E)
    <3>1. g[i][x] = IF l[i].alts = <<>> THEN x ELSE Append(x, l[i])
      BY <1>5
    <3>2. l[i].alts # <<>> => Append(x, l[i]) \in Seq(E)
      BY <1>3, <1>4
    <3> QED BY <3>1, <3>2
  <2>2. StaysIn(n, Seq(E), g)
    BY <2>1 DEF StaysIn
  <2>3. n \in Nat /\ <<>> \in Seq(E)
    BY <1>2, <1>4
  <2> HIDE DEF wanting
  <2> QED BY <2>2, <2>3, Recursion, Zenon
<1>7. h = [i \in 0..n |-> IF i = 0 THEN <<>> ELSE IF l[i].alts = <<>> THEN h[i - 1] ELSE Append(h[i - 1], l[i])]
  <2>1. ASSUME NEW i \in 1..n PROVE h[i] = IF l[i].alts = <<>> THEN h[i - 1] ELSE Append(h[i - 1], l[i])
    <3>1. i - 1 \in 0..n
      BY <1>2
    <3> QED BY <1>5, <1>6, <3>1 DEF Follows
  <2>2. ASSUME NEW i \in 0..n
        PROVE  h[i] = IF i = 0 THEN <<>> ELSE IF l[i].alts = <<>> THEN h[i - 1] ELSE Append(h[i - 1], l[i])
    <3>1. i = 0 \/ i \in 1..n
      BY <1>2
    <3>2. h[0] = <<>>
      BY <1>6 DEF Follows
    <3>3. ~(0 \in 1..n)
      OBVIOUS
    <3> QED BY <2>1, <3>1, <3>2, <3>3, Zenon
  <2> QED BY <1>6, <2>2 DEF Follows
<1>8. wanting =
        [i \in 0..n |->
           IF i = 0 THEN <<>> ELSE IF l[i].alts = <<>> THEN wanting[i - 1] ELSE Append(wanting[i - 1], l[i])]
  BY <1>7
<1> HIDE DEF wanting
<1>9. wanting[n] \in Seq(E)
  <2> DEFINE T == {i \in 0..n : wanting[i] \in Seq(E)}
  <2>1. 0 \in T
    BY <1>2, <1>4, <1>8
  <2>2. ASSUME NEW i \in 1..n, i - 1 \in T PROVE i \in T
    <3>1. i \in 0..n /\ i # 0 /\ wanting[i - 1] \in Seq(E)
      BY <1>2, <2>2
    <3>2. wanting[i] = IF l[i].alts = <<>> THEN wanting[i - 1] ELSE Append(wanting[i - 1], l[i])
      BY <1>8, <3>1
    <3>3. l[i].alts # <<>> => Append(wanting[i - 1], l[i]) \in Seq(E)
      BY <1>3, <1>4, <3>1
    <3> QED BY <3>1, <3>2, <3>3
  <2>3. 0..n \subseteq T
    <3> HIDE DEF T
    <3> QED BY <1>2, <2>1, <2>2, UpTo
  <2> QED BY <1>2, <2>3
<1> QED BY <1>1, <1>9 DEF E

-----------------------------------------------------------------------------
(* The pruning of windows.                                                 *)

WindowType == [start : Address, end : Address]

\* The windows that overlap none of a set of windows.
Clear(V) == {o \in WindowType : \A v \in V : ~Overlap(o.start, o.end, v.start, v.end)}

\* The pieces of a window are windows, within it and outside what is cut out.
LEMMA PiecesClear ==
  ASSUME NEW V \in SUBSET WindowType, NEW o \in Clear(V), NEW w \in WindowType
  PROVE  Pieces(o, w.start, w.end) \in Seq(Clear(V \union {w}))
<1> DEFINE upper == Window(w.end + 1, o.end)
           lower == Window(o.start, w.start - 1)
<1>1. /\ o \in WindowType /\ Top \in Nat
      /\ o.start \in Int /\ o.end \in Int /\ w.start \in Int /\ w.end \in Int
      /\ 0 <= o.start /\ o.start <= Top /\ 0 <= o.end /\ o.end <= Top
      /\ 0 <= w.start /\ w.start <= Top /\ 0 <= w.end /\ w.end <= Top
  BY ArbiterAssumption DEF Clear, WindowType, Address
<1>2. ASSUME NEW v \in V
      PROVE  v.start \in Int /\ v.end \in Int /\ (o.end < v.start \/ v.end < o.start)
  BY DEF Clear, WindowType, Address, Overlap
<1>3. CASE ~Overlap(o.start, o.end, w.start, w.end)
  <2>1. o \in Clear(V \union {w})
    BY <1>3 DEF Clear
  <2> QED BY <1>3, <2>1 DEF Pieces
<1>4. CASE Overlap(o.start, o.end, w.start, w.end)
  <2>1. o.start <= w.end /\ w.start <= o.end
    BY <1>1, <1>4 DEF Overlap
  <2>2. ASSUME w.end < o.end PROVE upper \in Clear(V \union {w})
    <3>1. w.end + 1 \in Address /\ o.end \in Address
      BY <1>1, <2>2 DEF Address
    <3>2. upper \in WindowType /\ upper.start = w.end + 1 /\ upper.end = o.end
      BY <3>1 DEF WindowType, Window
    <3>3. ASSUME NEW v \in V \union {w} PROVE ~Overlap(w.end + 1, o.end, v.start, v.end)
      BY <1>1, <1>2, <2>1 DEF Overlap
    <3> HIDE DEF upper
    <3> QED BY <3>2, <3>3 DEF Clear
  <2>3. ASSUME w.start > o.start PROVE lower \in Clear(V \union {w})
    <3>1. w.start - 1 \in Address /\ o.start \in Address
      BY <1>1, <2>3 DEF Address
    <3>2. lower \in WindowType /\ lower.start = o.start /\ lower.end = w.start - 1
      BY <3>1 DEF WindowType, Window
    <3>3. ASSUME NEW v \in V \union {w} PROVE ~Overlap(o.start, w.start - 1, v.start, v.end)
      BY <1>1, <1>2, <2>1 DEF Overlap
    <3> HIDE DEF lower
    <3> QED BY <3>2, <3>3 DEF Clear
  <2> DEFINE above == IF w.end < o.end THEN <<upper>> ELSE <<>>
             below == IF w.start > o.start THEN <<lower>> ELSE <<>>
  <2>4. above \in Seq(Clear(V \union {w})) /\ below \in Seq(Clear(V \union {w}))
    <3>1. \A S : <<>> \in Seq(S) /\ \A x \in S : <<x>> \in Seq(S)
      OBVIOUS
    <3> HIDE DEF upper, lower
    <3>2. above \in Seq(Clear(V \union {w}))
      BY <2>2, <3>1
    <3>3. below \in Seq(Clear(V \union {w}))
      BY <2>3, <3>1
    <3> QED BY <3>2, <3>3
  <2>5. Pieces(o, w.start, w.end) = above \o below
    BY <1>4 DEF Pieces
  <2> HIDE DEF above, below
  <2> QED BY <2>4, <2>5
<1> QED BY <1>3, <1>4

\* Sequences put one after another are a sequence of what was in them.
LEMMA FlattenType ==
  ASSUME NEW S, NEW seqs \in Seq(Seq(S))
  PROVE  FlattenSeq(seqs) \in Seq(S)
<1> DEFINE n == Len(seqs)
           g == [i \in 1..n |-> [x \in Seq(S) |-> IF i = 1 THEN seqs[i] ELSE x \o seqs[i]]]
           flatten[i \in 1..n] == IF i = 1 THEN seqs[i] ELSE flatten[i - 1] \o seqs[i]
<1>1. FlattenSeq(seqs) = IF n = 0 THEN seqs ELSE flatten[n]
  BY DEF FlattenSeq
<1>2. n \in Nat /\ \A i \in 1..n : seqs[i] \in Seq(S)
  OBVIOUS
<1>3. n = 0 => seqs \in Seq(S)
  OBVIOUS
<1> HIDE DEF n
<1>4. <<>> \in Seq(S) /\ \A x, y \in Seq(S) : x \o y \in Seq(S)
  OBVIOUS
<1>5. \A i \in 1..n : \A x \in Seq(S) : g[i][x] = IF i = 1 THEN seqs[i] ELSE x \o seqs[i]
  OBVIOUS
<1> HIDE DEF g
<1>6. PICK h : Follows(h, n, Seq(S), <<>>, g)
  <2>1. ASSUME NEW i \in 1..n, NEW x \in Seq(S) PROVE g[i][x] \in Seq(S)
    <3>1. g[i][x] = IF i = 1 THEN seqs[i] ELSE x \o seqs[i]
      BY <1>5
    <3>2. seqs[i] \in Seq(S) /\ x \o seqs[i] \in Seq(S)
      BY <1>2, <1>4
    <3> QED BY <3>1, <3>2
  <2>2. StaysIn(n, Seq(S), g)
    BY <2>1 DEF StaysIn
  <2>3. n \in Nat /\ <<>> \in Seq(S)
    BY <1>2, <1>4
  <2> HIDE DEF flatten
  <2> QED BY <2>2, <2>3, Recursion, Zenon
<1> DEFINE h1 == [i \in 1..n |-> h[i]]
<1>7. h1 = [i \in 1..n |-> IF i = 1 THEN seqs[i] ELSE h1[i - 1] \o seqs[i]]
  <2>1. ASSUME NEW i \in 1..n PROVE h1[i] = IF i = 1 THEN seqs[i] ELSE h1[i - 1] \o seqs[i]
    <3>1. i - 1 \in 0..n /\ i \in 0..n /\ (i # 1 => i - 1 \in 1..n)
      BY <1>2
    <3>2. h[i] = IF i = 1 THEN seqs[i] ELSE h[i - 1] \o seqs[i]
      BY <1>5, <1>6, <3>1 DEF Follows
    <3>3. h1[i] = h[i] /\ (i # 1 => h1[i - 1] = h[i - 1])
      BY <3>1
    <3> HIDE DEF h1
    <3> QED BY <3>2, <3>3
  <2>2. DOMAIN h1 = 1..n /\ h1 = [i \in 1..n |-> h1[i]]
    OBVIOUS
  <2> HIDE DEF h1
  <2> QED BY <2>1, <2>2
<1> HIDE DEF h1
<1>8. flatten = [i \in 1..n |-> IF i = 1 THEN seqs[i] ELSE flatten[i - 1] \o seqs[i]]
  BY <1>7
<1> HIDE DEF flatten
<1>9. \A i \in 1..n : flatten[i] \in Seq(S)
  <2> DEFINE T == {i \in 0..n : i = 0 \/ flatten[i] \in Seq(S)}
  <2>1. 0 \in T
    BY <1>2
  <2>2. ASSUME NEW i \in 1..n, i - 1 \in T PROVE i \in T
    <3>1. i \in 0..n /\ i # 0 /\ (i # 1 => flatten[i - 1] \in Seq(S))
      BY <1>2, <2>2
    <3>2. flatten[i] = IF i = 1 THEN seqs[i] ELSE flatten[i - 1] \o seqs[i]
      BY <1>8
    <3>3. i # 1 => flatten[i - 1] \o seqs[i] \in Seq(S)
      BY <1>2, <1>4, <3>1
    <3>4. flatten[i] \in Seq(S)
      BY <1>2, <3>2, <3>3
    <3> QED BY <3>1, <3>4
  <2>3. 0..n \subseteq T
    <3> HIDE DEF T
    <3> QED BY <1>2, <2>1, <2>2, UpTo
  <2> QED BY <1>2, <2>3
<1> QED BY <1>1, <1>2, <1>3, <1>9

\* An ordering that is pruned is clear of what is cut out of it.
LEMMA PruneOrderingClear ==
  ASSUME NEW V \in SUBSET WindowType, NEW orderings \in Seq(Clear(V)), NEW w \in WindowType
  PROVE  PruneOrdering(orderings, w) \in Seq(Clear(V \union {w}))
<1> DEFINE pieces == [i \in DOMAIN orderings |-> Pieces(orderings[i], w.start, w.end)]
           C == Clear(V \union {w})
<1>1. \A i \in DOMAIN orderings : Pieces(orderings[i], w.start, w.end) \in Seq(C)
  <2>1. \A i \in DOMAIN orderings : orderings[i] \in Clear(V)
    OBVIOUS
  <2> QED BY <2>1, PiecesClear
<1> HIDE DEF C
<1>2. pieces \in [1..Len(orderings) -> Seq(C)] /\ Len(orderings) \in Nat
  BY <1>1
<1>3. pieces \in Seq(Seq(C))
  <2> HIDE DEF pieces
  <2> QED BY <1>2
<1>4. PruneOrdering(orderings, w) = FlattenSeq(pieces)
  BY DEF PruneOrdering
<1>5. FlattenSeq(pieces) \in Seq(C)
  <2> HIDE DEF pieces
  <2> QED BY <1>3, FlattenType
<1> QED BY <1>4, <1>5 DEF C

LEMMA PrunedByClear ==
  ASSUME NEW orderings \in Seq(WindowType), NEW ws \in Seq(WindowType)
  PROVE  PrunedBy(orderings, ws) \in Seq(Clear({ws[n] : n \in DOMAIN ws}))
<1> DEFINE n == Len(ws)
           g == [i \in 1..n |-> [x \in Seq(WindowType) |-> PruneOrdering(x, ws[i])]]
           pruned[i \in 0..n] == IF i = 0 THEN orderings ELSE PruneOrdering(pruned[i - 1], ws[i])
           C(i) == Clear({ws[k] : k \in 1..i})
<1>1. PrunedBy(orderings, ws) = pruned[n]
  BY DEF PrunedBy
<1>2. n \in Nat /\ DOMAIN ws = 1..n /\ \A i \in 1..n : ws[i] \in WindowType
  OBVIOUS
<1> HIDE DEF n
<1>3. Clear({}) = WindowType /\ \A V : Clear(V) \subseteq WindowType
  BY DEF Clear
<1>4. ASSUME NEW V \in SUBSET WindowType, NEW i \in 1..n, NEW x \in Seq(Clear(V))
      PROVE  PruneOrdering(x, ws[i]) \in Seq(Clear(V \union {ws[i]}))
  BY <1>2, PruneOrderingClear
<1>5. \A i \in 1..n : \A x \in Seq(WindowType) : PruneOrdering(x, ws[i]) \in Seq(WindowType)
  <2>1. ASSUME NEW i \in 1..n, NEW x \in Seq(Clear({})) PROVE PruneOrdering(x, ws[i]) \in Seq(WindowType)
    <3>1. PruneOrdering(x, ws[i]) \in Seq(Clear({} \union {ws[i]}))
      BY <1>4
    <3>2. \A S, T : S \subseteq T => Seq(S) \subseteq Seq(T)
      OBVIOUS
    <3> QED BY <1>3, <3>1, <3>2
  <2> QED BY <1>3, <2>1
<1>6. \A i \in 1..n : \A x \in Seq(WindowType) : g[i][x] = PruneOrdering(x, ws[i])
  OBVIOUS
<1> HIDE DEF g
<1>7. PICK h : Follows(h, n, Seq(WindowType), orderings, g)
  <2>1. StaysIn(n, Seq(WindowType), g)
    BY <1>5, <1>6 DEF StaysIn
  <2>2. n \in Nat /\ orderings \in Seq(WindowType)
    BY <1>2
  <2> HIDE DEF pruned
  <2> QED BY <2>1, <2>2, Recursion, Zenon
<1>8. h = [i \in 0..n |-> IF i = 0 THEN orderings ELSE PruneOrdering(h[i - 1], ws[i])]
  <2>1. ASSUME NEW i \in 1..n PROVE h[i] = PruneOrdering(h[i - 1], ws[i])
    <3>1. i - 1 \in 0..n
      BY <1>2
    <3> QED BY <1>6, <1>7, <3>1 DEF Follows
  <2>2. ASSUME NEW i \in 0..n PROVE h[i] = IF i = 0 THEN orderings ELSE PruneOrdering(h[i - 1], ws[i])
    <3>1. i = 0 \/ i \in 1..n
      BY <1>2
    <3>2. h[0] = orderings
      BY <1>7 DEF Follows
    <3>3. ~(0 \in 1..n)
      OBVIOUS
    <3> QED BY <2>1, <3>1, <3>2, <3>3, Zenon
  <2> QED BY <1>7, <2>2 DEF Follows
<1>9. pruned = [i \in 0..n |-> IF i = 0 THEN orderings ELSE PruneOrdering(pruned[i - 1], ws[i])]
  BY <1>8
<1> HIDE DEF pruned
<1>10. pruned[n] \in Seq(C(n))
  <2> DEFINE T == {i \in 0..n : pruned[i] \in Seq(C(i))}
  <2>1. 0 \in T
    <3>1. {ws[k] : k \in 1..0} = {}
      OBVIOUS
    <3>2. pruned[0] = orderings /\ 0 \in 0..n
      BY <1>2, <1>9
    <3>3. C(0) = WindowType
      BY <1>3, <3>1
    <3> HIDE DEF C
    <3> QED BY <3>2, <3>3
  <2>2. ASSUME NEW i \in 1..n, i - 1 \in T PROVE i \in T
    <3> DEFINE V == {ws[k] : k \in 1..(i - 1)}
    <3>1. i \in 0..n /\ i # 0 /\ pruned[i - 1] \in Seq(Clear(V))
      BY <1>2, <2>2
    <3>2. pruned[i] = PruneOrdering(pruned[i - 1], ws[i])
      BY <1>9, <3>1
    <3>3. V \in SUBSET WindowType
      BY <1>2
    <3>4. {ws[k] : k \in 1..i} = V \union {ws[i]}
      <4>1. 1..i = (1..(i - 1)) \union {i}
        BY <1>2
      <4> QED BY <4>1
    <3> HIDE DEF V
    <3>5. pruned[i] \in Seq(Clear(V \union {ws[i]}))
      BY <1>4, <3>1, <3>2, <3>3
    <3> QED BY <3>1, <3>4, <3>5
  <2>3. 0..n \subseteq T
    <3> HIDE DEF T
    <3> QED BY <1>2, <2>1, <2>2, UpTo
  <2> QED BY <1>2, <2>3
<1> QED BY <1>1, <1>2, <1>10

\* The orderings a bus is started with are windows, and other memory is not
\* looked for in the prefetchable ones.
LEMMA OrderingTypes ==
  ASSUME NEW ws \in WindowSets
  PROVE  /\ DefaultOrdering \in Seq(WindowType) /\ ws \in Seq(WindowType)
         /\ Normal(ws) \in Seq(Clear({ws[n] : n \in DOMAIN ws})) /\ Normal(ws) \in Seq(WindowType)
         /\ Prefetched(ws) \in Seq(WindowType)
<1> DEFINE whole == Append(DefaultOrdering, Window(0, Top))
<1>1. DefaultOrdering \in Seq(WindowType) /\ ReservedList \in Seq(WindowType) /\ ws \in Seq(WindowType)
  BY ArbiterAssumption DEF IsOrdering, WindowType
<1>2. Window(0, Top) \in WindowType
  BY ArbiterAssumption DEF Window, WindowType, Address
<1>3. whole \in Seq(WindowType)
  BY <1>1, <1>2
<1>4. \A S, T : S \subseteq T => Seq(S) \subseteq Seq(T)
  OBVIOUS
<1>5. \A V : Clear(V) \subseteq WindowType
  BY DEF Clear
<1>6. PrunedBy(whole, ws) \in Seq(Clear({ws[n] : n \in DOMAIN ws}))
  <2> HIDE DEF whole
  <2> QED BY <1>1, <1>3, PrunedByClear
<1>7. Normal(ws) \in Seq(Clear({ws[n] : n \in DOMAIN ws})) /\ Normal(ws) \in Seq(WindowType)
  BY <1>4, <1>5, <1>6 DEF Normal
<1>8. PrunedBy(ws, ReservedList) \in Seq(WindowType)
  <2>1. PrunedBy(ws, ReservedList) \in Seq(Clear({ReservedList[n] : n \in DOMAIN ReservedList}))
    BY <1>1, PrunedByClear
  <2> QED BY <1>4, <1>5, <2>1
<1> QED BY <1>1, <1>7, <1>8 DEF Prefetched

-----------------------------------------------------------------------------
(* Bags of ranges.                                                         *)

\* Putting bags together gives a bag of what is in either.
LEMMA UnionOfBags ==
  ASSUME NEW A, NEW B, IsABag(A), IsABag(B)
  PROVE  /\ IsABag(A (+) B) /\ DOMAIN (A (+) B) = DOMAIN A \union DOMAIN B
         /\ \A r : Copies(r, A (+) B) = Copies(r, A) + Copies(r, B)
<1> DEFINE C == A (+) B
<1>1. \A r \in DOMAIN A : A[r] \in Nat /\ A[r] > 0
  BY DEF IsABag
<1>2. \A r \in DOMAIN B : B[r] \in Nat /\ B[r] > 0
  BY DEF IsABag
<1>3. /\ DOMAIN C = DOMAIN A \union DOMAIN B /\ C = [r \in DOMAIN C |-> C[r]]
      /\ \A r \in DOMAIN C :
           C[r] = (IF r \in DOMAIN A THEN A[r] ELSE 0) + (IF r \in DOMAIN B THEN B[r] ELSE 0)
  BY DEF (+)
<1> HIDE DEF C
<1>4. \A r \in DOMAIN C : C[r] \in {n \in Nat : n > 0}
  BY <1>1, <1>2, <1>3
<1>5. IsABag(C)
  BY <1>3, <1>4 DEF IsABag
<1>6. ASSUME NEW r PROVE Copies(r, C) = Copies(r, A) + Copies(r, B)
  <2>1. CASE r \in DOMAIN C
    BY <1>3, <2>1 DEF Copies, Ranges, BagToSet
  <2>2. CASE r \notin DOMAIN C
    BY <1>3, <2>2 DEF Copies, Ranges, BagToSet
  <2> QED BY <2>1, <2>2
<1> QED BY <1>3, <1>5, <1>6 DEF C

\* Bags are equal that hold as many of each.
LEMMA BagsEqual ==
  ASSUME NEW A, NEW B, IsABag(A), IsABag(B), \A r : Copies(r, A) = Copies(r, B)
  PROVE  A = B
<1>1. \A r \in DOMAIN A : A[r] \in Nat /\ A[r] > 0 /\ Copies(r, A) = A[r]
  BY DEF IsABag, Copies, Ranges, BagToSet
<1>2. \A r \in DOMAIN B : B[r] \in Nat /\ B[r] > 0 /\ Copies(r, B) = B[r]
  BY DEF IsABag, Copies, Ranges, BagToSet
<1>3. \A r : (r \notin DOMAIN A => Copies(r, A) = 0) /\ (r \notin DOMAIN B => Copies(r, B) = 0)
  BY DEF Copies, Ranges, BagToSet
<1>4. DOMAIN A = DOMAIN B
  <2>1. ASSUME NEW r PROVE r \in DOMAIN A => r \in DOMAIN B
    BY <1>1, <1>3
  <2>2. ASSUME NEW r PROVE r \in DOMAIN B => r \in DOMAIN A
    BY <1>2, <1>3
  <2> QED BY <2>1, <2>2
<1>5. A = [r \in DOMAIN A |-> A[r]] /\ B = [r \in DOMAIN B |-> B[r]]
  BY DEF IsABag
<1>6. \A r \in DOMAIN A : A[r] = B[r]
  BY <1>1, <1>2, <1>4
<1> QED BY <1>4, <1>5, <1>6

LEMMA BagOfOne ==
  ASSUME NEW r
  PROVE  /\ IsABag(SetToBag({r})) /\ DOMAIN SetToBag({r}) = {r}
         /\ \A q : Copies(q, SetToBag({r})) = IF q = r THEN 1 ELSE 0
BY DEF IsABag, SetToBag, Copies, Ranges, BagToSet

LEMMA BagOfNone == IsABag(EmptyBag) /\ DOMAIN EmptyBag = {} /\ \A q : Copies(q, EmptyBag) = 0
BY DEF IsABag, EmptyBag, SetToBag, Copies, Ranges, BagToSet

LEMMA CopiesNatural ==
  ASSUME NEW A, IsABag(A), NEW r
  PROVE  Copies(r, A) \in Nat /\ (Copies(r, A) > 0 <=> r \in Ranges(A))
BY DEF IsABag, Copies, Ranges, BagToSet

\* The bag of a function's values holds each as often as it is a value.
LEMMA ValuesBag ==
  ASSUME NEW f, IsFiniteSet(DOMAIN f)
  PROVE  /\ IsABag(Values(f)) /\ DOMAIN Values(f) = {f[i] : i \in DOMAIN f}
         /\ \A r : Copies(r, Values(f)) = Cardinality({i \in DOMAIN f : f[i] = r})
<1> DEFINE at(r) == {i \in DOMAIN f : f[i] = r}
           C == Values(f)
<1>1. \A r : IsFiniteSet(at(r)) /\ Cardinality(at(r)) \in Nat /\ (Cardinality(at(r)) = 0 <=> at(r) = {})
  <2>1. ASSUME NEW r PROVE IsFiniteSet(at(r))
    BY FS_Subset
  <2> HIDE DEF at
  <2> QED BY <2>1, FS_CardinalityType, FS_EmptySet
<1>2. DOMAIN C = {f[i] : i \in DOMAIN f} /\ C = [r \in DOMAIN C |-> C[r]]
  BY DEF Values
<1>3. \A r \in DOMAIN C : C[r] = Cardinality(at(r))
  BY DEF Values
<1> HIDE DEF C
<1>4. \A r : r \in DOMAIN C <=> at(r) # {}
  BY <1>2
<1> HIDE DEF at
<1>5. \A r \in DOMAIN C : C[r] \in {n \in Nat : n > 0}
  BY <1>1, <1>3, <1>4
<1>6. IsABag(C)
  BY <1>2, <1>5 DEF IsABag
<1>7. \A r : Copies(r, C) = Cardinality(at(r))
  BY <1>1, <1>3, <1>4 DEF Copies, Ranges, BagToSet
<1> QED BY <1>2, <1>6, <1>7 DEF C, at

\* One value more.
LEMMA ValuesExtended ==
  ASSUME NEW f, IsFiniteSet(DOMAIN f), NEW i, i \notin DOMAIN f, NEW r,
         NEW F, DOMAIN F = DOMAIN f \union {i}, F[i] = r, \A j \in DOMAIN f : F[j] = f[j]
  PROVE  Values(F) = Values(f) (+) SetToBag({r})
<1>1. IsFiniteSet(DOMAIN F)
  BY FS_AddElement
<1>2. IsABag(Values(f)) /\ IsABag(Values(F)) /\ IsABag(SetToBag({r}))
  BY <1>1, ValuesBag, BagOfOne
<1>3. ASSUME NEW q PROVE Copies(q, Values(F)) = Copies(q, Values(f)) + Copies(q, SetToBag({r}))
  <2> DEFINE few == {j \in DOMAIN f : f[j] = q}
             many == {j \in DOMAIN F : F[j] = q}
  <2>1. Copies(q, Values(f)) = Cardinality(few) /\ Copies(q, Values(F)) = Cardinality(many)
    BY <1>1, ValuesBag
  <2>2. IsFiniteSet(few) /\ Cardinality(few) \in Nat
    BY FS_Subset, FS_CardinalityType
  <2>3. CASE q = r
    <3>1. many = few \union {i} /\ i \notin few
      BY <2>3
    <3>2. Cardinality(many) = Cardinality(few) + 1
      <4> HIDE DEF few, many
      <4> QED BY <2>2, <3>1, FS_AddElement
    <3> QED BY <2>1, <2>3, <3>2, BagOfOne
  <2>4. CASE q # r
    <3>1. many = few
      BY <2>4
    <3>2. Copies(q, SetToBag({r})) = 0
      BY <2>4, BagOfOne
    <3> HIDE DEF few, many
    <3> QED BY <2>1, <2>2, <3>1, <3>2
  <2> QED BY <2>3, <2>4
<1>4. IsABag(Values(f) (+) SetToBag({r}))
      /\ \A q : Copies(q, Values(f) (+) SetToBag({r})) = Copies(q, Values(f)) + Copies(q, SetToBag({r}))
  BY <1>2, UnionOfBags
<1> QED BY <1>2, <1>3, <1>4, BagsEqual

LEMMA UnionAssociates ==
  ASSUME NEW A, NEW B, NEW C, IsABag(A), IsABag(B), IsABag(C)
  PROVE  (A (+) B) (+) C = A (+) (B (+) C)
<1>1. IsABag(A (+) B) /\ IsABag(B (+) C) /\ IsABag((A (+) B) (+) C) /\ IsABag(A (+) (B (+) C))
  BY UnionOfBags
<1>2. ASSUME NEW r PROVE Copies(r, (A (+) B) (+) C) = Copies(r, A (+) (B (+) C))
  <2>1. Copies(r, A) \in Nat /\ Copies(r, B) \in Nat /\ Copies(r, C) \in Nat
    BY CopiesNatural
  <2>2. /\ Copies(r, A (+) B) = Copies(r, A) + Copies(r, B)
        /\ Copies(r, B (+) C) = Copies(r, B) + Copies(r, C)
    BY UnionOfBags
  <2>3. Copies(r, (A (+) B) (+) C) = Copies(r, A (+) B) + Copies(r, C)
    BY <1>1, UnionOfBags
  <2>4. Copies(r, A (+) (B (+) C)) = Copies(r, A) + Copies(r, B (+) C)
    BY <1>1, UnionOfBags
  <2> QED BY <2>1, <2>2, <2>3, <2>4
<1> QED BY <1>1, <1>2, BagsEqual

\* What is added and taken away again is gone.
LEMMA AddedAndTaken ==
  ASSUME NEW A, IsABag(A), NEW r
  PROVE  (A (+) SetToBag({r})) (-) SetToBag({r}) = A
<1> DEFINE B == A (+) SetToBag({r})
           C == [q \in DOMAIN B |-> IF q \in DOMAIN SetToBag({r}) THEN B[q] - SetToBag({r})[q] ELSE B[q]]
<1>1. \A q \in DOMAIN A : A[q] \in Nat /\ A[q] > 0
  BY DEF IsABag
<1>2. DOMAIN SetToBag({r}) = {r} /\ SetToBag({r})[r] = 1
  BY DEF SetToBag
<1>3. DOMAIN B = DOMAIN A \union {r}
      /\ \A q \in DOMAIN B : B[q] = (IF q \in DOMAIN A THEN A[q] ELSE 0) + (IF q = r THEN 1 ELSE 0)
  BY <1>2 DEF (+)
<1>4. B (-) SetToBag({r}) = [q \in {p \in DOMAIN C : C[p] > 0} |-> C[q]]
  BY DEF (-)
<1> HIDE DEF B
<1>5. DOMAIN C = DOMAIN A \union {r} /\ \A q \in DOMAIN C : C[q] = IF q \in DOMAIN A THEN A[q] ELSE 0
  BY <1>1, <1>2, <1>3
<1> HIDE DEF C
<1>6. {p \in DOMAIN C : C[p] > 0} = DOMAIN A
  BY <1>1, <1>5
<1>7. A = [q \in DOMAIN A |-> A[q]]
  BY DEF IsABag
<1> QED BY <1>4, <1>5, <1>6, <1>7 DEF B

\* Without the ranges of the devices of a list; those of the others stay.
LEMMA WithoutOwnersBag ==
  ASSUME NEW A, IsABag(A), NEW l
  PROVE  /\ IsABag(WithoutOwners(A, l))
         /\ Ranges(WithoutOwners(A, l)) = {r \in Ranges(A) : r.owner \notin Owners(l)}
         /\ \A r : Copies(r, WithoutOwners(A, l)) = IF r.owner \in Owners(l) THEN 0 ELSE Copies(r, A)
<1> DEFINE C == WithoutOwners(A, l)
<1>1. DOMAIN C = {r \in DOMAIN A : r.owner \notin Owners(l)} /\ C = [r \in DOMAIN C |-> A[r]]
  BY DEF WithoutOwners, Ranges, BagToSet, Owners
<1>2. \A r \in DOMAIN C : C[r] = A[r]
  BY <1>1
<1>3. \A r \in DOMAIN A : A[r] \in {n \in Nat : n > 0}
  BY DEF IsABag
<1> HIDE DEF C
<1>4. C \in [DOMAIN C -> {n \in Nat : n > 0}]
  BY <1>1, <1>3
<1> QED BY <1>1, <1>2, <1>4 DEF C, IsABag, Ranges, BagToSet, Copies

LEMMA WithoutSameOwners ==
  ASSUME NEW A, NEW l, NEW m, Owners(l) = Owners(m)
  PROVE  WithoutOwners(A, l) = WithoutOwners(A, m)
<1>1. WithoutOwners(A, l) = [r \in {r \in Ranges(A) : r.owner \notin Owners(l)} |-> A[r]]
  BY DEF WithoutOwners, Owners
<1>2. WithoutOwners(A, m) = [r \in {r \in Ranges(A) : r.owner \notin Owners(m)} |-> A[r]]
  BY DEF WithoutOwners, Owners
<1> QED BY <1>1, <1>2

-----------------------------------------------------------------------------
(* Requests, their priorities and their windows.                           *)

\* What is in the lists of requirements.
Request == UNION {{l[i] : i \in DOMAIN l} : l \in Lists}

\* What an alternative asks for.
Sensible(alt) ==
  /\ alt \in Alternative
  /\ alt.min <= alt.max /\ alt.len <= alt.max - alt.min + 1
  /\ alt.len # 0 => alt.align <= alt.len

LEMMA RequestType ==
  ASSUME NEW e \in Request
  PROVE  /\ e.alts \in Seq(Alternative) /\ e.owner \in Device
         /\ \A k \in DOMAIN e.alts :
              /\ Sensible(e.alts[k])
              /\ e.alts[k].prefetchable = e.alts[1].prefetchable /\ e.alts[k].readOnly = e.alts[1].readOnly
<1>1. PICK l \in Lists : \E i \in DOMAIN l : e = l[i]
  BY DEF Request
<1>2. PICK i \in DOMAIN l : e = l[i]
  BY <1>1
<1>3. IsEntry(e)
  BY <1>2, ArbiterAssumption
<1>4. e.alts \in Seq(Alternative)
  BY <1>3 DEF IsEntry
<1>5. \A k \in DOMAIN e.alts : e.alts[k] \in Alternative
  BY <1>4
<1>6. \A k \in DOMAIN e.alts : e.alts[k].len # 0 => e.alts[k].align <= e.alts[k].len
  BY <1>2, NaturalAlignment
<1>7. e.owner \in Owners(l)
  BY <1>2 DEF Owners
<1>8. e.owner \in Device
  BY <1>7 DEF Device
<1>9. \A k \in DOMAIN e.alts :
        /\ e.alts[k].min <= e.alts[k].max /\ e.alts[k].len <= e.alts[k].max - e.alts[k].min + 1
        /\ e.alts[k].prefetchable = e.alts[1].prefetchable /\ e.alts[k].readOnly = e.alts[1].readOnly
  BY <1>3 DEF IsEntry
<1> QED BY <1>4, <1>5, <1>6, <1>8, <1>9 DEF Sensible

\* A list that is tested and its sorted form have the same devices, and the
\* entries of both are requests.
LEMMA SortedList ==
  ASSUME NEW l \in Lists
  PROVE  Sorted(l) \in Seq(Request) /\ Owners(Sorted(l)) = Owners(l)
<1>1. l \in Seq({l[i] : i \in DOMAIN l})
  BY ArbiterAssumption
<1>2. {l[i] : i \in DOMAIN l} \subseteq Request
  BY DEF Request
<1>3. l \in Seq(Request)
  BY <1>1, <1>2
<1>4. \A i \in DOMAIN l : l[i] \in Request
  BY <1>2
<1>5. \A i \in DOMAIN l : l[i].alts \in Seq(Alternative)
  BY <1>4, RequestType
<1>6. /\ Sorted(l) \in Seq(Request) /\ DOMAIN Sorted(l) = DOMAIN l
      /\ \A n \in DOMAIN l : \E j \in DOMAIN l : Sorted(l)[n] = l[j]
      /\ \A j \in DOMAIN l : \E n \in DOMAIN l : Sorted(l)[n] = l[j]
  BY <1>3, <1>5, SortedPermutes
<1>7. Owners(Sorted(l)) = Owners(l)
  <2> DEFINE s == Sorted(l)
  <2>1. DOMAIN s = DOMAIN l
    BY <1>6
  <2>2. \A n \in DOMAIN l : \E j \in DOMAIN l : s[n].owner = l[j].owner
    BY <1>6
  <2>3. \A j \in DOMAIN l : \E n \in DOMAIN l : s[n].owner = l[j].owner
    BY <1>6
  <2> HIDE DEF s
  <2>4. ASSUME NEW o \in Owners(s) PROVE o \in Owners(l)
    <3>1. PICK n \in DOMAIN l : o = s[n].owner
      BY <2>1 DEF Owners
    <3>2. PICK j \in DOMAIN l : o = l[j].owner
      BY <2>2, <3>1
    <3> QED BY <3>2 DEF Owners
  <2>5. ASSUME NEW o \in Owners(l) PROVE o \in Owners(s)
    <3>1. PICK j \in DOMAIN l : o = l[j].owner
      BY DEF Owners
    <3>2. PICK n \in DOMAIN s : o = s[n].owner
      BY <2>1, <2>3, <3>1
    <3> QED BY <3>2 DEF Owners
  <2> QED BY <2>4, <2>5 DEF s
<1> QED BY <1>6, <1>7

\* What wants a place is a request with alternatives, of a device of the list.
LEMMA WantedRequest ==
  ASSUME NEW l \in Seq(Request), NEW i \in DOMAIN Wanting(l)
  PROVE  /\ Wanting(l)[i] \in Request /\ Wanting(l)[i].owner \in Owners(l)
         /\ Wanting(l)[i].alts # <<>>
<1> DEFINE W == {l[j] : j \in {j \in DOMAIN l : l[j].alts # <<>>}}
<1>1. Wanting(l) \in Seq(W)
  BY WantingType
<1>2. Wanting(l)[i] \in W
  <2> HIDE DEF W
  <2> QED BY <1>1
<1>3. PICK j \in DOMAIN l : Wanting(l)[i] = l[j] /\ l[j].alts # <<>>
  BY <1>2
<1> QED BY <1>3 DEF Owners

\* An address rounded down to a multiple.
LEMMA RoundedDown ==
  ASSUME NEW x \in Nat, NEW d \in Nat \ {0}
  PROVE  /\ x % d \in Int /\ 0 <= x % d /\ x % d <= d - 1
         /\ x - (x % d) \in Int /\ x - (x % d) >= 0 /\ x - (x % d) <= x
         /\ (x - (x % d)) % d = 0
<1>1. x % d \in 0..(d - 1)
  OBVIOUS
<1>2. x % d <= x
  <2>1. CASE x < d
    <3>1. x % d = x
      BY <2>1
    <3> QED BY <3>1
  <2>2. CASE x >= d
    BY <1>1, <2>2
  <2> QED BY <2>1, <2>2
<1>3. (x - (x % d)) % d = 0
  <2>1. x \div d \in Int /\ x - (x % d) = d * (x \div d)
    OBVIOUS
  <2>2. \A q \in Int : (d * q) % d = 0
    OBVIOUS
  <2> QED BY <2>1, <2>2
<1> QED BY <1>1, <1>2, <1>3

LEMMA AlternativeType ==
  ASSUME NEW alt, Sensible(alt)
  PROVE  /\ Top \in Nat
         /\ alt.min \in Int /\ alt.max \in Int /\ alt.len \in Int /\ alt.align \in Nat \ {0}
         /\ 0 <= alt.min /\ alt.min <= alt.max /\ alt.max <= Top /\ 0 <= alt.len
         /\ alt.len <= alt.max - alt.min + 1
         /\ alt.len # 0 => alt.align <= alt.len
         /\ alt.shared \in BOOLEAN
BY ArbiterAssumption DEF Sensible, Alternative, Address

\* What is fixed is as long as its window.
LEMMA FixedFills ==
  ASSUME NEW alt, Sensible(alt), alt.len # 0, IsFixed(alt)
  PROVE  alt.len = alt.max - alt.min + 1
<1> DEFINE size == alt.max - alt.min + 1
<1>1. /\ Top \in Nat /\ alt.len \in Int /\ size \in Int
      /\ 0 < alt.len /\ alt.len <= size /\ size <= N
      /\ size % N = alt.len % N
  BY AlternativeType DEF IsFixed, N
<1>2. size \in Int
  BY <1>1
<1> HIDE DEF size
<1>3. CASE alt.len = N
  BY <1>1, <1>3 DEF size
<1>4. CASE alt.len # N /\ size = N
  <2>1. N \in Nat \ {0} /\ N % N = 0 /\ alt.len \in 1..(N - 1)
    BY <1>1, <1>4 DEF N
  <2>2. alt.len % N = alt.len
    BY <2>1
  <2> QED BY <1>1, <1>4, <2>1, <2>2
<1>5. CASE alt.len # N /\ size # N
  <2>1. N \in Nat \ {0} /\ alt.len \in 1..(N - 1) /\ size \in 1..(N - 1)
    BY <1>1, <1>5 DEF N
  <2>2. alt.len % N = alt.len /\ size % N = size
    BY <2>1
  <2> QED BY <1>1, <2>2 DEF size
<1> QED BY <1>3, <1>4, <1>5

\* A priority stands for reserved ranges, for nothing, or for an ordering that
\* has room for the alternative.
IsPriority(alt, p, orderings) ==
  \/ p = PRIORITY_EXHAUSTED
  \/ p = (IF alt.preferred THEN PRIORITY_PREFERRED_RESERVED ELSE PRIORITY_RESERVED)
  \/ LET i == IF p < 0 THEN -p ELSE p
     IN  /\ i \in DOMAIN orderings
         /\ p < 0 <=> alt.preferred
         /\ Min({alt.max, orderings[i].end}) - Max({alt.min, orderings[i].start}) + 1 >= alt.len

LEMMA UpdatePriorityType ==
  ASSUME NEW alt, Sensible(alt), NEW orderings \in Seq(WindowType), NEW p \in Int
  PROVE  /\ UpdatePriority(alt, p, orderings) \in Int
         /\ IsPriority(alt, UpdatePriority(alt, p, orderings), orderings)
<1> DEFINE tried == IF p < 0 THEN -p ELSE p
           room(i) == Min({alt.max, orderings[i].end}) - Max({alt.min, orderings[i].start}) + 1 >= alt.len
           fits == {i \in tried + 1 .. Len(orderings) :
                      LET o == orderings[i] IN
                        /\ Overlap(alt.min, alt.max, o.start, o.end)
                        /\ Min({alt.max, o.end}) - Max({alt.min, o.start}) + 1 >= alt.len}
           u == UpdatePriority(alt, p, orderings)
<1>1. \/ u = PRIORITY_EXHAUSTED
      \/ fits = {} /\ u = IF alt.preferred THEN PRIORITY_PREFERRED_RESERVED ELSE PRIORITY_RESERVED
      \/ fits # {} /\ u = IF alt.preferred THEN -Min(fits) ELSE Min(fits)
  BY Zenon DEF UpdatePriority
<1>2. fits \in SUBSET Int /\ \A x \in fits : 1 <= x /\ x \in DOMAIN orderings /\ room(x)
  <2>1. \A x \in fits : x \in Int /\ 1 <= x /\ x <= Len(orderings) /\ room(x)
    OBVIOUS
  <2> QED BY <2>1
<1> HIDE DEF fits, room, u
<1>3. CASE fits # {} /\ u = IF alt.preferred THEN -Min(fits) ELSE Min(fits)
  <2>1. Min(fits) \in fits
    BY <1>2, <1>3, MinOfBounded
  <2> DEFINE m == Min(fits)
  <2>2. m \in Int /\ 1 <= m /\ m \in DOMAIN orderings /\ room(m)
    BY <1>2, <2>1
  <2> HIDE DEF m
  <2>3. u = IF alt.preferred THEN -m ELSE m
    BY <1>3 DEF m
  <2>4. u \in Int /\ (u < 0 <=> alt.preferred) /\ (IF u < 0 THEN -u ELSE u) = m
    BY <2>2, <2>3
  <2>5. IsPriority(alt, u, orderings)
    BY <2>2, <2>4 DEF IsPriority, room
  <2> QED BY <2>4, <2>5 DEF u
<1>4. CASE u = PRIORITY_EXHAUSTED
  BY <1>4 DEF IsPriority, u, PRIORITY_EXHAUSTED
<1>5. CASE u = IF alt.preferred THEN PRIORITY_PREFERRED_RESERVED ELSE PRIORITY_RESERVED
  BY <1>5 DEF IsPriority, u, PRIORITY_PREFERRED_RESERVED, PRIORITY_RESERVED
<1> QED BY <1>1, <1>3, <1>4, <1>5

\* The part of an ordering that a priority stands for lies in both windows and
\* has room; a fixed requirement is tried where it asks to be.
LEMMA UntrimmedWindow ==
  ASSUME NEW alt, Sensible(alt), OrderingList(Entry) \in Seq(WindowType),
         NEW p \in Int, IsPriority(alt, p, OrderingList(Entry)), p # PRIORITY_EXHAUSTED
  PROVE  LET w == Untrimmed(alt, p) IN
         /\ w = Window(w.start, w.end) /\ w.start \in Address /\ w.end \in Address
         /\ alt.min <= w.start /\ w.end <= alt.max
         /\ alt.len # 0 => alt.len <= w.end - w.start + 1
         /\ alt.len # 0 /\ p < PRIORITY_PREFERRED_RESERVED =>
              \E o \in {OrderingList(Entry)[i] : i \in DOMAIN OrderingList(Entry)} :
                o.start <= w.start /\ w.end <= o.end
<1> DEFINE orderings == OrderingList(Entry)
           i == IF p < 0 THEN -p ELSE p
           o == orderings[i]
           w == Untrimmed(alt, p)
<1>1. /\ Top \in Nat /\ alt.min \in Int /\ alt.max \in Int /\ alt.len \in Int
      /\ 0 <= alt.min /\ alt.min <= alt.max /\ alt.max <= Top /\ 0 <= alt.len
      /\ alt.len <= alt.max - alt.min + 1
  BY AlternativeType
<1>2. CASE p >= PRIORITY_PREFERRED_RESERVED \/ alt.len = 0
  <2>1. w = Window(alt.min, alt.max)
    BY <1>2 DEF Untrimmed
  <2>2. w.start = alt.min /\ w.end = alt.max /\ w = Window(w.start, w.end)
    BY <2>1 DEF Window
  <2>3. w.start \in Address /\ w.end \in Address
    BY <1>1, <2>2 DEF Address
  <2> HIDE DEF w
  <2> QED BY <1>1, <1>2, <2>2, <2>3 DEF w, PRIORITY_PREFERRED_RESERVED
<1>3. CASE ~(p >= PRIORITY_PREFERRED_RESERVED \/ alt.len = 0)
  <2>1. /\ i \in DOMAIN orderings
        /\ Min({alt.max, o.end}) - Max({alt.min, o.start}) + 1 >= alt.len
    BY <1>3 DEF IsPriority, PRIORITY_PREFERRED_RESERVED, PRIORITY_RESERVED, PRIORITY_EXHAUSTED
  <2>2. o \in WindowType
    BY <2>1
  <2>3. o.start \in Int /\ o.end \in Int /\ 0 <= o.start /\ o.start <= Top /\ 0 <= o.end /\ o.end <= Top
    <3> HIDE DEF o
    <3>1. o.start \in Address /\ o.end \in Address
      BY <2>2 DEF WindowType
    <3> QED BY <1>1, <3>1 DEF Address
  <2>4. w = Window(Max({alt.min, o.start}), Min({alt.max, o.end}))
    BY <1>3 DEF Untrimmed
  <2> DEFINE s == Max({alt.min, o.start})
             e == Min({alt.max, o.end})
  <2>5. /\ s = IF alt.min <= o.start THEN o.start ELSE alt.min
        /\ e = IF alt.max <= o.end THEN alt.max ELSE o.end
    BY <1>1, <2>3, MinMaxOfTwo
  <2>6. w.start = s /\ w.end = e /\ w = Window(w.start, w.end)
    BY <2>4 DEF Window
  <2>7. o \in {orderings[j] : j \in DOMAIN orderings}
    BY <2>1
  <2> HIDE DEF s, e, w, orderings, i
  <2>8. s \in Int /\ e \in Int /\ 0 <= s /\ s <= Top /\ 0 <= e /\ e <= Top
        /\ alt.min <= s /\ e <= alt.max /\ o.start <= s /\ e <= o.end
    <3> DEFINE a == o.start
               b == o.end
    <3>1. /\ a \in Int /\ b \in Int /\ 0 <= a /\ a <= Top /\ 0 <= b /\ b <= Top
          /\ s = IF alt.min <= a THEN a ELSE alt.min
          /\ e = IF alt.max <= b THEN alt.max ELSE b
      BY <2>3, <2>5
    <3> HIDE DEF a, b, o
    <3>2. s \in Int /\ 0 <= s /\ s <= Top /\ alt.min <= s /\ a <= s
      BY <1>1, <3>1
    <3>3. e \in Int /\ 0 <= e /\ e <= Top /\ e <= alt.max /\ e <= b
      BY <1>1, <3>1
    <3> QED BY <3>2, <3>3 DEF a, b
  <2>9. s \in Address /\ e \in Address
    BY <1>1, <2>8 DEF Address
  <2>10. alt.len <= e - s + 1
    BY <2>1, <2>8, <1>1 DEF s, e
  <2> QED BY <2>6, <2>7, <2>8, <2>9, <2>10 DEF w, orderings
<1> QED BY <1>2, <1>3

\* Trimming a window with room keeps to it, begins with a whole place, and
\* leaves a window of just one place as it is; nothing wraps around.
LEMMA TrimmedWindow ==
  ASSUME NEW alt, Sensible(alt), alt.len # 0,
         NEW s \in Address, NEW e \in Address, alt.len <= e - s + 1,
         ~CannotBeAligned(alt, Window(s, e))
  PROVE  LET t == Trimmed(alt, Window(s, e)) IN
         /\ t = Window(t.start, t.end) /\ t.start \in Address /\ t.end \in Address
         /\ s <= t.start /\ t.end <= e
         /\ t.start % alt.align = 0
         /\ alt.len = e - s + 1 => t.start = s /\ t.end = e
<1> DEFINE d == alt.align
           t == Trimmed(alt, Window(s, e))
           up == s + d - 1
           last == e - (alt.len - 1)
<1>1. /\ Top \in Nat /\ alt.len \in Int /\ 0 < alt.len
      /\ d \in Nat \ {0} /\ d \in Int /\ 1 <= d /\ d <= alt.len
  BY AlternativeType
<1>2. s \in Int /\ 0 <= s /\ s <= Top /\ e \in Int /\ 0 <= e /\ e <= Top
  BY <1>1 DEF Address
<1>3. Window(s, e).start = s /\ Window(s, e).end = e
  BY DEF Window
<1> HIDE DEF d
<1>4. up \in Nat /\ s <= up /\ up <= e /\ up \in 0..Top
  BY <1>1, <1>2
<1>5. last \in Nat /\ s <= last /\ last <= e /\ last \in 0..Top
  BY <1>1, <1>2
<1>6. \A x \in 0..Top : x % N = x
  BY <1>1 DEF N
<1>7. t = Window((up % N) - ((up % N) % d), ((last % N) - ((last % N) % d) + alt.len - 1) % N)
  BY <1>1, <1>3 DEF Trimmed, d
<1> DEFINE a == up - (up % d)
           b == last - (last % d)
<1> HIDE DEF up, last, t
<1>8. t = Window(a, (b + alt.len - 1) % N)
  BY <1>4, <1>5, <1>6, <1>7
<1>9. a \in Int /\ 0 <= a /\ a <= up /\ up - a <= d - 1 /\ a % d = 0
  <2>1. up % d \in Int /\ up % d <= d - 1 /\ a \in Int /\ a >= 0 /\ a <= up /\ a % d = 0
    BY <1>1, <1>4, RoundedDown
  <2> QED BY <1>4, <2>1
<1>10. b \in Int /\ 0 <= b /\ b <= last /\ (last % d = 0 => b = last)
  <2>1. last % d \in Int /\ b \in Int /\ b >= 0 /\ b <= last
    BY <1>1, <1>5, RoundedDown
  <2> QED BY <1>5, <2>1
<1> HIDE DEF a, b
<1>11. s <= a /\ a <= e /\ a \in Address
  BY <1>1, <1>2, <1>4, <1>9 DEF up, Address
<1>12. b + alt.len - 1 \in 0..Top /\ b + alt.len - 1 <= e
  BY <1>1, <1>2, <1>5, <1>10 DEF last
<1>13. t = Window(a, b + alt.len - 1)
  BY <1>6, <1>8, <1>12
<1>14. t.start = a /\ t.end = b + alt.len - 1 /\ t = Window(t.start, t.end)
  BY <1>13 DEF Window
<1>15. alt.len - 1 <= (e - a) % N
  <2>1. Trimmed(alt, Window(s, e)).start = a
    BY <1>14 DEF t
  <2>2. ~(alt.len - 1 > (e - a) % N)
    BY <1>1, <1>3, <2>1 DEF CannotBeAligned
  <2>3. e - a \in 0..Top
    BY <1>1, <1>2, <1>9, <1>11
  <2>4. (e - a) % N = e - a
    BY <1>6, <2>3
  <2> QED BY <1>1, <1>2, <1>9, <2>2, <2>4
<1>16. e - a \in 0..Top /\ alt.len - 1 <= e - a
  <2>1. e - a \in 0..Top
    BY <1>1, <1>2, <1>9, <1>11
  <2> QED BY <1>6, <1>15, <2>1
<1>17. ASSUME alt.len = e - s + 1 PROVE a = s /\ b + alt.len - 1 = e
  <2>1. a = s /\ last = s
    BY <1>1, <1>2, <1>9, <1>11, <1>16, <1>17 DEF last
  <2>2. b = last
    BY <1>9, <1>10, <2>1
  <2> QED BY <1>1, <1>2, <1>17, <2>1, <2>2
<1>18. b + alt.len - 1 \in Address
  BY <1>12 DEF Address
<1>19. /\ t.start \in Address /\ t.end \in Address /\ s <= t.start /\ t.end <= e
       /\ t.start % d = 0 /\ (alt.len = e - s + 1 => t.start = s /\ t.end = e)
  BY <1>9, <1>11, <1>12, <1>14, <1>17, <1>18
<1> QED BY <1>14, <1>19 DEF t, d

\* An alternative with the lowest priority.
LEMMA LowestType ==
  ASSUME NEW n \in Nat \ {0}, NEW prio \in [1..n -> Int], NEW k \in Lowest(prio)
  PROVE  k \in 1..n
<1> DEFINE least == {i \in DOMAIN prio : \A j \in DOMAIN prio : prio[i] <= prio[j]}
           S == {prio[i] : i \in 1..n}
<1>1. \E m \in S : \A x \in S : m <= x
  <2> DEFINE T == {i \in 0..n : i = 0 \/ \E m \in 1..i : \A j \in 1..i : prio[m] <= prio[j]}
  <2>1. 0 \in T
    OBVIOUS
  <2>2. ASSUME NEW i \in 1..n, i - 1 \in T PROVE i \in T
    <3>1. CASE i = 1
      <4>1. \A j \in 1..1 : prio[1] <= prio[j]
        <5>1. \A j \in 1..1 : j = 1
          OBVIOUS
        <5>2. 1 \in 1..n /\ prio[1] \in Int
          OBVIOUS
        <5> QED BY <5>1, <5>2
      <4> QED BY <3>1, <4>1
    <3>2. CASE i # 1
      <4>1. i - 1 # 0
        BY <3>2
      <4>2. PICK m \in 1..(i - 1) : \A j \in 1..(i - 1) : prio[m] <= prio[j]
        BY <2>2, <4>1
      <4>3. m \in 1..n /\ prio[m] \in Int /\ prio[i] \in Int /\ m \in 1..i /\ i \in 1..i
        OBVIOUS
      <4>4. \A j \in 1..i : j = i \/ j \in 1..(i - 1)
        OBVIOUS
      <4>5. \A j \in 1..i : prio[j] \in Int
        OBVIOUS
      <4>6. CASE prio[m] <= prio[i]
        <5>1. \A j \in 1..i : prio[m] <= prio[j]
          BY <4>2, <4>4, <4>6
        <5> QED BY <4>3, <5>1
      <4>7. CASE ~(prio[m] <= prio[i])
        <5>1. ASSUME NEW j \in 1..i PROVE prio[i] <= prio[j]
          <6>1. prio[i] \in Int /\ prio[m] \in Int /\ prio[j] \in Int
            BY <4>3, <4>5
          <6>2. j = i \/ prio[m] <= prio[j]
            BY <4>2, <4>4
          <6> QED BY <4>7, <6>1, <6>2
        <5> QED BY <4>3, <5>1
      <4> QED BY <4>6, <4>7
    <3> QED BY <3>1, <3>2
  <2>3. 0..n \subseteq T
    <3> HIDE DEF T
    <3> QED BY <2>1, <2>2, UpTo
  <2>4. n \in T /\ n # 0
    <3>1. n \in 0..n
      OBVIOUS
    <3> HIDE DEF T
    <3> QED BY <2>3, <3>1
  <2>5. PICK m \in 1..n : \A j \in 1..n : prio[m] <= prio[j]
    BY <2>4
  <2> QED BY <2>5
<1>2. least # {}
  BY <1>1
<1>3. least \in SUBSET Int /\ \A x \in least : 1 <= x /\ x \in 1..n
  OBVIOUS
<1>4. Min(least) \in least
  <2> HIDE DEF least
  <2> QED BY <1>2, <1>3, MinOfBounded
<1>5. k = Min(least)
  BY Zenon DEF Lowest
<1> HIDE DEF least
<1> QED BY <1>3, <1>4, <1>5


-----------------------------------------------------------------------------
(* The inductive invariant.                                                *)

RangeBag(bag) == IsABag(bag) /\ \A r \in Ranges(bag) : IsRange(r)

\* The entry of a level of the stack, and the alternative tried for it.
EntryAt(i) == Wanting(list)[i]
AlternativeAt(i) == EntryAt(i).alts[stack[i].cur]

\* The levels whose entries have a place: those below the current one, and that
\* one when the search is about to give its place back.
Settled == 1..(IF backtracking THEN level ELSE level - 1)

\* The variables have their types, those of a search while it goes on.
TypeInv ==
  /\ RangeBag(allocation) /\ RangeBag(possible)
  /\ windows \in WindowSets \union {<<>>}
  /\ NormalOrderingList = (IF windows = <<>> THEN <<>> ELSE Normal(windows))
  /\ PrefetchableOrderingList = (IF windows = <<>> THEN <<>> ELSE Prefetched(windows))
  /\ TransactionInProgress \in BOOLEAN /\ backtracking \in BOOLEAN
  /\ booted \subseteq BootLists
  /\ list \in Seq(Request) /\ tested \in Seq(Request)
  /\ pc \in {"idle", "enter", "next", "find", "fail"}
  /\ pc = "idle" => level = 0 /\ stack = <<>> /\ ~backtracking

Frame == [cur : Nat, lo : Int, hi : Int, start : Int, end : Int, prio : Seq(Int)]

\* A search goes through the levels of its stack, one for each entry that wants
\* something; every level it has settled has an alternative.
StackInv ==
  pc # "idle" =>
    /\ ~TransactionInProgress
    /\ stack \in Seq(Frame) /\ Len(stack) = Len(Wanting(list)) /\ level \in 1..Len(stack)
    /\ \A i \in 1..Len(stack) :
         stack[i].cur \in 0..Len(EntryAt(i).alts) /\ DOMAIN stack[i].prio = DOMAIN EntryAt(i).alts
    /\ backtracking => pc = "enter" /\ level < Len(stack)
    /\ pc = "find" => stack[level].cur # 0
    /\ \A i \in Settled : stack[i].cur # 0

PriorityInv ==
  pc # "idle" =>
    \A i \in 1..Len(stack) : stack[i].cur # 0 =>
      \A k \in DOMAIN EntryAt(i).alts :
        IsPriority(EntryAt(i).alts[k], stack[i].prio[k], OrderingList(EntryAt(i)))

\* The prefetchable windows are kept from this alternative of an entry.
KeptFromWindows(e, alt) ==
  alt.len # 0 /\ ~alt.prefetchable /\ ~alt.preferred /\ e.source # "legacyReported"

\* A window lies within what the alternative asks for; a fixed one is tried as
\* it is; other memory is not tried in the prefetchable windows.
WindowInv(e, alt, x) ==
  /\ x.lo \in Address /\ x.hi \in Address
  /\ alt.min <= x.lo /\ x.hi <= alt.max
  /\ alt.len # 0 => x.lo % alt.align = 0
  /\ alt.len # 0 /\ IsFixed(alt) /\ x.lo <= x.hi => x.lo = alt.min /\ x.hi = alt.max
  /\ KeptFromWindows(e, alt) =>
       \A n \in DOMAIN windows : x.hi < windows[n].start \/ windows[n].end < x.lo

PlaceInv(alt, x) ==
  /\ x.lo <= x.start
  /\ alt.len = 0 => x.start = x.lo /\ x.start <= x.hi
  /\ alt.len # 0 => x.start % alt.align = 0 /\ x.end = x.start + alt.len - 1 /\ x.end <= x.hi

WindowsInv ==
  pc # "idle" =>
    /\ \A i \in Settled \union {j \in {level} : pc = "find"} : WindowInv(EntryAt(i), AlternativeAt(i), stack[i])
    /\ \A i \in Settled : PlaceInv(AlternativeAt(i), stack[i])

\* What the frames of some levels hold for their entries.
HeldRange(e, x) == RangeOf(e, e.alts[x.cur], Attributes(e), x.start, x.end)
HeldBag(entries, frames, levels) ==
  Values([i \in {i \in levels : entries[i].alts[frames[i].cur].len # 0} |-> HeldRange(entries[i], frames[i])])

\* While a search goes on the copy is what the other devices have and what the
\* settled levels hold.
CopyInv ==
  pc # "idle" => possible = WithoutOwners(allocation, list) (+) HeldBag(Wanting(list), stack, Settled)

\* Two ranges may be allocated side by side.
Compatible(q, r) ==
  q.owner # r.owner /\ Overlap(q.start, q.end, r.start, r.end) =>
    \/ q.shared /\ r.shared
    \/ "bootAllocated" \in q.attributes \union r.attributes
    \/ "alias" \in q.attributes \intersect r.attributes /\ (AskedAsAlias(q) \/ AskedAsAlias(r))

Exclusive(bag) == \A q, r \in Ranges(bag) : Compatible(q, r)

\* What has been assigned, as ranges.
Holding == {i \in DOMAIN assigned : assigned[i].alt.len # 0}
RangeAssigned(x) == RangeAt(x.entry, x.alt, Attributes(x.entry), x.start)

\* An assignment is that of the list it was tested for; it stays compatible
\* with what the other devices have until that changes.
AssignedInv ==
  /\ assigned \in Seq([entry : Request, alt : Alternative, start : Address])
  /\ \A i \in DOMAIN assigned : assigned[i].entry.owner \in Owners(tested)
  /\ AssignedAsAsked
  /\ \A i \in DOMAIN assigned : \A n \in DOMAIN windows :
       KeptFromWindows(assigned[i].entry, assigned[i].alt) =>
         ~Overlap(assigned[i].start, assigned[i].start + assigned[i].alt.len - 1, windows[n].start, windows[n].end)
  /\ \A i \in Holding :
       /\ \A q \in Ranges(WithoutOwners(allocation, tested)) : Compatible(q, RangeAssigned(assigned[i]))
       /\ \A j \in Holding : Compatible(RangeAssigned(assigned[i]), RangeAssigned(assigned[j]))

TransactionInv ==
  /\ TransactionInProgress => list = tested
  /\ CopyIsTheAssignment

ArbiterInv ==
  /\ TypeInv /\ StackInv /\ PriorityInv /\ WindowsInv /\ CopyInv
  /\ Exclusive(allocation) /\ Exclusive(possible)
  /\ AssignedInv /\ TransactionInv

-----------------------------------------------------------------------------
(* Lemmas about the invariant.                                             *)

\* The list an entry is placed by is one of windows; other memory is not looked
\* for in the prefetchable windows.
LEMMA OrderingListType ==
  ASSUME TypeInv, NEW e
  PROVE  /\ OrderingList(e) \in Seq(WindowType)
         /\ windows # <<>> => Len(OrderingList(e)) < PRIORITY_PREFERRED_RESERVED \/ e.source = "legacyReported"
         /\ windows # <<>> /\ e.source # "legacyReported" /\ ~e.alts[1].prefetchable =>
              OrderingList(e) \in Seq(Clear({windows[n] : n \in DOMAIN windows}))
<1>1. CASE windows = <<>>
  <2>1. OrderingList(e) = DefaultOrdering
    BY <1>1 DEF OrderingList, HasPrefetchableResource
  <2>2. DefaultOrdering \in Seq(WindowType)
    BY ArbiterAssumption DEF IsOrdering, WindowType
  <2> QED BY <1>1, <2>1, <2>2
<1>2. CASE windows # <<>>
  <2>1. windows \in WindowSets
    BY <1>2 DEF TypeInv
  <2>2. NormalOrderingList = Normal(windows) /\ PrefetchableOrderingList = Prefetched(windows)
    BY <1>2 DEF TypeInv
  <2>3. \/ e.source = "legacyReported" /\ OrderingList(e) = DefaultOrdering
        \/ e.alts[1].prefetchable /\ OrderingList(e) = Prefetched(windows)
        \/ OrderingList(e) = Normal(windows)
    BY <1>2, <2>2 DEF OrderingList, HasPrefetchableResource
  <2>4. /\ DefaultOrdering \in Seq(WindowType)
        /\ Normal(windows) \in Seq(Clear({windows[n] : n \in DOMAIN windows})) /\ Normal(windows) \in Seq(WindowType)
        /\ Prefetched(windows) \in Seq(WindowType)
    BY <2>1, OrderingTypes
  <2>5. Len(Normal(windows)) < PRIORITY_PREFERRED_RESERVED /\ Len(Prefetched(windows)) < PRIORITY_PREFERRED_RESERVED
    BY <2>1, OrderingAssumption
  <2> QED BY <2>3, <2>4, <2>5, Zenon
<1> QED BY <1>1, <1>2

\* The entries of the stack are requests with alternatives, of the list's devices.
LEMMA EntryType ==
  ASSUME list \in Seq(Request), NEW i \in 1..Len(Wanting(list))
  PROVE  /\ EntryAt(i) \in Request /\ EntryAt(i).owner \in Owners(list) /\ EntryAt(i).owner \in Device
         /\ Len(EntryAt(i).alts) \in Nat \ {0} /\ DOMAIN EntryAt(i).alts = 1..Len(EntryAt(i).alts)
         /\ \A k \in 1..Len(EntryAt(i).alts) :
              /\ Sensible(EntryAt(i).alts[k])
              /\ EntryAt(i).alts[k].prefetchable = EntryAt(i).alts[1].prefetchable
              /\ EntryAt(i).alts[k].readOnly = EntryAt(i).alts[1].readOnly
<1> DEFINE e == Wanting(list)[i]
<1>1. i \in DOMAIN Wanting(list)
  <2>1. Wanting(list) \in Seq({list[j] : j \in {j \in DOMAIN list : list[j].alts # <<>>}})
    BY WantingType
  <2> QED BY <2>1
<1>2. e \in Request /\ e.owner \in Owners(list) /\ e.alts # <<>>
  BY <1>1, WantedRequest
<1> HIDE DEF e
<1>3. e.alts \in Seq(Alternative) /\ e.owner \in Device
      /\ \A k \in DOMAIN e.alts :
           /\ Sensible(e.alts[k])
           /\ e.alts[k].prefetchable = e.alts[1].prefetchable /\ e.alts[k].readOnly = e.alts[1].readOnly
  BY <1>2, RequestType
<1>4. Len(e.alts) \in Nat \ {0} /\ DOMAIN e.alts = 1..Len(e.alts)
  BY <1>2, <1>3
<1> QED BY <1>2, <1>3, <1>4 DEF EntryAt, e

\* What a frame holds is a range of the entry's.
LEMMA HeldIsRange ==
  ASSUME NEW e, e.owner \in Device, NEW alt, Sensible(alt), NEW s \in Address, NEW t, NEW a,
         alt.len # 0, t = s + alt.len - 1, t <= alt.max, a \subseteq {"alias", "bootAllocated"}
  PROVE  IsRange(RangeOf(e, alt, a, s, t))
<1>1. /\ Top \in Nat /\ s \in Int /\ 0 <= s /\ s <= Top /\ alt.len \in Int /\ 0 < alt.len
      /\ alt.max \in Int /\ alt.max <= Top /\ alt.shared \in BOOLEAN
  BY AlternativeType DEF Address
<1>2. t \in s..Top
  BY <1>1
<1> DEFINE r == RangeOf(e, alt, a, s, t)
<1>3. r.start = s /\ r.end = t /\ r.owner = e.owner /\ r.shared = alt.shared /\ r.attributes = a
  BY DEF RangeOf
<1> HIDE DEF r
<1> QED BY <1>1, <1>2, <1>3 DEF IsRange, r

LEMMA AttributesType ==
  ASSUME NEW e, NEW alts
  PROVE  AttributesFor(e, alts) \subseteq {"alias"}
BY DEF AttributesFor

-----------------------------------------------------------------------------
(* What the levels of a stack hold.                                        *)

\* Frames that agree on the levels hold the same.
SameHeld(f, g, levels) ==
  \A i \in levels : f[i].cur = g[i].cur /\ f[i].start = g[i].start /\ f[i].end = g[i].end

LEMMA HeldSame ==
  ASSUME NEW entries, NEW f, NEW g, NEW levels, SameHeld(f, g, levels)
  PROVE  HeldBag(entries, f, levels) = HeldBag(entries, g, levels)
<1> DEFINE F == [i \in {i \in levels : entries[i].alts[f[i].cur].len # 0} |-> HeldRange(entries[i], f[i])]
           G == [i \in {i \in levels : entries[i].alts[g[i].cur].len # 0} |-> HeldRange(entries[i], g[i])]
<1>1. F = G
  BY DEF HeldRange, SameHeld
<1>2. HeldBag(entries, f, levels) = Values(F) /\ HeldBag(entries, g, levels) = Values(G)
  BY DEF HeldBag
<1> QED BY <1>1, <1>2, Zenon

\* What the levels hold is a bag of their ranges.
RangesHeld(entries, f, levels) ==
  {HeldRange(entries[i], f[i]) : i \in {i \in levels : entries[i].alts[f[i].cur].len # 0}}

LEMMA HeldRanges ==
  ASSUME NEW entries, NEW f, NEW n \in Int
  PROVE  IsABag(HeldBag(entries, f, 1..n)) /\ Ranges(HeldBag(entries, f, 1..n)) = RangesHeld(entries, f, 1..n)
<1> DEFINE S == {i \in 1..n : entries[i].alts[f[i].cur].len # 0}
           F == [i \in S |-> HeldRange(entries[i], f[i])]
<1>1. IsFiniteSet(S)
  <2>1. S \subseteq 1..n /\ IsFiniteSet(1..n)
    BY FS_Interval
  <2> HIDE DEF S
  <2> QED BY <2>1, FS_Subset
<1>2. HeldBag(entries, f, 1..n) = Values(F)
  BY DEF HeldBag
<1>3. DOMAIN F = S /\ {F[i] : i \in DOMAIN F} = {HeldRange(entries[i], f[i]) : i \in S}
  OBVIOUS
<1> HIDE DEF F, S
<1>4. IsABag(Values(F)) /\ DOMAIN Values(F) = {F[i] : i \in DOMAIN F}
  BY <1>1, <1>3, ValuesBag
<1> QED BY <1>2, <1>3, <1>4 DEF Ranges, BagToSet, S, RangesHeld

\* One level more holds one range more, or nothing.
LEMMA HeldOneMore ==
  ASSUME NEW entries, NEW f, NEW n \in Nat \ {0}
  PROVE  HeldBag(entries, f, 1..n) =
           IF entries[n].alts[f[n].cur].len = 0 THEN HeldBag(entries, f, 1..(n - 1))
           ELSE HeldBag(entries, f, 1..(n - 1)) (+) SetToBag({HeldRange(entries[n], f[n])})
<1> DEFINE S == {i \in 1..n : entries[i].alts[f[i].cur].len # 0}
           T == {i \in 1..(n - 1) : entries[i].alts[f[i].cur].len # 0}
           F == [i \in S |-> HeldRange(entries[i], f[i])]
           G == [i \in T |-> HeldRange(entries[i], f[i])]
<1>1. HeldBag(entries, f, 1..n) = Values(F) /\ HeldBag(entries, f, 1..(n - 1)) = Values(G)
  BY DEF HeldBag
<1>2. \A i \in 1..n : i = n \/ i \in 1..(n - 1)
  OBVIOUS
<1>3. n \in 1..n /\ n \notin 1..(n - 1) /\ 1..(n - 1) \subseteq 1..n
  OBVIOUS
<1>4. CASE entries[n].alts[f[n].cur].len = 0
  <2>1. S = T
    BY <1>2, <1>3, <1>4
  <2>2. F = G
    BY <2>1
  <2> QED BY <1>1, <1>4, <2>2, Zenon
<1>5. CASE entries[n].alts[f[n].cur].len # 0
  <2>1. S = T \union {n} /\ n \notin T
    BY <1>2, <1>3, <1>5
  <2>2. DOMAIN F = S /\ DOMAIN G = T
    OBVIOUS
  <2>3. F[n] = HeldRange(entries[n], f[n]) /\ \A j \in T : F[j] = G[j]
    BY <2>1
  <2>4. T \subseteq 1..(n - 1) /\ IsFiniteSet(1..(n - 1))
    BY FS_Interval
  <2> HIDE DEF F, G, S, T
  <2>5. IsFiniteSet(T)
    BY <2>4, FS_Subset
  <2>6. Values(F) = Values(G) (+) SetToBag({HeldRange(entries[n], f[n])})
    BY <2>1, <2>2, <2>3, <2>5, ValuesExtended
  <2> QED BY <1>1, <1>5, <2>6 DEF F, G, S, T
<1> QED BY <1>4, <1>5

\* Nothing is held by no levels.
LEMMA HeldByNone ==
  ASSUME NEW A, IsABag(A), NEW f, DOMAIN f = {}
  PROVE  A (+) Values(f) = A
<1>1. IsFiniteSet(DOMAIN f)
  BY FS_EmptySet
<1>2. IsABag(Values(f)) /\ \A r : Copies(r, Values(f)) = Cardinality({i \in DOMAIN f : f[i] = r})
  BY <1>1, ValuesBag
<1>3. ASSUME NEW r PROVE Copies(r, Values(f)) = 0
  <2>1. {i \in DOMAIN f : f[i] = r} = {}
    OBVIOUS
  <2> QED BY <1>2, <2>1, FS_EmptySet
<1>4. IsABag(A (+) Values(f)) /\ \A r : Copies(r, A (+) Values(f)) = Copies(r, A) + Copies(r, Values(f))
  BY <1>2, UnionOfBags
<1>5. \A r : Copies(r, A (+) Values(f)) = Copies(r, A)
  <2>1. ASSUME NEW r PROVE Copies(r, A (+) Values(f)) = Copies(r, A)
    <3>1. Copies(r, A) \in Nat
      BY CopiesNatural
    <3> QED BY <1>3, <1>4, <3>1
  <2> QED BY <2>1
<1> QED BY <1>4, <1>5, BagsEqual

-----------------------------------------------------------------------------
(* A turn of the search.                                                   *)

\* The place found keeps to the window, and its range may lie beside what the
\* copy holds already.
LEMMA FoundPlace ==
  ASSUME Sensible(CurrentAlternative), WindowInv(Entry, CurrentAlternative, Current), NEW w \in Found,
         Entry \in Request, Current.cur \in DOMAIN Entry.alts, \A r \in Ranges(possible) : IsRange(r)
  PROVE  /\ w.start \in Address /\ w.end \in Int
         /\ Current.lo <= w.start
         /\ CurrentAlternative.len = 0 => w.start = Current.lo /\ w.start <= Current.hi
         /\ CurrentAlternative.len # 0 =>
              /\ w.start % CurrentAlternative.align = 0
              /\ w.end = w.start + CurrentAlternative.len - 1 /\ w.end <= Current.hi
              /\ \A r \in Ranges(possible) :
                   LET q == RangeOf(Entry, CurrentAlternative, Attributes(Entry), w.start, w.end)
                   IN  Compatible(q, r) /\ Compatible(r, q)
<1> DEFINE alt == CurrentAlternative
           lo == Current.lo
           hi == Current.hi
           places == Placements(Entry, alt, lo, hi)
           q == RangeOf(Entry, alt, Attributes(Entry), w.start, w.end)
<1>1. /\ Top \in Nat /\ alt.min \in Int /\ alt.max \in Int /\ alt.len \in Int /\ 0 <= alt.len
      /\ alt.align \in Nat \ {0} /\ alt.min <= alt.max /\ alt.max <= Top
  BY AlternativeType
<1>2. /\ lo \in Int /\ 0 <= lo /\ lo <= Top /\ hi \in Int /\ 0 <= hi /\ hi <= Top
      /\ lo \in Address /\ hi \in Address
  BY <1>1 DEF WindowInv, Address
<1>3. lo <= hi
  BY <1>1, <1>2 DEF Found
<1>4. \/ alt.len = 0 /\ w = Window(lo, lo)
      \/ alt.len # 0 /\ places # {} /\ w = Window(Max(places), Max(places) + alt.len - 1)
      \/ alt.len # 0 /\ Overrides(Entry, alt, lo, hi) /\ w = Window(lo, hi)
  BY Zenon DEF Found
<1>5. lo >= alt.min /\ hi <= alt.max
  BY DEF WindowInv
<1>9. "alias" \in Attributes(Entry) /\ lo <= w.start /\ w.start \in Int /\ w.end = w.start + alt.len - 1 /\ w.end <= hi
      => AskedAsAlias(q)
  <2>1. PICK l \in Lists : \E i \in DOMAIN l : Entry = l[i]
    BY DEF Request
  <2>2. PICK i \in DOMAIN l : Entry = l[i]
    BY <2>1
  <2>3. q.start = w.start /\ q.end = w.end /\ q.owner = l[i].owner
    BY <2>2 DEF RangeOf
  <2>4. alt = l[i].alts[Current.cur] /\ Current.cur \in DOMAIN l[i].alts
    BY <2>2 DEF CurrentAlternative
  <2> HIDE DEF q, alt, lo, hi
  <2> SUFFICES ASSUME "alias" \in Attributes(Entry), lo <= w.start, w.start \in Int,
                      w.end = w.start + alt.len - 1, w.end <= hi
               PROVE  AskedAsAlias(q)
    OBVIOUS
  <2>5. alt.min <= q.start /\ q.end <= alt.max /\ q.end = q.start + alt.len - 1
    BY <1>1, <1>2, <1>5, <2>3
  <2> QED BY <2>2, <2>3, <2>4, <2>5 DEF AskedAsAlias
<1>10. lo <= w.start /\ w.start \in Int /\ w.end = w.start + alt.len - 1 /\ w.end <= hi =>
        \A r \in Ranges(possible) :
          ~Blocks(r, Entry, alt) \/ r.owner = Entry.owner \/ ~Overlap(r.start, r.end, w.start, w.end)
            => Compatible(q, r) /\ Compatible(r, q)
  <2> SUFFICES ASSUME lo <= w.start, w.start \in Int, w.end = w.start + alt.len - 1, w.end <= hi, NEW r \in Ranges(possible),
                      ~Blocks(r, Entry, alt) \/ r.owner = Entry.owner \/ ~Overlap(r.start, r.end, w.start, w.end)
               PROVE  Compatible(q, r) /\ Compatible(r, q)
    OBVIOUS
  <2>1. /\ q.start = w.start /\ q.end = w.end /\ q.owner = Entry.owner /\ q.shared = alt.shared
        /\ q.attributes = Attributes(Entry)
    BY DEF RangeOf
  <2>5. "alias" \in Attributes(Entry) => AskedAsAlias(q)
    BY <1>9
  <2> HIDE DEF q, alt
  <2>2. CASE r.owner = Entry.owner
    BY <2>1, <2>2 DEF Compatible
  <2>3. CASE ~Overlap(r.start, r.end, w.start, w.end)
    BY <2>1, <2>3 DEF Compatible, Overlap
  <2>4. CASE ~Blocks(r, Entry, alt)
    <3>1. r.attributes \intersect Available(Entry) # {} \/ (alt.shared /\ r.shared)
      BY <2>4 DEF Blocks
    <3>2. CASE alt.shared /\ r.shared
      BY <2>1, <3>2 DEF Compatible
    <3>3. CASE r.attributes \intersect Available(Entry) # {}
      <4>1. PICK a \in r.attributes : a \in Available(Entry)
        BY <3>3
      <4>2. a = "bootAllocated" \/ (a = "alias" /\ a \in Attributes(Entry))
        BY <4>1, AttributesType DEF Available, Attributes
      <4> QED BY <2>1, <2>5, <4>1, <4>2 DEF Compatible
    <3> QED BY <3>1, <3>2, <3>3
  <2> QED BY <2>2, <2>3, <2>4
<1>6. CASE alt.len = 0 /\ w = Window(lo, lo)
  <2>1. w.start = lo /\ w.end = lo
    BY <1>6 DEF Window
  <2> QED BY <1>2, <1>3, <1>6, <2>1
<1>7. CASE alt.len # 0 /\ places # {} /\ w = Window(Max(places), Max(places) + alt.len - 1)
  <2>1. places \in SUBSET Int /\ \A x \in places : x <= hi
    BY <1>2 DEF Placements
  <2>2. Max(places) \in places
    <3> HIDE DEF places
    <3> QED BY <1>2, <1>7, <2>1, MaxOfBounded
  <2>3. w.start = Max(places) /\ w.end = Max(places) + alt.len - 1
    BY <1>7 DEF Window
  <2>4. /\ w.start \in lo..hi /\ w.start % alt.align = 0 /\ w.start + alt.len - 1 <= hi
        /\ \A r \in Ranges(possible) :
             Overlap(r.start, r.end, w.start, w.start + alt.len - 1) => ~Blocks(r, Entry, alt)
    <3>1. w.start \in places
      BY <2>2, <2>3
    <3> QED BY <3>1 DEF Placements
  <2>5. w.end = w.start + alt.len - 1
    BY <2>3
  <2> HIDE DEF alt, lo, hi, places
  <2>6. w.start \in Address /\ w.end \in Int /\ lo <= w.start
    BY <1>1, <1>2, <2>4, <2>5 DEF Address
  <2>7. w.end <= hi /\ w.start \in Int
    BY <1>1, <1>2, <2>4, <2>5
  <2>8. \A r \in Ranges(possible) : Compatible(q, r) /\ Compatible(r, q)
    BY <1>10, <2>4, <2>5, <2>6, <2>7, <1>1
  <2> QED BY <1>7, <2>4, <2>5, <2>6, <2>8 DEF alt, lo, hi
<1>8. CASE alt.len # 0 /\ Overrides(Entry, alt, lo, hi) /\ w = Window(lo, hi)
  <2>1. IsFixed(alt)
    BY <1>8 DEF Overrides
  <2>2. \A r \in Ranges(possible) :
          Overlap(r.start, r.end, lo, hi) /\ r.attributes \intersect Available(Entry) = {} => r.owner = Entry.owner
    BY <1>8 DEF Overrides
  <2>3. lo = alt.min /\ hi = alt.max /\ lo % alt.align = 0
    BY <1>3, <1>8, <2>1 DEF WindowInv
  <2>4. alt.len = alt.max - alt.min + 1
    BY <1>8, <2>1, FixedFills
  <2>5. w.start = lo /\ w.end = hi
    BY <1>8 DEF Window
  <2>6. \A r \in Ranges(possible) : Compatible(q, r) /\ Compatible(r, q)
    <3>1. lo <= w.start /\ w.start \in Int /\ w.end = w.start + alt.len - 1 /\ w.end <= hi
      <4>1. w.end = w.start + alt.len - 1
        <5> HIDE DEF alt, lo, hi
        <5> QED BY <1>1, <2>3, <2>4, <2>5
      <4> QED BY <1>2, <1>3, <2>5, <4>1
    <3> QED BY <1>10, <2>2, <2>5, <3>1 DEF Blocks
  <2> HIDE DEF alt, lo, hi
  <2> QED BY <1>1, <1>2, <1>3, <1>8, <2>3, <2>4, <2>5, <2>6 DEF alt, lo, hi
<1> QED BY <1>4, <1>6, <1>7, <1>8

\* The window a priority leads to keeps to the alternative and, when it is
\* accepted, out of the prefetchable windows.
LEMMA NextWindow ==
  ASSUME TypeInv, NEW k \in DOMAIN Entry.alts, Sensible(Entry.alts[k]),
         Entry.alts[k].prefetchable = Entry.alts[1].prefetchable,
         NEW p \in Int, IsPriority(Entry.alts[k], p, OrderingList(Entry)), p # PRIORITY_EXHAUSTED,
         ~CannotBeAligned(Entry.alts[k], Untrimmed(Entry.alts[k], p)),
         NEW x, x.lo = Trimmed(Entry.alts[k], Untrimmed(Entry.alts[k], p)).start,
         x.hi = Trimmed(Entry.alts[k], Untrimmed(Entry.alts[k], p)).end
  PROVE  /\ x.lo \in Address /\ x.hi \in Address
         /\ IsAcceptable(p) => WindowInv(Entry, Entry.alts[k], x)
<1> DEFINE alt == Entry.alts[k]
           orderings == OrderingList(Entry)
           w == Untrimmed(alt, p)
           t == Trimmed(alt, w)
<1>1. /\ Top \in Nat /\ alt.min \in Int /\ alt.max \in Int /\ alt.len \in Int /\ 0 <= alt.len
      /\ 0 <= alt.min /\ alt.min <= alt.max /\ alt.max <= Top
      /\ alt.align \in Nat \ {0} /\ alt.len <= alt.max - alt.min + 1
  BY AlternativeType
<1>2. orderings \in Seq(WindowType)
  BY OrderingListType
<1>3. /\ w = Window(w.start, w.end) /\ w.start \in Address /\ w.end \in Address
      /\ alt.min <= w.start /\ w.end <= alt.max
      /\ alt.len # 0 => alt.len <= w.end - w.start + 1
      /\ alt.len # 0 /\ p < PRIORITY_PREFERRED_RESERVED =>
           \E o \in {orderings[i] : i \in DOMAIN orderings} : o.start <= w.start /\ w.end <= o.end
  BY <1>2, UntrimmedWindow
<1>4. w.start \in Int /\ w.end \in Int /\ 0 <= w.start /\ w.end <= Top
  BY <1>1, <1>3 DEF Address
<1> HIDE DEF w
<1>5. CASE alt.len = 0
  <2>1. t = w
    BY <1>5 DEF Trimmed
  <2>2. x.lo = w.start /\ x.hi = w.end
    BY <2>1 DEF w
  <2> HIDE DEF alt
  <2> QED BY <1>3, <1>5, <2>2 DEF WindowInv, KeptFromWindows, alt
<1>6. CASE alt.len # 0
  <2>1. ~CannotBeAligned(alt, Window(w.start, w.end))
    BY <1>3 DEF w
  <2>2. /\ t.start \in Address /\ t.end \in Address
        /\ w.start <= t.start /\ t.end <= w.end /\ t.start % alt.align = 0
        /\ alt.len = w.end - w.start + 1 => t.start = w.start /\ t.end = w.end
    <3>1. t = Trimmed(alt, Window(w.start, w.end))
      BY <1>3
    <3> HIDE DEF t, alt
    <3> QED BY <1>3, <1>6, <2>1, <3>1, TrimmedWindow DEF alt
  <2>3. t.start \in Int /\ t.end \in Int
    BY <1>1, <2>2 DEF Address
  <2>4. x.lo = t.start /\ x.hi = t.end
    BY DEF w
  <2>5. alt.min <= x.lo /\ x.hi <= alt.max
    <3> HIDE DEF alt, t
    <3> QED BY <1>1, <1>3, <1>4, <2>2, <2>3, <2>4
  <2>6. ASSUME IsFixed(alt) PROVE x.lo = alt.min /\ x.hi = alt.max
    <3>1. alt.len = alt.max - alt.min + 1
      BY <1>6, <2>6, FixedFills
    <3> HIDE DEF alt, t
    <3> QED BY <1>1, <1>3, <1>4, <1>6, <2>2, <2>4, <3>1
  <2>7. ASSUME IsAcceptable(p), KeptFromWindows(Entry, alt), NEW n \in DOMAIN windows
        PROVE  x.hi < windows[n].start \/ windows[n].end < x.lo
    <3>1. windows # <<>> /\ HasPrefetchableResource
      BY <2>7 DEF HasPrefetchableResource
    <3>2. ~alt.prefetchable /\ ~alt.preferred /\ Entry.source # "legacyReported"
      BY <2>7 DEF KeptFromWindows
    <3>3. /\ Len(orderings) < PRIORITY_PREFERRED_RESERVED
          /\ orderings \in Seq(Clear({windows[j] : j \in DOMAIN windows}))
      <4>1. ~Entry.alts[1].prefetchable
        BY <3>2
      <4> QED BY <3>1, <3>2, <4>1, OrderingListType
    <3>4. p <= PRIORITY_PREFERRED_RESERVED
      BY <2>7, <3>1, <3>2 DEF IsAcceptable
    <3>5. p < PRIORITY_PREFERRED_RESERVED
      <4>1. p # PRIORITY_PREFERRED_RESERVED
        <5> DEFINE i == IF p < 0 THEN -p ELSE p
        <5>1. p = PRIORITY_RESERVED \/ i \in DOMAIN orderings
          BY <3>2 DEF IsPriority
        <5>2. i \in DOMAIN orderings => i <= Len(orderings)
          BY <1>2
        <5> HIDE DEF orderings
        <5> QED BY <3>3, <5>1, <5>2 DEF PRIORITY_PREFERRED_RESERVED, PRIORITY_RESERVED
      <4> QED BY <3>4, <4>1 DEF PRIORITY_PREFERRED_RESERVED
    <3>6. PICK i \in DOMAIN orderings : orderings[i].start <= w.start /\ w.end <= orderings[i].end
      BY <1>3, <1>6, <3>5
    <3> DEFINE o == orderings[i]
    <3>7. o \in Clear({windows[j] : j \in DOMAIN windows})
      BY <3>3
    <3>8. o \in WindowType /\ ~Overlap(o.start, o.end, windows[n].start, windows[n].end)
      BY <3>7 DEF Clear
    <3>9. windows[n] \in WindowType
      <4>1. windows \in Seq(WindowType)
        BY <3>1, OrderingTypes DEF TypeInv
      <4> QED BY <4>1
    <3>10. /\ o.start \in Int /\ o.end \in Int
           /\ windows[n].start \in Int /\ windows[n].end \in Int
      BY <1>1, <3>8, <3>9 DEF WindowType, Address
    <3>11. o.end < windows[n].start \/ windows[n].end < o.start
      BY <3>8 DEF Overlap
    <3>12. o.start <= w.start /\ w.end <= o.end
      BY <3>6
    <3> HIDE DEF o, t
    <3> QED BY <1>4, <2>2, <2>3, <2>4, <3>10, <3>11, <3>12
  <2> HIDE DEF alt, t
  <2> QED BY <2>2, <2>4, <2>5, <2>6, <2>7 DEF WindowInv, alt
<1> QED BY <1>5, <1>6

-----------------------------------------------------------------------------
(* The steps of a search.                                                  *)

\* What does not change when the stack's frame does not.
LEMMA FrameKept ==
  ASSUME UNCHANGED <<busVars, list>>, NEW i, stack'[i] = stack[i]
  PROVE  /\ EntryAt(i)' = EntryAt(i) /\ AlternativeAt(i)' = AlternativeAt(i)
         /\ OrderingList(EntryAt(i))' = OrderingList(EntryAt(i))
         /\ WindowInv(EntryAt(i), AlternativeAt(i), stack[i]) => WindowInv(EntryAt(i), AlternativeAt(i), stack[i])'
         /\ PlaceInv(AlternativeAt(i), stack[i]) => PlaceInv(AlternativeAt(i), stack[i])'
<1>1. EntryAt(i)' = EntryAt(i)
  BY DEF EntryAt
<1>2. AlternativeAt(i)' = AlternativeAt(i)
  BY <1>1 DEF AlternativeAt
<1>3. OrderingList(EntryAt(i))' = OrderingList(EntryAt(i))
  BY <1>1 DEF OrderingList, HasPrefetchableResource, busVars
<1>4. WindowInv(EntryAt(i), AlternativeAt(i), stack[i]) => WindowInv(EntryAt(i), AlternativeAt(i), stack[i])'
  BY <1>1, <1>2 DEF WindowInv, KeptFromWindows, busVars
<1>5. PlaceInv(AlternativeAt(i), stack[i]) => PlaceInv(AlternativeAt(i), stack[i])'
  BY <1>2 DEF PlaceInv
<1> QED BY <1>1, <1>2, <1>3, <1>4, <1>5

\* What has been assigned stands while what it depends on does.
LEMMA AssignedStands ==
  ASSUME AssignedInv, UNCHANGED <<windows, allocation, tested, assigned>>
  PROVE  AssignedInv'
<1>1. Holding' = Holding
  BY DEF Holding
<1>2. AssignedAsAsked'
  BY DEF AssignedInv, AssignedAsAsked
<1> QED BY <1>1, <1>2 DEF AssignedInv

\* While a search goes on there is no transaction, and what is not of the search stays.
LEMMA SearchGoesOn ==
  ASSUME ArbiterInv, pc # "idle", pc' \in {"enter", "next", "find", "fail"}, backtracking' \in BOOLEAN,
         UNCHANGED <<busVars, allocation, booted, TransactionInProgress, tested, assigned, list>>,
         RangeBag(possible')
  PROVE  TypeInv' /\ AssignedInv' /\ TransactionInv' /\ Exclusive(allocation')
<1>1. TypeInv'
  BY DEF ArbiterInv, TypeInv, busVars
<1>2. AssignedInv'
  BY AssignedStands DEF ArbiterInv, busVars
<1>3. TransactionInv'
  BY DEF ArbiterInv, TransactionInv, CopyIsTheAssignment, StackInv
<1> QED BY <1>1, <1>2, <1>3 DEF ArbiterInv

LEMMA EnterForwardPreserves ==
  ASSUME ArbiterInv, EnterForward, UNCHANGED <<busVars, allocation, booted>>
  PROVE  ArbiterInv'
<1>1. /\ pc = "enter" /\ ~backtracking /\ pc' = "next"
      /\ UNCHANGED <<possible, level, backtracking, stack, TransactionInProgress, tested, assigned, list>>
  BY DEF EnterForward, Enters, Goes
<1>2. TypeInv' /\ AssignedInv' /\ TransactionInv' /\ Exclusive(allocation')
  BY <1>1, SearchGoesOn DEF ArbiterInv, TypeInv
<1>3. Settled' = Settled /\ \A i : EntryAt(i)' = EntryAt(i)
  BY <1>1 DEF Settled, EntryAt
<1>4. StackInv'
  BY <1>1, <1>3 DEF ArbiterInv, StackInv
<1>5. PriorityInv'
  BY <1>1, FrameKept DEF ArbiterInv, PriorityInv
<1>6. WindowsInv'
  BY <1>1, <1>3, FrameKept DEF ArbiterInv, WindowsInv
<1>7. CopyInv' /\ Exclusive(possible')
  BY <1>1, <1>3 DEF ArbiterInv, CopyInv
<1> QED BY <1>2, <1>4, <1>5, <1>6, <1>7 DEF ArbiterInv

LEMMA FindNothingPreserves ==
  ASSUME ArbiterInv, FindNothing, UNCHANGED <<busVars, allocation, booted>>
  PROVE  ArbiterInv'
<1>1. /\ pc = "find" /\ pc' = "next"
      /\ UNCHANGED <<possible, level, backtracking, stack, TransactionInProgress, tested, assigned, list>>
  BY DEF FindNothing, Goes
<1>2. TypeInv' /\ AssignedInv' /\ TransactionInv' /\ Exclusive(allocation')
  BY <1>1, SearchGoesOn DEF ArbiterInv, TypeInv
<1>3. Settled' = Settled /\ \A i : EntryAt(i)' = EntryAt(i)
  BY <1>1 DEF Settled, EntryAt
<1>4. StackInv'
  BY <1>1, <1>3 DEF ArbiterInv, StackInv
<1>5. PriorityInv'
  BY <1>1, FrameKept DEF ArbiterInv, PriorityInv
<1>6. WindowsInv'
  BY <1>1, <1>3, FrameKept DEF ArbiterInv, WindowsInv
<1>7. CopyInv' /\ Exclusive(possible')
  BY <1>1, <1>3 DEF ArbiterInv, CopyInv
<1> QED BY <1>2, <1>4, <1>5, <1>6, <1>7 DEF ArbiterInv

\* An entry that fails has no place; the one before it has, and is to give it back.
LEMMA FailEntryPreserves ==
  ASSUME ArbiterInv, FailEntry, UNCHANGED <<busVars, allocation, booted>>
  PROVE  ArbiterInv'
<1>1. /\ pc = "fail" /\ pc' = "enter" /\ level > 1 /\ level' = level - 1 /\ backtracking' = TRUE
      /\ UNCHANGED <<possible, stack, TransactionInProgress, tested, assigned, list>>
  BY DEF FailEntry, Goes
<1>2. TypeInv' /\ AssignedInv' /\ TransactionInv' /\ Exclusive(allocation')
  BY <1>1, SearchGoesOn DEF ArbiterInv, TypeInv
<1>3. ~backtracking /\ level \in 1..Len(stack) /\ Len(stack) \in Nat
  BY <1>1 DEF ArbiterInv, StackInv
<1>4. Settled' = Settled /\ \A i : EntryAt(i)' = EntryAt(i)
  BY <1>1, <1>3 DEF Settled, EntryAt
<1>5. StackInv'
  <2>1. level' \in 1..Len(stack) /\ level' < Len(stack)
    BY <1>1, <1>3
  <2> QED BY <1>1, <1>4, <2>1 DEF ArbiterInv, StackInv
<1>6. PriorityInv'
  BY <1>1, FrameKept DEF ArbiterInv, PriorityInv
<1>7. WindowsInv'
  BY <1>1, <1>4, FrameKept DEF ArbiterInv, WindowsInv
<1>8. CopyInv' /\ Exclusive(possible')
  BY <1>1, <1>4 DEF ArbiterInv, CopyInv
<1> QED BY <1>2, <1>5, <1>6, <1>7, <1>8 DEF ArbiterInv

\* A test that fails leaves no copy, and what was assigned before.
LEMMA FailsPreserves ==
  ASSUME ArbiterInv, pc # "idle", Fails, UNCHANGED <<busVars, allocation, booted>>
  PROVE  ArbiterInv'
<1>1. /\ pc' = "idle" /\ level' = 0 /\ backtracking' = FALSE /\ stack' = <<>> /\ possible' = EmptyBag
      /\ UNCHANGED <<TransactionInProgress, tested, assigned, list>>
  BY DEF Fails, Ends
<1>2. RangeBag(EmptyBag) /\ Exclusive(EmptyBag)
  BY BagOfNone DEF RangeBag, Exclusive, Ranges, BagToSet
<1>3. TypeInv'
  BY <1>1, <1>2 DEF ArbiterInv, TypeInv, busVars
<1>4. StackInv' /\ PriorityInv' /\ WindowsInv' /\ CopyInv'
  BY <1>1 DEF StackInv, PriorityInv, WindowsInv, CopyInv
<1>5. AssignedInv'
  BY <1>1, AssignedStands DEF ArbiterInv, busVars
<1>6. TransactionInv'
  BY <1>1 DEF ArbiterInv, TransactionInv, CopyIsTheAssignment, StackInv
<1>7. Exclusive(allocation') /\ Exclusive(possible')
  BY <1>1, <1>2 DEF ArbiterInv
<1> QED BY <1>3, <1>4, <1>5, <1>6, <1>7 DEF ArbiterInv

\* The frame above the current one is to be tried anew; the frames below keep
\* what they hold.
LEMMA BelowKept ==
  ASSUME ArbiterInv, pc # "idle", backtracking, ~backtracking', UNCHANGED <<busVars, list, level>>,
         pc' \in {"find", "next", "fail"},
         stack' \in Seq(Frame), Len(stack') = Len(stack),
         \A i \in 1..Len(stack) : i < level \/ i > level + 1 => stack'[i] = stack[i],
         stack'[level].cur = stack[level].cur, stack'[level].prio = stack[level].prio,
         stack'[level + 1].cur = 0, stack'[level + 1].prio = stack[level + 1].prio,
         pc' = "find" => WindowInv(EntryAt(level), AlternativeAt(level), stack[level])',
         ~TransactionInProgress'
  PROVE  /\ StackInv' /\ PriorityInv' /\ WindowsInv'
         /\ HeldBag(Wanting(list'), stack', Settled') = HeldBag(Wanting(list), stack, 1..(level - 1))
<1>1. /\ level \in 1..Len(stack) /\ level < Len(stack) /\ Len(stack) \in Nat
      /\ Len(stack) = Len(Wanting(list)) /\ stack \in Seq(Frame)
      /\ \A i \in 1..Len(stack) :
           stack[i].cur \in 0..Len(EntryAt(i).alts) /\ DOMAIN stack[i].prio = DOMAIN EntryAt(i).alts
      /\ \A i \in 1..level : stack[i].cur # 0
  BY DEF ArbiterInv, StackInv, Settled
<1>2. /\ Settled = 1..level /\ Settled' = 1..(level - 1)
      /\ level \in Settled /\ \A i \in 1..(level - 1) : i \in Settled /\ i \in 1..Len(stack) /\ i < level
  BY <1>1 DEF Settled
<1>3. \A i : EntryAt(i)' = EntryAt(i)
  BY DEF EntryAt
<1>4. \A i \in 1..(level - 1) : stack'[i] = stack[i]
  BY <1>2
<1>5. StackInv'
  <2>1. ASSUME NEW i \in 1..Len(stack')
        PROVE  stack'[i].cur \in 0..Len(EntryAt(i)'.alts) /\ DOMAIN stack'[i].prio = DOMAIN EntryAt(i)'.alts
    <3>1. i < level \/ i > level + 1 \/ i = level \/ i = level + 1
      BY <1>1
    <3>2. i \in 1..Len(stack)
      OBVIOUS
    <3>3. stack[i].cur \in 0..Len(EntryAt(i).alts) /\ DOMAIN stack[i].prio = DOMAIN EntryAt(i).alts
      BY <1>1, <3>2
    <3>4. (stack'[i].cur = stack[i].cur \/ stack'[i].cur = 0) /\ stack'[i].prio = stack[i].prio
      BY <3>1, <3>2
    <3>5. Len(EntryAt(i).alts) \in Nat
      BY <1>1, <3>2, EntryType DEF ArbiterInv, TypeInv
    <3> QED BY <1>3, <3>3, <3>4, <3>5
  <2>2. stack'[level].cur # 0
    BY <1>1
  <2>3. \A i \in Settled' : stack'[i].cur # 0
    BY <1>1, <1>2, <1>4
  <2> QED BY <1>1, <2>1, <2>2, <2>3 DEF StackInv
<1>6. PriorityInv'
  <2>1. ASSUME NEW i \in 1..Len(stack'), stack'[i].cur # 0, NEW k \in DOMAIN EntryAt(i)'.alts
        PROVE  IsPriority(EntryAt(i)'.alts[k], stack'[i].prio[k], OrderingList(EntryAt(i))')
    <3>1. i < level \/ i > level + 1 \/ i = level \/ i = level + 1
      BY <1>1
    <3>2. i \in 1..Len(stack)
      OBVIOUS
    <3>3. stack'[i].cur = stack[i].cur /\ stack'[i].prio = stack[i].prio
      BY <2>1, <3>1, <3>2
    <3>4. OrderingList(EntryAt(i))' = OrderingList(EntryAt(i))
      BY <1>3 DEF OrderingList, HasPrefetchableResource, busVars
    <3>5. IsPriority(EntryAt(i).alts[k], stack[i].prio[k], OrderingList(EntryAt(i)))
      BY <1>3, <2>1, <3>2, <3>3 DEF ArbiterInv, PriorityInv
    <3> QED BY <1>3, <3>3, <3>4, <3>5
  <2> QED BY <2>1 DEF PriorityInv
<1>7. WindowsInv'
  <2>1. ASSUME NEW i \in Settled'
        PROVE  WindowInv(EntryAt(i), AlternativeAt(i), stack[i])' /\ PlaceInv(AlternativeAt(i), stack[i])'
    <3>1. i \in Settled /\ stack'[i] = stack[i]
      BY <1>2, <1>4
    <3>2. WindowInv(EntryAt(i), AlternativeAt(i), stack[i]) /\ PlaceInv(AlternativeAt(i), stack[i])
      BY <3>1 DEF ArbiterInv, WindowsInv
    <3> QED BY <3>1, <3>2, FrameKept
  <2> QED BY <2>1 DEF WindowsInv
<1>8. HeldBag(Wanting(list'), stack', Settled') = HeldBag(Wanting(list), stack, 1..(level - 1))
  <2>1. SameHeld(stack', stack, 1..(level - 1))
    BY <1>4 DEF SameHeld
  <2>2. HeldBag(Wanting(list), stack', 1..(level - 1)) = HeldBag(Wanting(list), stack, 1..(level - 1))
    BY <2>1, HeldSame
  <2> QED BY <1>2, <2>2
<1> QED BY <1>5, <1>6, <1>7, <1>8

LEMMA BacktrackNothingPreserves ==
  ASSUME ArbiterInv, BacktrackNothing, UNCHANGED <<busVars, allocation, booted>>
  PROVE  ArbiterInv'
<1>1. /\ pc = "enter" /\ pc' = "fail" /\ backtracking /\ backtracking' = FALSE
      /\ CurrentAlternative.len = 0
      /\ stack' = [stack EXCEPT ![level + 1].cur = 0]
      /\ UNCHANGED <<possible, level, TransactionInProgress, tested, assigned, list>>
  BY DEF BacktrackNothing, Goes, Enters
<1>2. TypeInv' /\ AssignedInv' /\ TransactionInv' /\ Exclusive(allocation')
  BY <1>1, SearchGoesOn DEF ArbiterInv, TypeInv
<1>3. /\ level \in 1..Len(stack) /\ level < Len(stack) /\ Len(stack) \in Nat /\ stack \in Seq(Frame)
      /\ ~TransactionInProgress /\ level + 1 \in 1..Len(stack) /\ level \in Nat \ {0}
  BY <1>1 DEF ArbiterInv, StackInv
<1>4. /\ stack' \in Seq(Frame) /\ Len(stack') = Len(stack)
      /\ \A i \in 1..Len(stack) : i # level + 1 => stack'[i] = stack[i]
      /\ stack'[level + 1].cur = 0 /\ stack'[level + 1].prio = stack[level + 1].prio
  <2>1. stack[level + 1] \in Frame
    BY <1>3
  <2>2. [stack[level + 1] EXCEPT !.cur = 0] \in Frame
    BY <2>1 DEF Frame
  <2>3. stack' = [stack EXCEPT ![level + 1] = [stack[level + 1] EXCEPT !.cur = 0]]
    BY <1>1, <1>3
  <2>4. [stack[level + 1] EXCEPT !.cur = 0].cur = 0 /\ [stack[level + 1] EXCEPT !.cur = 0].prio = stack[level + 1].prio
    BY <2>1 DEF Frame
  <2> QED BY <1>3, <2>2, <2>3, <2>4
<1>5. \A i \in 1..Len(stack) : i < level \/ i > level + 1 => stack'[i] = stack[i]
  BY <1>3, <1>4
<1>6. stack'[level] = stack[level]
  BY <1>3, <1>4
<1>7. /\ StackInv' /\ PriorityInv' /\ WindowsInv'
      /\ HeldBag(Wanting(list'), stack', Settled') = HeldBag(Wanting(list), stack, 1..(level - 1))
  BY <1>1, <1>3, <1>4, <1>5, <1>6, BelowKept
<1>8. HeldBag(Wanting(list), stack, 1..level) = HeldBag(Wanting(list), stack, 1..(level - 1))
  <2>1. Wanting(list)[level].alts[stack[level].cur].len = 0
    BY <1>1 DEF CurrentAlternative, Entry, Current
  <2> QED BY <1>3, <2>1, HeldOneMore
<1>9. CopyInv'
  BY <1>1, <1>7, <1>8 DEF ArbiterInv, CopyInv, Settled
<1>10. Exclusive(possible')
  BY <1>1 DEF ArbiterInv
<1> QED BY <1>2, <1>7, <1>9, <1>10 DEF ArbiterInv

\* Less of a copy is still exclusive.
LEMMA ExclusivePart ==
  ASSUME NEW A, NEW B, Exclusive(B), Ranges(A) \subseteq Ranges(B)
  PROVE  Exclusive(A)
BY DEF Exclusive

\* What is given back is what was added last, and a window that goes on below
\* it stays a window.
LEMMA BacktrackPreserves ==
  ASSUME ArbiterInv, Backtrack, UNCHANGED <<busVars, allocation, booted>>
  PROVE  ArbiterInv'
<1> DEFINE alt == CurrentAlternative
           placed == RangeOf(Entry, alt, Attributes(Entry), Current.start, Current.end)
           below == (Current.start - 1) % N
           goesOn == below <= Current.lo /\ below >= alt.min
           A == WithoutOwners(allocation, list)
           hi == IF goesOn THEN below ELSE Current.hi
           top == [stack[level + 1] EXCEPT !.cur = 0]
           cut == [stack[level] EXCEPT !.hi = hi]
<1>1. /\ pc = "enter" /\ backtracking /\ backtracking' = FALSE
      /\ alt.len # 0
      /\ pc' = (IF goesOn THEN "find" ELSE "next")
      /\ possible' = possible (-) SetToBag({placed})
      /\ UNCHANGED <<level, TransactionInProgress, tested, assigned, list>>
  BY DEF Backtrack, Goes, Enters
<1>2. stack' = [stack EXCEPT ![level + 1].cur = 0, ![level].hi = IF goesOn THEN below ELSE @]
  BY DEF Backtrack
<1>3. /\ level \in 1..Len(stack) /\ level < Len(stack) /\ Len(stack) \in Nat /\ stack \in Seq(Frame)
      /\ Len(stack) = Len(Wanting(list))
      /\ ~TransactionInProgress /\ level + 1 \in 1..Len(stack) /\ level \in Nat \ {0}
      /\ stack[level] \in Frame /\ stack[level + 1] \in Frame
      /\ Settled = 1..level /\ level \in Settled
      /\ stack[level].cur # 0 /\ stack[level].cur \in 0..Len(EntryAt(level).alts)
  BY <1>1 DEF ArbiterInv, StackInv, Settled
<1>4. Entry = EntryAt(level) /\ Current = stack[level] /\ alt = AlternativeAt(level)
  BY DEF Entry, EntryAt, Current, CurrentAlternative, AlternativeAt
<1>5. Sensible(alt)
  <2>1. Len(EntryAt(level).alts) \in Nat /\ \A k \in 1..Len(EntryAt(level).alts) : Sensible(EntryAt(level).alts[k])
    BY <1>3, EntryType DEF ArbiterInv, TypeInv
  <2>2. stack[level].cur \in 1..Len(EntryAt(level).alts)
    BY <1>3, <2>1
  <2> QED BY <1>4, <2>1, <2>2 DEF AlternativeAt
<1>6. WindowInv(Entry, alt, Current) /\ PlaceInv(alt, Current)
  BY <1>1, <1>3, <1>4 DEF ArbiterInv, WindowsInv
<1>7. /\ Top \in Nat /\ alt.min \in Int /\ alt.max \in Int /\ alt.len \in Int /\ 0 < alt.len
      /\ 0 <= alt.min /\ alt.min <= alt.max /\ alt.max <= Top /\ alt.align \in Nat \ {0}
  BY <1>1, <1>5, AlternativeType
<1>8. /\ Current.lo \in Int /\ Current.hi \in Int /\ Current.start \in Int /\ Current.end \in Int
      /\ 0 <= Current.lo /\ Current.lo <= Top /\ 0 <= Current.hi /\ Current.hi <= Top
      /\ alt.min <= Current.lo /\ Current.hi <= alt.max
      /\ Current.lo <= Current.start /\ Current.start <= Current.hi
  <2>1. Current.lo \in Address /\ Current.hi \in Address /\ alt.min <= Current.lo /\ Current.hi <= alt.max
    BY <1>6 DEF WindowInv
  <2>2. Current.lo \in Int /\ Current.hi \in Int /\ Current.start \in Int /\ Current.end \in Int
    BY <1>3, <1>4 DEF Frame
  <2>3. Current.lo <= Current.start /\ Current.end = Current.start + alt.len - 1 /\ Current.end <= Current.hi
    BY <1>1, <1>6 DEF PlaceInv
  <2> HIDE DEF alt
  <2> QED BY <1>7, <2>1, <2>2, <2>3 DEF Address
<1>9. below \in 0..Top /\ hi \in Int
  BY <1>7, <1>8 DEF N
<1> HIDE DEF alt, below
<1>10. ASSUME goesOn PROVE WindowInv(EntryAt(level), AlternativeAt(level), cut)
  <2>1. cut.lo = Current.lo /\ cut.hi = below
    BY <1>3, <1>4, <1>10 DEF Frame
  <2>2. below \in Address /\ Current.lo \in Address
    BY <1>6, <1>9 DEF Address, WindowInv
  <2>3. below <= Current.lo /\ below <= Current.hi /\ below <= alt.max
    BY <1>7, <1>8, <1>9, <1>10
  <2>4. ASSUME IsFixed(alt), Current.lo <= below PROVE Current.lo = alt.min /\ below = alt.max
    <3>1. Current.lo = alt.min /\ Current.hi = alt.max
      BY <1>1, <1>6, <1>8, <2>4 DEF WindowInv
    <3>2. below = Current.lo /\ below <= Current.start
      BY <1>8, <1>9, <2>3, <2>4
    <3>3. Current.start = 0 /\ below = Top
      <4>1. CASE Current.start = 0
        BY <1>7, <1>9, <4>1 DEF below, N
      <4>2. CASE Current.start # 0
        <5>1. Current.start - 1 \in 0..Top
          BY <1>7, <1>8, <4>2
        <5>2. (Current.start - 1) % N = Current.start - 1
          BY <1>7, <5>1 DEF N
        <5>3. FALSE
          <6>1. alt.len = alt.max - alt.min + 1
            BY <1>1, <1>5, <2>4, FixedFills
          <6>2. Current.end = Current.start + alt.len - 1 /\ Current.end <= Current.hi
            BY <1>1, <1>6 DEF PlaceInv
          <6>3. below = Current.start - 1
            BY <5>2 DEF below
          <6> QED BY <1>7, <1>8, <3>1, <3>2, <6>1, <6>2, <6>3
        <5> QED BY <5>3
      <4> QED BY <4>1, <4>2
    <3> QED BY <1>7, <1>8, <3>1, <3>2, <3>3
  <2>5. ASSUME KeptFromWindows(Entry, alt), NEW n \in DOMAIN windows
        PROVE  below < windows[n].start \/ windows[n].end < Current.lo
    <3>1. windows[n].start \in Int /\ windows[n].end \in Int
      <4>1. windows \in Seq(WindowType)
        <5>1. windows # <<>>
          BY <2>5
        <5> QED BY <5>1, OrderingTypes DEF ArbiterInv, TypeInv
      <4>2. windows[n] \in WindowType
        BY <4>1
      <4> QED BY <1>7, <4>2 DEF WindowType, Address
    <3>2. Current.hi < windows[n].start \/ windows[n].end < Current.lo
      BY <1>6, <2>5 DEF WindowInv
    <3> QED BY <1>8, <1>9, <2>3, <3>1, <3>2
  <2>6. Current.lo % alt.align = 0 /\ alt.min <= Current.lo
    BY <1>1, <1>6 DEF WindowInv
  <2> HIDE DEF cut
  <2>7. WindowInv(Entry, alt, cut)
    BY <2>1, <2>2, <2>3, <2>4, <2>5, <2>6 DEF WindowInv
  <2> QED BY <1>4, <2>7
<1>11. /\ stack' \in Seq(Frame) /\ Len(stack') = Len(stack)
       /\ \A i \in 1..Len(stack) : i < level \/ i > level + 1 => stack'[i] = stack[i]
       /\ stack'[level] = cut /\ stack'[level + 1] = top
  <2>1. top \in Frame
    BY <1>3 DEF Frame
  <2>2. cut \in Frame
    <3> HIDE DEF hi
    <3> QED BY <1>3, <1>9 DEF Frame
  <2>3. stack' = [[stack EXCEPT ![level + 1] = top] EXCEPT ![level] = cut]
    <3> DEFINE s1 == [stack EXCEPT ![level + 1].cur = 0]
    <3>1. stack' = [s1 EXCEPT ![level].hi = IF goesOn THEN below ELSE @]
      BY <1>2
    <3>2. s1 = [stack EXCEPT ![level + 1] = top] /\ s1[level] = stack[level]
      BY <1>3
    <3> HIDE DEF s1
    <3>3. stack' = [s1 EXCEPT ![level] = [s1[level] EXCEPT !.hi = IF goesOn THEN below ELSE s1[level].hi]]
      BY <3>1
    <3> QED BY <1>4, <3>2, <3>3
  <2> HIDE DEF top, cut
  <2> QED BY <1>3, <2>1, <2>2, <2>3
<1>12. /\ top.cur = 0 /\ top.prio = stack[level + 1].prio
       /\ cut.cur = stack[level].cur /\ cut.prio = stack[level].prio
  BY <1>3 DEF Frame
<1>13. goesOn => WindowInv(EntryAt(level), AlternativeAt(level), stack[level])'
  <2>1. EntryAt(level)' = EntryAt(level) /\ stack'[level'].cur = stack[level].cur
    BY <1>1, <1>11, <1>12 DEF EntryAt
  <2>2. AlternativeAt(level)' = AlternativeAt(level)
    BY <1>1, <2>1 DEF AlternativeAt
  <2> HIDE DEF cut
  <2> QED BY <1>1, <1>10, <1>11, <2>1, <2>2 DEF WindowInv, KeptFromWindows, busVars
<1>14. /\ StackInv' /\ PriorityInv' /\ WindowsInv'
       /\ HeldBag(Wanting(list'), stack', Settled') = HeldBag(Wanting(list), stack, 1..(level - 1))
  <2> HIDE DEF goesOn, cut, top
  <2> QED BY <1>1, <1>3, <1>11, <1>12, <1>13, BelowKept
<1>15. IsABag(A) /\ IsABag(HeldBag(Wanting(list), stack, 1..(level - 1)))
  BY <1>3, WithoutOwnersBag, HeldRanges DEF ArbiterInv, TypeInv, RangeBag
<1>16. possible = A (+) (HeldBag(Wanting(list), stack, 1..(level - 1)) (+) SetToBag({placed}))
  <2>1. possible = A (+) HeldBag(Wanting(list), stack, 1..level)
    BY <1>1, <1>3 DEF ArbiterInv, CopyInv
  <2>2. HeldRange(Wanting(list)[level], stack[level]) = placed
    BY DEF HeldRange, Entry, Current, CurrentAlternative, alt
  <2>3. Wanting(list)[level].alts[stack[level].cur].len # 0
    BY <1>1 DEF alt, CurrentAlternative, Entry, Current
  <2>4. HeldBag(Wanting(list), stack, 1..level) =
          HeldBag(Wanting(list), stack, 1..(level - 1)) (+) SetToBag({placed})
    BY <1>3, <2>2, <2>3, HeldOneMore
  <2> QED BY <2>1, <2>4
<1>17. possible' = A (+) HeldBag(Wanting(list), stack, 1..(level - 1))
  <2> DEFINE H == HeldBag(Wanting(list), stack, 1..(level - 1))
             B == A (+) H
  <2>1. IsABag(SetToBag({placed})) /\ IsABag(B)
    BY <1>15, BagOfOne, UnionOfBags
  <2>2. possible = B (+) SetToBag({placed})
    BY <1>15, <1>16, <2>1, UnionAssociates
  <2> HIDE DEF B, placed
  <2>3. (B (+) SetToBag({placed})) (-) SetToBag({placed}) = B
    BY <2>1, AddedAndTaken
  <2> QED BY <1>1, <2>2, <2>3 DEF B
<1>18. CopyInv'
  BY <1>1, <1>14, <1>17 DEF CopyInv
<1>19. RangeBag(possible') /\ Ranges(possible') \subseteq Ranges(possible)
  <2> DEFINE H == HeldBag(Wanting(list), stack, 1..(level - 1))
  <2>1. IsABag(SetToBag({placed})) /\ IsABag(H (+) SetToBag({placed}))
        /\ DOMAIN (H (+) SetToBag({placed})) = DOMAIN H \union DOMAIN SetToBag({placed})
    BY <1>15, BagOfOne, UnionOfBags
  <2>2. DOMAIN possible = DOMAIN A \union (DOMAIN H \union DOMAIN SetToBag({placed}))
    <3> DEFINE S == H (+) SetToBag({placed})
    <3>1. possible = A (+) S
      BY <1>16
    <3>2. IsABag(A) /\ IsABag(S) /\ DOMAIN S = DOMAIN H \union DOMAIN SetToBag({placed})
      BY <1>15, <2>1
    <3> HIDE DEF A, H, S, placed
    <3>3. DOMAIN (A (+) S) = DOMAIN A \union DOMAIN S
      BY <3>2, UnionOfBags
    <3> QED BY <3>1, <3>2, <3>3
  <2>3. IsABag(possible') /\ DOMAIN possible' = DOMAIN A \union DOMAIN H
    BY <1>15, <1>17, UnionOfBags
  <2>4. Ranges(possible') \subseteq Ranges(possible)
    BY <2>2, <2>3 DEF Ranges, BagToSet
  <2>5. \A r \in Ranges(possible) : IsRange(r)
    BY DEF ArbiterInv, TypeInv, RangeBag
  <2> QED BY <2>3, <2>4, <2>5 DEF RangeBag
<1>20. Exclusive(possible')
  BY <1>19, ExclusivePart DEF ArbiterInv
<1>21. TypeInv' /\ AssignedInv' /\ TransactionInv' /\ Exclusive(allocation')
  <2>1. pc # "idle" /\ pc' \in {"enter", "next", "find", "fail"} /\ backtracking' \in BOOLEAN
    BY <1>1
  <2> QED BY <1>1, <1>19, <2>1, SearchGoesOn
<1> QED BY <1>14, <1>18, <1>20, <1>21 DEF ArbiterInv

\* The priorities, brought up to date.
LEMMA PrioritiesType ==
  ASSUME ArbiterInv, pc = "next"
  PROVE  /\ Priorities \in [1..Len(Entry.alts) -> Int]
         /\ \A k \in 1..Len(Entry.alts) : IsPriority(Entry.alts[k], Priorities[k], OrderingList(Entry))
<1> DEFINE alts == Entry.alts
           n == Len(Entry.alts)
           orderings == OrderingList(Entry)
           P == Priorities
<1>1. /\ level \in 1..Len(stack) /\ Len(stack) = Len(Wanting(list)) /\ stack \in Seq(Frame)
      /\ stack[level].cur \in 0..Len(EntryAt(level).alts)
      /\ DOMAIN stack[level].prio = DOMAIN EntryAt(level).alts
  BY DEF ArbiterInv, StackInv
<1>2. Entry = EntryAt(level) /\ Current = stack[level]
  BY DEF Entry, EntryAt, Current
<1>3. /\ n \in Nat \ {0} /\ DOMAIN alts = 1..n
      /\ \A k \in 1..n : Sensible(alts[k])
  BY <1>1, <1>2, EntryType DEF ArbiterInv, TypeInv
<1>4. orderings \in Seq(WindowType)
  BY OrderingListType DEF ArbiterInv
<1>5. Current.prio \in [1..n -> Int] /\ Current.cur \in 0..n
  <2>1. stack[level] \in Frame
    BY <1>1
  <2>2. Current.prio \in Seq(Int) /\ DOMAIN Current.prio = 1..n
    BY <1>1, <1>2, <1>3, <2>1 DEF Frame
  <2> QED BY <1>1, <1>2, <2>2
<1>6. P = IF Current.cur = 0
            THEN [k \in DOMAIN alts |-> UpdatePriority(alts[k], PRIORITY_NULL, orderings)]
            ELSE [Current.prio EXCEPT ![Current.cur] = UpdatePriority(alts[Current.cur], @, orderings)]
  BY DEF Priorities
<1> HIDE DEF alts, n, orderings, P
<1>7. \A k \in 1..n : \A p \in Int :
        UpdatePriority(alts[k], p, orderings) \in Int /\ IsPriority(alts[k], UpdatePriority(alts[k], p, orderings), orderings)
  BY <1>3, <1>4, UpdatePriorityType
<1>8. CASE Current.cur = 0
  <2>1. P = [k \in 1..n |-> UpdatePriority(alts[k], PRIORITY_NULL, orderings)] /\ PRIORITY_NULL \in Int
    BY <1>3, <1>6, <1>8 DEF PRIORITY_NULL
  <2> QED BY <1>7, <2>1 DEF alts, n, orderings, P
<1>9. CASE Current.cur # 0
  <2> DEFINE c == Current.cur
  <2>1. c \in 1..n /\ Current.prio[c] \in Int
    BY <1>3, <1>5, <1>9
  <2>2. P = [Current.prio EXCEPT ![c] = UpdatePriority(alts[c], Current.prio[c], orderings)]
    BY <1>6, <1>9
  <2>3. P \in [1..n -> Int]
    BY <1>5, <1>7, <2>1, <2>2
  <2>4. ASSUME NEW k \in 1..n PROVE IsPriority(alts[k], P[k], orderings)
    <3>1. CASE k = c
      <4>1. P[k] = UpdatePriority(alts[c], Current.prio[c], orderings)
        BY <1>5, <2>1, <2>2, <3>1
      <4> QED BY <1>7, <2>1, <3>1, <4>1
    <3>2. CASE k # c
      <4>1. P[k] = Current.prio[k]
        BY <1>5, <2>2, <3>2
      <4>2. IsPriority(EntryAt(level).alts[k], stack[level].prio[k], OrderingList(EntryAt(level)))
        BY <1>1, <1>2, <1>3, <1>9 DEF ArbiterInv, PriorityInv, alts, n
      <4> QED BY <1>2, <4>1, <4>2 DEF alts, orderings
    <3> QED BY <3>1, <3>2
  <2> QED BY <2>3, <2>4 DEF alts, n, orderings, P
<1> QED BY <1>8, <1>9

\* A step that changes only the current frame, of which nothing is held.
LEMMA CurrentChanges ==
  ASSUME ArbiterInv, pc = "next", pc' \in {"next", "find", "fail"},
         UNCHANGED <<busVars, allocation, booted, TransactionInProgress, tested, assigned, list,
                     possible, level, backtracking>>,
         NEW x \in Frame, stack' = [stack EXCEPT ![level] = x],
         x.prio = Priorities, x.cur \in 0..Len(Entry.alts),
         pc' = "find" => x.cur # 0 /\ WindowInv(Entry, Entry.alts[x.cur], x)
  PROVE  ArbiterInv'
<1>1. /\ level \in 1..Len(stack) /\ Len(stack) \in Nat /\ Len(stack) = Len(Wanting(list)) /\ stack \in Seq(Frame)
      /\ \A i \in 1..Len(stack) :
           stack[i].cur \in 0..Len(EntryAt(i).alts) /\ DOMAIN stack[i].prio = DOMAIN EntryAt(i).alts
      /\ ~backtracking /\ ~TransactionInProgress
      /\ \A i \in Settled : stack[i].cur # 0
  BY DEF ArbiterInv, StackInv
<1>2. /\ Settled = 1..(level - 1) /\ Settled' = 1..(level - 1)
      /\ \A i \in Settled : i \in 1..Len(stack) /\ i # level
  BY <1>1 DEF Settled
<1>3. Entry = EntryAt(level) /\ \A i : EntryAt(i)' = EntryAt(i)
  BY DEF Entry, EntryAt
<1>4. /\ stack' \in Seq(Frame) /\ Len(stack') = Len(stack) /\ stack'[level] = x
      /\ \A i \in 1..Len(stack) : i # level => stack'[i] = stack[i]
  BY <1>1
<1>5. /\ Len(Entry.alts) \in Nat /\ DOMAIN Entry.alts = 1..Len(Entry.alts)
  BY <1>1, <1>3, EntryType DEF ArbiterInv, TypeInv
<1>6. /\ DOMAIN Priorities = 1..Len(Entry.alts)
      /\ \A k \in 1..Len(Entry.alts) : IsPriority(Entry.alts[k], Priorities[k], OrderingList(Entry))
  BY PrioritiesType
<1>7. TypeInv' /\ AssignedInv' /\ TransactionInv' /\ Exclusive(allocation')
  <2>1. RangeBag(possible') /\ backtracking' \in BOOLEAN
    BY DEF ArbiterInv, TypeInv
  <2> QED BY <2>1, SearchGoesOn
<1>8. StackInv'
  <2>1. ASSUME NEW i \in 1..Len(stack')
        PROVE  stack'[i].cur \in 0..Len(EntryAt(i)'.alts) /\ DOMAIN stack'[i].prio = DOMAIN EntryAt(i)'.alts
    <3>1. CASE i = level
      BY <1>3, <1>4, <1>5, <1>6, <3>1
    <3>2. CASE i # level
      BY <1>1, <1>3, <1>4, <3>2
    <3> QED BY <3>1, <3>2
  <2>2. \A i \in Settled' : stack'[i].cur # 0
    BY <1>1, <1>2, <1>4
  <2>3. pc' = "find" => stack'[level'].cur # 0
    BY <1>4
  <2> QED BY <1>1, <1>4, <2>1, <2>2, <2>3 DEF StackInv
<1>9. PriorityInv'
  <2>1. ASSUME NEW i \in 1..Len(stack'), stack'[i].cur # 0, NEW k \in DOMAIN EntryAt(i)'.alts
        PROVE  IsPriority(EntryAt(i)'.alts[k], stack'[i].prio[k], OrderingList(EntryAt(i))')
    <3>1. OrderingList(EntryAt(i))' = OrderingList(EntryAt(i))
      BY <1>3 DEF OrderingList, HasPrefetchableResource, busVars
    <3>2. CASE i = level
      BY <1>3, <1>4, <1>5, <1>6, <2>1, <3>1, <3>2
    <3>3. CASE i # level
      <4>1. IsPriority(EntryAt(i).alts[k], stack[i].prio[k], OrderingList(EntryAt(i)))
        BY <1>3, <1>4, <2>1, <3>3 DEF ArbiterInv, PriorityInv
      <4> QED BY <1>3, <1>4, <3>1, <3>3, <4>1
    <3> QED BY <3>2, <3>3
  <2> QED BY <2>1 DEF PriorityInv
<1>10. WindowsInv'
  <2>1. ASSUME NEW i \in Settled'
        PROVE  WindowInv(EntryAt(i), AlternativeAt(i), stack[i])' /\ PlaceInv(AlternativeAt(i), stack[i])'
    <3>1. i \in Settled /\ stack'[i] = stack[i]
      BY <1>2, <1>4
    <3>2. WindowInv(EntryAt(i), AlternativeAt(i), stack[i]) /\ PlaceInv(AlternativeAt(i), stack[i])
      BY <3>1 DEF ArbiterInv, WindowsInv
    <3> QED BY <3>1, <3>2, FrameKept
  <2>2. ASSUME pc' = "find" PROVE WindowInv(EntryAt(level), AlternativeAt(level), stack[level])'
    <3>1. WindowInv(Entry, Entry.alts[x.cur], x)
      BY <2>2
    <3>2. EntryAt(level)' = Entry /\ AlternativeAt(level)' = Entry.alts[x.cur] /\ stack'[level'] = x
      BY <1>3, <1>4 DEF EntryAt, AlternativeAt
    <3> QED BY <3>1, <3>2 DEF WindowInv, KeptFromWindows, busVars
  <2> QED BY <2>1, <2>2 DEF WindowsInv
<1>11. CopyInv'
  <2>1. SameHeld(stack', stack, 1..(level - 1))
    BY <1>2, <1>4 DEF SameHeld
  <2>2. HeldBag(Wanting(list), stack', 1..(level - 1)) = HeldBag(Wanting(list), stack, 1..(level - 1))
    BY <2>1, HeldSame
  <2> QED BY <1>2, <2>2 DEF ArbiterInv, CopyInv
<1>12. Exclusive(possible')
  BY DEF ArbiterInv
<1> QED BY <1>7, <1>8, <1>9, <1>10, <1>11, <1>12 DEF ArbiterInv

LEMMA NextRangePreserves ==
  ASSUME ArbiterInv, NextRange, UNCHANGED <<busVars, allocation, booted>>
  PROVE  ArbiterInv'
<1>1. pc = "next" /\ UNCHANGED <<possible, level, backtracking>>
  BY DEF NextRange
<1>2. PICK k \in Lowest(Priorities) : NextRangeOf(Priorities, k)
  BY DEF NextRange
<1> DEFINE prio == Priorities
           alt == Entry.alts[k]
           raw == Untrimmed(alt, prio[k])
           w == Trimmed(alt, raw)
           chosen == [Current EXCEPT !.prio = prio, !.cur = k]
           found == [chosen EXCEPT !.lo = w.start, !.hi = w.end]
           exhausted == [Current EXCEPT !.prio = prio]
<1>3. /\ level \in 1..Len(stack) /\ Len(stack) = Len(Wanting(list)) /\ stack \in Seq(Frame)
      /\ Current = stack[level] /\ Current \in Frame /\ Entry = EntryAt(level)
      /\ Current.cur \in 0..Len(Entry.alts)
  BY <1>1 DEF ArbiterInv, StackInv, Current, Entry, EntryAt
<1>4. /\ Len(Entry.alts) \in Nat \ {0} /\ DOMAIN Entry.alts = 1..Len(Entry.alts)
      /\ \A j \in 1..Len(Entry.alts) :
           Sensible(Entry.alts[j]) /\ Entry.alts[j].prefetchable = Entry.alts[1].prefetchable
  BY <1>3, EntryType DEF ArbiterInv, TypeInv
<1>5. /\ prio \in [1..Len(Entry.alts) -> Int]
      /\ \A j \in 1..Len(Entry.alts) : IsPriority(Entry.alts[j], prio[j], OrderingList(Entry))
  BY <1>1, PrioritiesType
<1>6. k \in 1..Len(Entry.alts)
  BY <1>2, <1>4, <1>5, LowestType
<1>7. prio \in Seq(Int) /\ prio[k] \in Int
  BY <1>4, <1>5, <1>6
<1>8. exhausted \in Frame /\ exhausted.prio = prio /\ exhausted.cur = Current.cur
  <2> HIDE DEF prio
  <2> QED BY <1>3, <1>7 DEF Frame
<1>9. chosen \in Frame /\ chosen.prio = prio /\ chosen.cur = k
  <2>1. chosen = [exhausted EXCEPT !.cur = k]
    BY <1>3 DEF Frame
  <2>2. k \in Nat
    BY <1>4, <1>6
  <2> HIDE DEF chosen, exhausted, prio
  <2> QED BY <1>8, <2>1, <2>2 DEF Frame
<1>10. UNCHANGED <<TransactionInProgress, tested, assigned, list>> /\ pc' \in {"next", "find", "fail"}
  BY <1>2 DEF NextRangeOf, Goes
<1>11. \/ pc' = "fail" /\ stack' = [stack EXCEPT ![level].prio = prio]
       \/ pc' = "next" /\ stack' = [stack EXCEPT ![level] = chosen]
       \/ /\ prio[k] # PRIORITY_EXHAUSTED /\ ~CannotBeAligned(alt, raw)
          /\ stack' = [stack EXCEPT ![level] = found]
          /\ pc' = IF IsAcceptable(prio[k]) THEN "find" ELSE "fail"
  BY <1>2 DEF NextRangeOf, Goes
<1> HIDE DEF chosen, exhausted, prio
<1>12. CASE pc' = "fail" /\ stack' = [stack EXCEPT ![level].prio = prio]
  <2>1. stack' = [stack EXCEPT ![level] = exhausted]
    BY <1>3, <1>12 DEF exhausted
  <2>2. exhausted.cur \in 0..Len(Entry.alts) /\ exhausted.prio = Priorities
    BY <1>3, <1>8 DEF prio
  <2> QED BY <1>1, <1>8, <1>10, <1>12, <2>1, <2>2, CurrentChanges
<1>13. CASE pc' = "next" /\ stack' = [stack EXCEPT ![level] = chosen]
  <2>1. chosen.cur \in 0..Len(Entry.alts) /\ chosen.prio = Priorities
    BY <1>4, <1>6, <1>9 DEF prio
  <2> QED BY <1>1, <1>9, <1>10, <1>13, <2>1, CurrentChanges
<1>14. CASE /\ prio[k] # PRIORITY_EXHAUSTED /\ ~CannotBeAligned(alt, raw)
            /\ stack' = [stack EXCEPT ![level] = found]
            /\ pc' = IF IsAcceptable(prio[k]) THEN "find" ELSE "fail"
  <2>1. /\ found.lo = w.start /\ found.hi = w.end /\ found.cur = k /\ found.prio = prio
        /\ w.start \in Int /\ w.end \in Int => found \in Frame
    <3> HIDE DEF w
    <3> QED BY <1>9 DEF Frame
  <2> HIDE DEF found
  <2>2. /\ found.lo \in Address /\ found.hi \in Address
        /\ IsAcceptable(prio[k]) => WindowInv(Entry, alt, found)
    <3>1. Sensible(alt) /\ alt.prefetchable = Entry.alts[1].prefetchable /\ k \in DOMAIN Entry.alts
      BY <1>4, <1>6
    <3>2. IsPriority(alt, prio[k], OrderingList(Entry))
      BY <1>5, <1>6
    <3>3. TypeInv
      BY DEF ArbiterInv
    <3> QED BY <1>7, <1>14, <2>1, <3>1, <3>2, <3>3, NextWindow
  <2>3. found \in Frame
    BY <2>1, <2>2, ArbiterAssumption DEF Address
  <2>4. found.cur \in 0..Len(Entry.alts) /\ found.cur # 0 /\ found.prio = Priorities
    BY <1>4, <1>6, <2>1 DEF prio
  <2>5. pc' = "find" => found.cur # 0 /\ WindowInv(Entry, Entry.alts[found.cur], found)
    <3>1. pc' = "find" => IsAcceptable(prio[k])
      BY <1>14
    <3> QED BY <2>1, <2>2, <2>4, <3>1
  <2> QED BY <1>1, <1>10, <1>14, <2>3, <2>4, <2>5, CurrentChanges
<1> QED BY <1>11, <1>12, <1>13, <1>14

\* A place that is found is added to the copy, and stays compatible with it.
LEMMA PlaceAdds ==
  ASSUME ArbiterInv, pc = "find", NEW w \in Found, Place(w)
  PROVE  /\ Placed(w) \in Seq(Frame) /\ Len(Placed(w)) = Len(stack)
         /\ \A i \in 1..Len(stack) : i # level => Placed(w)[i] = stack[i]
         /\ Placed(w)[level].cur = stack[level].cur /\ Placed(w)[level].prio = stack[level].prio
         /\ WindowInv(EntryAt(level), AlternativeAt(level), Placed(w)[level])
         /\ PlaceInv(AlternativeAt(level), Placed(w)[level])
         /\ RangeBag(possible') /\ Exclusive(possible')
         /\ possible' = WithoutOwners(allocation, list) (+) HeldBag(Wanting(list), Placed(w), 1..level)
<1> DEFINE alt == CurrentAlternative
           x == [stack[level] EXCEPT !.start = w.start, !.end = w.end]
           s == Placed(w)
           q == RangeOf(Entry, alt, Attributes(Entry), w.start, w.end)
           A == WithoutOwners(allocation, list)
           H == HeldBag(Wanting(list), stack, 1..(level - 1))
<1>1. /\ level \in 1..Len(stack) /\ Len(stack) \in Nat /\ stack \in Seq(Frame) /\ level \in Nat \ {0}
      /\ Len(stack) = Len(Wanting(list)) /\ ~backtracking
      /\ stack[level] \in Frame /\ stack[level].cur # 0 /\ stack[level].cur \in 0..Len(EntryAt(level).alts)
  BY DEF ArbiterInv, StackInv
<1>2. Entry = EntryAt(level) /\ Current = stack[level] /\ alt = AlternativeAt(level)
  BY DEF Entry, EntryAt, Current, CurrentAlternative, AlternativeAt
<1>3. /\ Entry.owner \in Device /\ Sensible(alt)
      /\ Entry \in Request /\ Current.cur \in DOMAIN Entry.alts
  <2>1. /\ EntryAt(level).owner \in Device /\ EntryAt(level) \in Request
        /\ DOMAIN EntryAt(level).alts = 1..Len(EntryAt(level).alts)
        /\ Len(EntryAt(level).alts) \in Nat /\ \A k \in 1..Len(EntryAt(level).alts) : Sensible(EntryAt(level).alts[k])
    BY <1>1, EntryType DEF ArbiterInv, TypeInv
  <2>2. stack[level].cur \in 1..Len(EntryAt(level).alts)
    BY <1>1, <2>1
  <2> QED BY <1>2, <2>1, <2>2 DEF AlternativeAt
<1>4. WindowInv(Entry, alt, Current)
  BY <1>2 DEF ArbiterInv, WindowsInv
<1>5. RangeBag(possible) /\ RangeBag(allocation) /\ \A r \in Ranges(possible) : IsRange(r)
  BY DEF ArbiterInv, TypeInv, RangeBag
<1>6. /\ w.start \in Address /\ w.end \in Int
      /\ Current.lo <= w.start
      /\ alt.len = 0 => w.start = Current.lo /\ w.start <= Current.hi
      /\ alt.len # 0 =>
           /\ w.start % alt.align = 0
           /\ w.end = w.start + alt.len - 1 /\ w.end <= Current.hi
           /\ \A r \in Ranges(possible) : Compatible(q, r) /\ Compatible(r, q)
  BY <1>3, <1>4, <1>5, FoundPlace
<1>7. w.start \in Int
  BY <1>6, ArbiterAssumption DEF Address
<1>8. /\ x \in Frame /\ x.cur = stack[level].cur /\ x.prio = stack[level].prio
      /\ x.lo = Current.lo /\ x.hi = Current.hi /\ x.start = w.start /\ x.end = w.end
  BY <1>1, <1>2, <1>6, <1>7 DEF Frame
<1>9. s = [stack EXCEPT ![level] = x]
  BY <1>1 DEF Placed
<1> HIDE DEF x, alt, s
<1>10. /\ s \in Seq(Frame) /\ Len(s) = Len(stack) /\ s[level] = x
       /\ \A i \in 1..Len(stack) : i # level => s[i] = stack[i]
  BY <1>1, <1>8, <1>9
<1>11. WindowInv(EntryAt(level), AlternativeAt(level), x)
  BY <1>2, <1>4, <1>8 DEF WindowInv
<1>12. PlaceInv(AlternativeAt(level), x)
  BY <1>2, <1>6, <1>8 DEF PlaceInv
<1>13. possible = A (+) H
  BY <1>1 DEF ArbiterInv, CopyInv, Settled
<1>14. HeldBag(Wanting(list), s, 1..(level - 1)) = H
  <2>1. \A i \in 1..(level - 1) : i \in 1..Len(stack) /\ i # level
    BY <1>1
  <2>2. SameHeld(s, stack, 1..(level - 1))
    BY <1>10, <2>1 DEF SameHeld
  <2> QED BY <2>2, HeldSame
<1>15. HeldBag(Wanting(list), s, 1..level) = IF alt.len = 0 THEN H ELSE H (+) SetToBag({q})
  <2>1. Wanting(list)[level].alts[s[level].cur] = alt
    BY <1>8, <1>10 DEF alt, CurrentAlternative, Entry, Current
  <2>2. HeldRange(Wanting(list)[level], s[level]) = q
    BY <1>8, <1>10, <2>1 DEF HeldRange, Entry
  <2>3. HeldBag(Wanting(list), s, 1..level) =
          IF Wanting(list)[level].alts[s[level].cur].len = 0 THEN HeldBag(Wanting(list), s, 1..(level - 1))
          ELSE HeldBag(Wanting(list), s, 1..(level - 1)) (+) SetToBag({HeldRange(Wanting(list)[level], s[level])})
    BY <1>1, HeldOneMore
  <2> HIDE DEF q, H
  <2> QED BY <1>14, <2>1, <2>2, <2>3
<1>16. CASE alt.len = 0
  <2>1. possible' = possible
    BY <1>16 DEF Place, alt
  <2>2. possible' = A (+) HeldBag(Wanting(list), s, 1..level)
    <3> HIDE DEF A, H
    <3> QED BY <1>13, <1>15, <1>16, <2>1
  <2>3. RangeBag(possible') /\ Exclusive(possible')
    BY <1>5, <2>1 DEF ArbiterInv
  <2> QED BY <1>8, <1>10, <1>11, <1>12, <2>2, <2>3 DEF s
<1>17. CASE alt.len # 0
  <2>1. possible' = possible (+) SetToBag({q})
    BY <1>17 DEF Place, alt
  <2>2. IsABag(A) /\ IsABag(H) /\ IsABag(SetToBag({q})) /\ DOMAIN SetToBag({q}) = {q} /\ IsABag(possible)
    <3>1. IsABag(A) /\ IsABag(possible)
      BY <1>5, WithoutOwnersBag DEF RangeBag
    <3>2. IsABag(H)
      BY <1>1, HeldRanges
    <3>3. IsABag(SetToBag({q})) /\ DOMAIN SetToBag({q}) = {q}
      BY BagOfOne
    <3> QED BY <3>1, <3>2, <3>3
  <2>3. IsRange(q)
    <3>1. w.end <= alt.max
      <4>1. Current.hi <= alt.max /\ Current.hi \in Int /\ alt.max \in Int
        BY <1>1, <1>2, <1>3, <1>4, AlternativeType DEF WindowInv, Frame
      <4> QED BY <1>6, <1>17, <4>1
    <3>2. Attributes(Entry) \subseteq {"alias", "bootAllocated"}
      BY AttributesType DEF Attributes
    <3> QED BY <1>3, <1>6, <1>17, <3>1, <3>2, HeldIsRange
  <2> HIDE DEF q, A, H
  <2>4. possible' = A (+) (H (+) SetToBag({q}))
    BY <1>13, <2>1, <2>2, UnionAssociates
  <2>5. possible' = A (+) HeldBag(Wanting(list), s, 1..level)
    BY <1>15, <1>17, <2>4
  <2>6. IsABag(possible') /\ Ranges(possible') = Ranges(possible) \union {q}
    BY <2>1, <2>2, UnionOfBags DEF Ranges, BagToSet
  <2>7. RangeBag(possible')
    BY <1>5, <2>3, <2>6 DEF RangeBag
  <2>8. Exclusive(possible')
    <3>1. ASSUME NEW a \in Ranges(possible'), NEW b \in Ranges(possible') PROVE Compatible(a, b)
      <4>1. CASE a \in Ranges(possible) /\ b \in Ranges(possible)
        BY <4>1 DEF ArbiterInv, Exclusive
      <4>2. CASE a = q /\ b \in Ranges(possible)
        BY <1>6, <1>17, <4>2 DEF q
      <4>3. CASE a \in Ranges(possible) /\ b = q
        BY <1>6, <1>17, <4>3 DEF q
      <4>4. CASE a = q /\ b = q
        BY <4>4 DEF Compatible
      <4> QED BY <2>6, <4>1, <4>2, <4>3, <4>4
    <3> QED BY <3>1 DEF Exclusive
  <2> QED BY <1>8, <1>10, <1>11, <1>12, <2>5, <2>7, <2>8 DEF s, A
<1> QED BY <1>16, <1>17

LEMMA FindPlacePreserves ==
  ASSUME ArbiterInv, FindPlace, UNCHANGED <<busVars, allocation, booted>>
  PROVE  ArbiterInv'
<1>1. /\ pc = "find" /\ level < Len(stack) /\ level' = level + 1 /\ pc' = "enter"
      /\ UNCHANGED <<backtracking, TransactionInProgress, tested, assigned, list>>
  BY DEF FindPlace, Goes
<1>2. PICK w \in Found : Place(w) /\ stack' = Placed(w)
  BY DEF FindPlace
<1>3. /\ stack' \in Seq(Frame) /\ Len(stack') = Len(stack)
      /\ \A i \in 1..Len(stack) : i # level => stack'[i] = stack[i]
      /\ stack'[level].cur = stack[level].cur /\ stack'[level].prio = stack[level].prio
      /\ WindowInv(EntryAt(level), AlternativeAt(level), stack'[level])
      /\ PlaceInv(AlternativeAt(level), stack'[level])
      /\ RangeBag(possible') /\ Exclusive(possible')
      /\ possible' = WithoutOwners(allocation, list) (+) HeldBag(Wanting(list), stack', 1..level)
  BY <1>1, <1>2, PlaceAdds
<1>4. /\ level \in 1..Len(stack) /\ Len(stack) \in Nat /\ stack \in Seq(Frame)
      /\ \A i \in 1..Len(stack) :
           stack[i].cur \in 0..Len(EntryAt(i).alts) /\ DOMAIN stack[i].prio = DOMAIN EntryAt(i).alts
      /\ Len(stack) = Len(Wanting(list)) /\ ~backtracking /\ ~TransactionInProgress
      /\ stack[level].cur # 0 /\ \A i \in Settled : stack[i].cur # 0
  BY <1>1 DEF ArbiterInv, StackInv
<1>5. /\ Settled = 1..(level - 1) /\ Settled' = 1..level
      /\ \A i \in 1..level : i \in 1..Len(stack) /\ (i = level \/ (i \in Settled /\ i # level))
  BY <1>1, <1>4 DEF Settled
<1>6. \A i : EntryAt(i)' = EntryAt(i)
  BY <1>1 DEF EntryAt
<1>7. \A i \in 1..Len(stack) : stack'[i].cur = stack[i].cur /\ stack'[i].prio = stack[i].prio
  BY <1>3
<1>8. TypeInv' /\ AssignedInv' /\ TransactionInv' /\ Exclusive(allocation')
  <2>1. backtracking' \in BOOLEAN
    BY <1>1 DEF ArbiterInv, TypeInv
  <2> QED BY <1>1, <1>3, <2>1, SearchGoesOn
<1>9. StackInv'
  <2>1. ASSUME NEW i \in 1..Len(stack')
        PROVE  stack'[i].cur \in 0..Len(EntryAt(i)'.alts) /\ DOMAIN stack'[i].prio = DOMAIN EntryAt(i)'.alts
    BY <1>3, <1>4, <1>6, <1>7
  <2>2. \A i \in Settled' : stack'[i].cur # 0
    BY <1>4, <1>5, <1>7
  <2>3. level' \in 1..Len(stack') /\ Len(stack') = Len(Wanting(list)')
    BY <1>1, <1>3, <1>4
  <2> QED BY <1>1, <1>3, <1>4, <2>1, <2>2, <2>3 DEF StackInv
<1>10. PriorityInv'
  <2>1. ASSUME NEW i \in 1..Len(stack'), stack'[i].cur # 0, NEW k \in DOMAIN EntryAt(i)'.alts
        PROVE  IsPriority(EntryAt(i)'.alts[k], stack'[i].prio[k], OrderingList(EntryAt(i))')
    <3>1. OrderingList(EntryAt(i))' = OrderingList(EntryAt(i))
      BY <1>6 DEF OrderingList, HasPrefetchableResource, busVars
    <3>2. IsPriority(EntryAt(i).alts[k], stack[i].prio[k], OrderingList(EntryAt(i)))
      BY <1>1, <1>3, <1>6, <1>7, <2>1 DEF ArbiterInv, PriorityInv
    <3> QED BY <1>3, <1>6, <1>7, <3>1, <3>2
  <2> QED BY <2>1 DEF PriorityInv
<1>11. WindowsInv'
  <2>1. ASSUME NEW i \in 1..level
        PROVE  WindowInv(EntryAt(i), AlternativeAt(i), stack[i])' /\ PlaceInv(AlternativeAt(i), stack[i])'
    <3>1. CASE i = level
      <4>1. EntryAt(i)' = EntryAt(i) /\ i \in 1..Len(stack)
        BY <1>5, <1>6
      <4>2. WindowInv(EntryAt(i), AlternativeAt(i), stack'[i]) /\ PlaceInv(AlternativeAt(i), stack'[i])
        BY <1>3, <3>1
      <4>3. AlternativeAt(i)' = AlternativeAt(i)
        BY <1>7, <4>1 DEF AlternativeAt
      <4> QED BY <4>1, <4>2, <4>3 DEF WindowInv, KeptFromWindows, PlaceInv, busVars
    <3>2. CASE i # level
      <4>1. i \in Settled /\ stack'[i] = stack[i]
        BY <1>3, <1>5, <3>2
      <4>2. WindowInv(EntryAt(i), AlternativeAt(i), stack[i]) /\ PlaceInv(AlternativeAt(i), stack[i])
        BY <1>1, <4>1 DEF ArbiterInv, WindowsInv
      <4> QED BY <1>1, <4>1, <4>2, FrameKept
    <3> QED BY <3>1, <3>2
  <2> QED BY <1>1, <1>5, <2>1 DEF WindowsInv
<1>12. CopyInv'
  BY <1>1, <1>3, <1>5 DEF CopyInv
<1> QED BY <1>3, <1>8, <1>9, <1>10, <1>11, <1>12 DEF ArbiterInv

\* What a settled frame comes to: the assignment of a place that the entry asks
\* for, which is the range it holds.
LEMMA FrameAssigned ==
  ASSUME TypeInv, NEW e, NEW alt, Sensible(alt), NEW x, x.start \in Int, x.end \in Int,
         WindowInv(e, alt, x), PlaceInv(alt, x)
  PROVE  /\ x.start \in Address
         /\ x.start >= alt.min /\ x.start + alt.len <= alt.max + 1
         /\ alt.len # 0 => x.start % alt.align = 0 /\ x.end = x.start + alt.len - 1
         /\ KeptFromWindows(e, alt) =>
              \A n \in DOMAIN windows : ~Overlap(x.start, x.start + alt.len - 1, windows[n].start, windows[n].end)
<1>1. /\ Top \in Nat /\ alt.min \in Int /\ alt.max \in Int /\ alt.len \in Int /\ 0 <= alt.len
      /\ 0 <= alt.min /\ alt.max <= Top /\ alt.align \in Nat \ {0}
  BY AlternativeType
<1>2. /\ x.lo \in Int /\ x.hi \in Int /\ 0 <= x.lo /\ x.hi <= Top
      /\ alt.min <= x.lo /\ x.hi <= alt.max
  BY <1>1 DEF WindowInv, Address
<1>3. /\ x.lo <= x.start
      /\ alt.len = 0 => x.start = x.lo /\ x.start <= x.hi
      /\ alt.len # 0 => x.start % alt.align = 0 /\ x.end = x.start + alt.len - 1 /\ x.end <= x.hi
  BY DEF PlaceInv
<1>4. x.start \in Address /\ x.start >= alt.min /\ x.start + alt.len <= alt.max + 1
  BY <1>1, <1>2, <1>3 DEF Address
<1>5. ASSUME KeptFromWindows(e, alt), NEW n \in DOMAIN windows
      PROVE  ~Overlap(x.start, x.start + alt.len - 1, windows[n].start, windows[n].end)
  <2>1. windows[n].start \in Int /\ windows[n].end \in Int
    <3>1. windows # <<>>
      BY <1>5
    <3>2. windows \in Seq(WindowType)
      BY <3>1, OrderingTypes DEF TypeInv
    <3>3. windows[n] \in WindowType
      BY <3>2
    <3> QED BY <1>1, <3>3 DEF WindowType, Address
  <2>2. x.hi < windows[n].start \/ windows[n].end < x.lo
    BY <1>5 DEF WindowInv
  <2>3. alt.len # 0
    BY <1>5 DEF KeptFromWindows
  <2> QED BY <1>1, <1>2, <1>3, <2>1, <2>2, <2>3 DEF Overlap
<1> QED BY <1>3, <1>4, <1>5

\* The last place: the search has assigned something to every entry that wants it.
LEMMA FindLastPlacePreserves ==
  ASSUME ArbiterInv, FindLastPlace, UNCHANGED <<busVars, allocation, booted>>
  PROVE  ArbiterInv'
<1>1. /\ pc = "find" /\ level = Len(stack) /\ tested' = list /\ TransactionInProgress' = TRUE
      /\ pc' = "idle" /\ level' = 0 /\ backtracking' = FALSE /\ stack' = <<>> /\ list' = list
  BY DEF FindLastPlace, Ends
<1>2. PICK w \in Found : Place(w) /\ Assign(Wanting(list), Placed(w))
  BY DEF FindLastPlace
<1> DEFINE s == Placed(w)
           n == Len(stack)
           E(i) == Wanting(list)[i]
           alt(i) == E(i).alts[s[i].cur]
<1>3. /\ s \in Seq(Frame) /\ Len(s) = n
      /\ \A i \in 1..n : i # n => s[i] = stack[i]
      /\ s[n].cur = stack[n].cur
      /\ WindowInv(EntryAt(n), AlternativeAt(n), s[n])
      /\ PlaceInv(AlternativeAt(n), s[n])
      /\ RangeBag(possible') /\ Exclusive(possible')
      /\ possible' = WithoutOwners(allocation, list) (+) HeldBag(Wanting(list), s, 1..n)
  BY <1>1, <1>2, PlaceAdds
<1>4. /\ n \in Nat \ {0} /\ n = Len(Wanting(list)) /\ ~backtracking
      /\ Settled = 1..(n - 1)
      /\ \A i \in 1..n : stack[i].cur # 0 /\ stack[i].cur \in 0..Len(EntryAt(i).alts)
  <2>1. n \in Nat \ {0} /\ n = Len(Wanting(list)) /\ ~backtracking /\ Settled = 1..(n - 1)
    BY <1>1 DEF ArbiterInv, StackInv, Settled
  <2>2. ASSUME NEW i \in 1..n PROVE stack[i].cur # 0 /\ stack[i].cur \in 0..Len(EntryAt(i).alts)
    <3>1. i = n \/ i \in Settled
      BY <2>1
    <3> QED BY <1>1, <3>1 DEF ArbiterInv, StackInv
  <2> QED BY <2>1, <2>2
<1>5. assigned' = [i \in 1..n |-> [entry |-> E(i), alt |-> alt(i), start |-> s[i].start]]
  <2>1. DOMAIN s = 1..n
    BY <1>3, <1>4
  <2> HIDE DEF s
  <2> QED BY <1>2, <2>1 DEF Assign, s
<1> HIDE DEF s
<1>6. ASSUME NEW i \in 1..n
      PROVE  /\ E(i) \in Request /\ E(i).owner \in Owners(list)
             /\ Sensible(alt(i)) /\ alt(i) \in {E(i).alts[k] : k \in DOMAIN E(i).alts}
             /\ WindowInv(E(i), alt(i), s[i]) /\ PlaceInv(alt(i), s[i])
             /\ s[i].start \in Int /\ s[i].end \in Int
  <2>1. E(i) = EntryAt(i)
    BY DEF EntryAt
  <2>2. s[i].cur = stack[i].cur
    BY <1>3
  <2>3. alt(i) = AlternativeAt(i)
    BY <2>1, <2>2 DEF AlternativeAt
  <2>4. /\ EntryAt(i) \in Request /\ EntryAt(i).owner \in Owners(list)
        /\ Len(EntryAt(i).alts) \in Nat /\ DOMAIN EntryAt(i).alts = 1..Len(EntryAt(i).alts)
        /\ \A k \in 1..Len(EntryAt(i).alts) : Sensible(EntryAt(i).alts[k])
    BY <1>4, EntryType DEF ArbiterInv, TypeInv
  <2>5. s[i].cur \in 1..Len(EntryAt(i).alts)
    BY <1>4, <2>2, <2>4
  <2>6. WindowInv(EntryAt(i), AlternativeAt(i), s[i]) /\ PlaceInv(AlternativeAt(i), s[i])
    <3>1. CASE i = n
      BY <1>3, <3>1
    <3>2. CASE i # n
      <4>1. i \in Settled /\ s[i] = stack[i]
        BY <1>3, <1>4, <3>2
      <4> QED BY <1>1, <4>1 DEF ArbiterInv, WindowsInv
    <3> QED BY <3>1, <3>2
  <2>7. s[i] \in Frame
    BY <1>3
  <2>8. s[i].start \in Int /\ s[i].end \in Int
    BY <2>7 DEF Frame
  <2> HIDE DEF E
  <2> QED BY <2>1, <2>3, <2>4, <2>5, <2>6, <2>8
<1>7. ASSUME NEW i \in 1..n
      PROVE  /\ s[i].start \in Address
             /\ s[i].start >= alt(i).min /\ s[i].start + alt(i).len <= alt(i).max + 1
             /\ alt(i).len # 0 => s[i].start % alt(i).align = 0 /\ s[i].end = s[i].start + alt(i).len - 1
             /\ KeptFromWindows(E(i), alt(i)) =>
                  \A m \in DOMAIN windows :
                    ~Overlap(s[i].start, s[i].start + alt(i).len - 1, windows[m].start, windows[m].end)
  <2>1. /\ Sensible(alt(i)) /\ WindowInv(E(i), alt(i), s[i]) /\ PlaceInv(alt(i), s[i])
        /\ s[i].start \in Int /\ s[i].end \in Int /\ TypeInv
    BY <1>6 DEF ArbiterInv
  <2> HIDE DEF E, alt
  <2> QED BY <2>1, FrameAssigned
<1>8. /\ DOMAIN assigned' = 1..n
      /\ \A i \in 1..n : assigned'[i].entry = E(i) /\ assigned'[i].alt = alt(i) /\ assigned'[i].start = s[i].start
  BY <1>5
<1>9. Holding' = {i \in 1..n : alt(i).len # 0}
  BY <1>8 DEF Holding
<1>10. \A i \in 1..n : alt(i).len # 0 => RangeAssigned(assigned'[i]) = HeldRange(E(i), s[i])
  <2>1. ASSUME NEW i \in 1..n, alt(i).len # 0 PROVE RangeAssigned(assigned'[i]) = HeldRange(E(i), s[i])
    <3>1. HeldRange(E(i), s[i]) = RangeOf(E(i), alt(i), Attributes(E(i)), s[i].start, s[i].end)
      BY DEF HeldRange
    <3>2. s[i].end = s[i].start + alt(i).len - 1
      BY <1>7, <2>1
    <3>3. RangeAssigned(assigned'[i]) =
            RangeOf(E(i), alt(i), Attributes(E(i)), s[i].start, s[i].start + alt(i).len - 1)
      BY <1>8 DEF RangeAssigned, RangeAt
    <3> HIDE DEF E, alt
    <3> QED BY <3>1, <3>2, <3>3
  <2> QED BY <2>1
<1> DEFINE A == WithoutOwners(allocation, list)
           H == HeldBag(Wanting(list), s, 1..n)
<1>11. /\ IsABag(A) /\ IsABag(H)
       /\ Ranges(H) = {HeldRange(E(i), s[i]) : i \in {i \in 1..n : alt(i).len # 0}}
  <2>1. IsABag(A)
    BY WithoutOwnersBag DEF ArbiterInv, TypeInv, RangeBag
  <2>2. n \in Int
    BY <1>4
  <2> HIDE DEF n
  <2>3. IsABag(H) /\ Ranges(H) = RangesHeld(Wanting(list), s, 1..n)
    BY <2>2, HeldRanges, Zenon
  <2> QED BY <2>1, <2>3 DEF RangesHeld
<1>12. Ranges(possible') = Ranges(A) \union Ranges(H)
  <2> HIDE DEF A, H
  <2>1. DOMAIN possible' = DOMAIN A \union DOMAIN H
    BY <1>3, <1>11, UnionOfBags DEF A, H
  <2> QED BY <2>1 DEF Ranges, BagToSet
<1> HIDE DEF A
<1>13. AssignedInv'
  <2>1. assigned' \in Seq([entry : Request, alt : Alternative, start : Address])
    <3>1. ASSUME NEW i \in 1..n
          PROVE  [entry |-> E(i), alt |-> alt(i), start |-> s[i].start] \in [entry : Request, alt : Alternative, start : Address]
      <4>1. E(i) \in Request /\ alt(i) \in Alternative /\ s[i].start \in Address
        BY <1>6, <1>7 DEF Sensible
      <4> HIDE DEF E, alt
      <4> QED BY <4>1
    <3>2. n \in Nat
      BY <1>4
    <3> HIDE DEF E, alt, n
    <3> DEFINE R == [entry : Request, alt : Alternative, start : Address]
    <3>3. \A i \in 1..n : assigned'[i] \in R
      BY <1>5, <3>1
    <3>4. assigned' = [i \in 1..n |-> assigned'[i]]
      BY <1>5
    <3> HIDE DEF R
    <3>5. assigned' \in [1..n -> R]
      BY <3>3, <3>4
    <3>6. assigned' \in Seq(R)
      BY <3>2, <3>5
    <3> QED BY <3>6 DEF R
  <2>2. \A i \in DOMAIN assigned' : assigned'[i].entry.owner \in Owners(tested')
    BY <1>1, <1>6, <1>8
  <2>3. AssignedAsAsked'
    <3>1. ASSUME NEW i \in 1..n
          PROVE  /\ alt(i) \in {E(i).alts[k] : k \in DOMAIN E(i).alts}
                 /\ s[i].start >= alt(i).min /\ s[i].start + alt(i).len <= alt(i).max + 1
                 /\ alt(i).len # 0 => s[i].start % alt(i).align = 0
      BY <1>6, <1>7
    <3> HIDE DEF E, alt
    <3> QED BY <1>8, <3>1 DEF AssignedAsAsked
  <2>4. \A i \in DOMAIN assigned' : \A m \in DOMAIN windows' :
          KeptFromWindows(assigned'[i].entry, assigned'[i].alt) =>
            ~Overlap(assigned'[i].start, assigned'[i].start + assigned'[i].alt.len - 1, windows'[m].start, windows'[m].end)
    <3>1. windows' = windows
      BY DEF busVars
    <3> HIDE DEF E, alt
    <3> QED BY <1>7, <1>8, <3>1
  <2>5. ASSUME NEW i \in Holding' PROVE RangeAssigned(assigned'[i]) \in Ranges(H)
    <3>1. i \in 1..n /\ alt(i).len # 0
      BY <1>9
    <3> HIDE DEF E, alt, H
    <3> QED BY <1>10, <1>11, <3>1
  <2>6. ASSUME NEW i \in Holding', NEW q \in Ranges(A) PROVE Compatible(q, RangeAssigned(assigned'[i]))
    BY <1>3, <1>12, <2>5 DEF Exclusive
  <2>7. ASSUME NEW i \in Holding', NEW j \in Holding'
        PROVE  Compatible(RangeAssigned(assigned'[i]), RangeAssigned(assigned'[j]))
    <3>1. RangeAssigned(assigned'[i]) \in Ranges(possible') /\ RangeAssigned(assigned'[j]) \in Ranges(possible')
      BY <1>12, <2>5
    <3> QED BY <1>3, <3>1 DEF Exclusive
  <2>8. WithoutOwners(allocation', tested') = A
    BY <1>1 DEF A
  <2> HIDE DEF E, alt, H
  <2> QED BY <2>1, <2>2, <2>3, <2>4, <2>6, <2>7, <2>8 DEF AssignedInv
<1>14. TransactionInv'
  <2> DEFINE more == [i \in 1..n |-> {}]
             F == [i \in {i \in 1..n : assigned'[i].alt.len # 0} |->
                     RangeAt(assigned'[i].entry, assigned'[i].alt, Attributes(assigned'[i].entry) \union more[i], assigned'[i].start)]
             G == [i \in {i \in 1..n : Wanting(list)[i].alts[s[i].cur].len # 0} |-> HeldRange(Wanting(list)[i], s[i])]
  <2>1. \A i \in 1..n : Attributes(assigned'[i].entry) \union more[i] = Attributes(assigned'[i].entry)
    OBVIOUS
  <2>2. F = G
    <3>1. {i \in 1..n : assigned'[i].alt.len # 0} = {i \in 1..n : Wanting(list)[i].alts[s[i].cur].len # 0}
      BY <1>8
    <3>2. ASSUME NEW i \in 1..n, alt(i).len # 0
          PROVE  RangeAt(assigned'[i].entry, assigned'[i].alt, Attributes(assigned'[i].entry) \union more[i], assigned'[i].start)
                   = HeldRange(Wanting(list)[i], s[i])
      BY <1>10, <2>1, <3>2 DEF RangeAssigned
    <3> HIDE DEF more
    <3> QED BY <3>1, <3>2
  <2>3. HeldBag(Wanting(list), s, 1..n) = Values(F)
    <3>1. HeldBag(Wanting(list), s, 1..n) = Values(G)
      BY DEF HeldBag
    <3> HIDE DEF F, G
    <3> QED BY <2>2, <3>1
  <2>4. more \in [DOMAIN assigned' -> SUBSET {"alias"}]
    BY <1>8
  <2> HIDE DEF more
  <2>5. possible' = WithoutOwners(allocation, list) (+) Values(F)
    BY <1>3, <2>3
  <2>6. F = [i \in {i \in DOMAIN assigned' : assigned'[i].alt.len # 0} |->
               RangeAt(assigned'[i].entry, assigned'[i].alt, Attributes(assigned'[i].entry) \union more[i], assigned'[i].start)]
    BY <1>8
  <2> HIDE DEF F
  <2>7. CopyIsTheAssignment'
    BY <1>1, <2>4, <2>5, <2>6 DEF CopyIsTheAssignment
  <2> QED BY <1>1, <2>7 DEF TransactionInv
<1>15. TypeInv'
  BY <1>1, <1>3 DEF ArbiterInv, TypeInv, busVars
<1>16. StackInv' /\ PriorityInv' /\ WindowsInv' /\ CopyInv'
  BY <1>1 DEF StackInv, PriorityInv, WindowsInv, CopyInv
<1>17. Exclusive(allocation') /\ Exclusive(possible')
  BY <1>3 DEF ArbiterInv
<1> QED BY <1>13, <1>14, <1>15, <1>16, <1>17 DEF ArbiterInv

-----------------------------------------------------------------------------
(* The handlers.                                                           *)

\* Without some of its ranges a bag of ranges is one still, and exclusive.
LEMMA WithoutIsPart ==
  ASSUME NEW A, RangeBag(A), Exclusive(A), NEW l
  PROVE  RangeBag(WithoutOwners(A, l)) /\ Exclusive(WithoutOwners(A, l))
<1>1. IsABag(WithoutOwners(A, l)) /\ Ranges(WithoutOwners(A, l)) \subseteq Ranges(A)
  BY WithoutOwnersBag DEF RangeBag
<1> QED BY <1>1, ExclusivePart DEF RangeBag

\* A copy holds what the others have and what has been assigned.
IsCopyOf(bag, others, x) ==
  \E more \in [DOMAIN x -> SUBSET {"alias"}] :
    bag = others (+)
      Values([i \in {i \in DOMAIN x : x[i].alt.len # 0} |->
        RangeAt(x[i].entry, x[i].alt, Attributes(x[i].entry) \union more[i], x[i].start)])

\* A copy with nothing assigned is what the other devices have.
LEMMA NothingAssigned ==
  ASSUME NEW A, IsABag(A)
  PROVE  IsCopyOf(A, A, <<>>)
<1> DEFINE x == <<>>
           more == [i \in {} |-> {}]
           F == [i \in {i \in DOMAIN x : x[i].alt.len # 0} |->
                   RangeAt(x[i].entry, x[i].alt, Attributes(x[i].entry) \union more[i], x[i].start)]
<1>1. DOMAIN x = {}
  OBVIOUS
<1>2. DOMAIN F = {}
  BY <1>1
<1>3. more \in [DOMAIN x -> SUBSET {"alias"}]
  BY <1>1
<1>4. A = A (+) Values(F)
  <2> HIDE DEF F
  <2> QED BY <1>2, HeldByNone
<1> QED BY <1>3, <1>4 DEF IsCopyOf

\* A new stack has tried nothing yet.
LEMMA NewStack ==
  ASSUME NEW l \in Seq(Request), NEW s, s = [i \in DOMAIN Wanting(l) |-> StackEntry(Wanting(l)[i])]
  PROVE  /\ s \in Seq(Frame) /\ Len(s) = Len(Wanting(l)) /\ Len(s) \in Nat
         /\ \A i \in 1..Len(s) :
              /\ s[i].cur = 0 /\ s[i].cur \in 0..Len(Wanting(l)[i].alts)
              /\ DOMAIN s[i].prio = DOMAIN Wanting(l)[i].alts
<1> DEFINE W == Wanting(l)
           n == Len(W)
<1>1. W \in Seq({l[j] : j \in {j \in DOMAIN l : l[j].alts # <<>>}})
  BY WantingType
<1>2. DOMAIN W = 1..n /\ n \in Nat
  BY <1>1
<1>3. ASSUME NEW i \in 1..n
      PROVE  /\ s[i] \in Frame /\ s[i].cur = 0 /\ s[i].cur \in 0..Len(W[i].alts)
             /\ DOMAIN s[i].prio = DOMAIN W[i].alts
  <2>1. W[i] \in Request
    BY <1>2, WantedRequest
  <2>2. W[i].alts \in Seq(Alternative)
    BY <2>1, RequestType
  <2>3. Len(W[i].alts) \in Nat /\ DOMAIN W[i].alts = 1..Len(W[i].alts)
    BY <2>2
  <2> DEFINE prio == [k \in DOMAIN W[i].alts |-> PRIORITY_NULL]
  <2>4. prio \in Seq(Int) /\ DOMAIN prio = DOMAIN W[i].alts
    <3> DEFINE m == Len(W[i].alts)
    <3>1. prio \in [1..m -> Int] /\ m \in Nat /\ DOMAIN prio = DOMAIN W[i].alts
      BY <2>3 DEF PRIORITY_NULL
    <3> HIDE DEF W, prio, m
    <3>2. prio \in Seq(Int)
      BY <3>1
    <3> QED BY <3>1, <3>2
  <2>5. s[i] = [cur |-> 0, lo |-> 0, hi |-> 0, start |-> 1, end |-> 0, prio |-> prio]
    BY <1>2 DEF StackEntry
  <2> HIDE DEF prio, W
  <2> QED BY <2>3, <2>4, <2>5 DEF Frame
<1>4. DOMAIN s = 1..n
  BY <1>2
<1> HIDE DEF W, n
<1>5. s = [i \in 1..n |-> s[i]]
  BY <1>4
<1>6. s \in Seq(Frame) /\ Len(s) = n
  <2>1. s \in [1..n -> Frame]
    BY <1>3, <1>5
  <2> QED BY <1>2, <2>1
<1> QED BY <1>2, <1>3, <1>6 DEF W, n

\* What is not of a search, between searches.
LEMMA NoSearch ==
  ASSUME pc' = "idle"
  PROVE  StackInv' /\ PriorityInv' /\ WindowsInv' /\ CopyInv'
BY DEF StackInv, PriorityInv, WindowsInv, CopyInv

\* Nothing is assigned yet.
LEMMA NoAssignment ==
  ASSUME assigned' = <<>>
  PROVE  AssignedInv'
<1>1. assigned' \in Seq([entry : Request, alt : Alternative, start : Address]) /\ DOMAIN assigned' = {}
  OBVIOUS
<1>2. Holding' = {}
  BY <1>1 DEF Holding
<1> QED BY <1>1, <1>2 DEF AssignedInv, AssignedAsAsked

LEMMA TestAllocationPreserves ==
  ASSUME ArbiterInv, NEW l \in Lists, TestAllocation(l)
  PROVE  ArbiterInv'
<1> DEFINE m == Sorted(l)
           A == WithoutOwners(allocation, l)
<1>1. /\ pc = "idle" /\ ~TransactionInProgress /\ possible' = A /\ list' = m
      /\ UNCHANGED <<busVars, allocation, booted, backtracking>>
  BY DEF TestAllocation, Idle
<1>2. \/ /\ TransactionInProgress' = TRUE /\ tested' = m /\ assigned' = <<>>
         /\ UNCHANGED <<pc, level, stack>>
      \/ /\ Wanting(m) # <<>> /\ pc' = "enter" /\ level' = 1
         /\ stack' = [i \in DOMAIN Wanting(m) |-> StackEntry(Wanting(m)[i])]
         /\ UNCHANGED <<TransactionInProgress, tested, assigned>>
  BY DEF TestAllocation
<1>3. m \in Seq(Request) /\ Owners(m) = Owners(l)
  BY SortedList
<1>4. A = WithoutOwners(allocation, m)
  BY <1>3, WithoutSameOwners
<1>5. RangeBag(A) /\ Exclusive(A) /\ IsABag(A)
  BY WithoutIsPart DEF ArbiterInv, TypeInv, RangeBag
<1>6. level = 0 /\ stack = <<>> /\ ~backtracking
  BY <1>1 DEF ArbiterInv, TypeInv
<1>7. Exclusive(allocation') /\ Exclusive(possible')
  BY <1>1, <1>5 DEF ArbiterInv
<1> HIDE DEF m, A
<1>8. CASE /\ TransactionInProgress' = TRUE /\ tested' = m /\ assigned' = <<>>
           /\ UNCHANGED <<pc, level, stack>>
  <2>1. TypeInv'
    BY <1>1, <1>3, <1>5, <1>6, <1>8 DEF ArbiterInv, TypeInv, busVars
  <2>2. StackInv' /\ PriorityInv' /\ WindowsInv' /\ CopyInv'
    BY <1>1, <1>8 DEF StackInv, PriorityInv, WindowsInv, CopyInv
  <2>3. AssignedInv'
    BY <1>8, NoAssignment
  <2>4. TransactionInv'
    <3>1. IsCopyOf(A, A, <<>>)
      BY <1>5, NothingAssigned
    <3>2. IsCopyOf(possible', WithoutOwners(allocation', list'), assigned')
      BY <1>1, <1>4, <1>8, <3>1
    <3>3. CopyIsTheAssignment'
      BY <1>8, <3>2 DEF CopyIsTheAssignment, IsCopyOf
    <3> QED BY <1>1, <1>8, <3>3 DEF TransactionInv
  <2> QED BY <1>7, <2>1, <2>2, <2>3, <2>4 DEF ArbiterInv
<1>9. CASE /\ Wanting(m) # <<>> /\ pc' = "enter" /\ level' = 1
           /\ stack' = [i \in DOMAIN Wanting(m) |-> StackEntry(Wanting(m)[i])]
           /\ UNCHANGED <<TransactionInProgress, tested, assigned>>
  <2>1. /\ stack' \in Seq(Frame) /\ Len(stack') = Len(Wanting(m)) /\ Len(stack') \in Nat
        /\ \A i \in 1..Len(stack') :
             /\ stack'[i].cur = 0 /\ stack'[i].cur \in 0..Len(Wanting(m)[i].alts)
             /\ DOMAIN stack'[i].prio = DOMAIN Wanting(m)[i].alts
    BY <1>3, <1>9, NewStack
  <2>2. Len(stack') # 0
    <3>1. Wanting(m) \in Seq({m[j] : j \in {j \in DOMAIN m : m[j].alts # <<>>}})
      BY <1>3, WantingType
    <3> QED BY <1>9, <2>1, <3>1
  <2>3. Settled' = {} /\ Settled' = 1..0
    BY <1>1, <1>6, <1>9 DEF Settled
  <2>4. TypeInv'
    BY <1>1, <1>3, <1>5, <1>9 DEF ArbiterInv, TypeInv, busVars
  <2>5. StackInv'
    <3>1. level' \in 1..Len(stack')
      BY <1>9, <2>1, <2>2
    <3> QED BY <1>1, <1>6, <1>9, <2>1, <2>3, <3>1 DEF StackInv, EntryAt
  <2>6. PriorityInv'
    BY <2>1 DEF PriorityInv
  <2>7. WindowsInv'
    BY <1>9, <2>3 DEF WindowsInv
  <2>8. CopyInv'
    <3> DEFINE F == [i \in {i \in Settled' : Wanting(m)[i].alts[stack'[i].cur].len # 0} |-> HeldRange(Wanting(m)[i], stack'[i])]
    <3>1. DOMAIN F = {}
      BY <2>3
    <3>2. HeldBag(Wanting(m), stack', Settled') = Values(F)
      BY DEF HeldBag
    <3> HIDE DEF F
    <3>3. A (+) HeldBag(Wanting(m), stack', Settled') = A
      BY <1>5, <3>1, <3>2, HeldByNone
    <3> QED BY <1>1, <1>4, <3>3 DEF CopyInv
  <2>9. AssignedInv'
    BY <1>1, <1>9, AssignedStands DEF ArbiterInv, busVars
  <2>10. TransactionInv'
    BY <1>1, <1>9 DEF TransactionInv, CopyIsTheAssignment
  <2> QED BY <1>7, <2>4, <2>5, <2>6, <2>7, <2>8, <2>9, <2>10 DEF ArbiterInv
<1> QED BY <1>2, <1>8, <1>9

LEMMA CommitPreserves ==
  ASSUME ArbiterInv, CommitAllocation
  PROVE  ArbiterInv'
<1>1. /\ pc = "idle" /\ allocation' = possible /\ possible' = EmptyBag /\ TransactionInProgress' = FALSE
      /\ tested' = <<>> /\ assigned' = <<>> /\ UNCHANGED <<busVars, booted, list, pc, level, backtracking, stack>>
  BY DEF CommitAllocation, searchVars
<1>2. RangeBag(EmptyBag) /\ Exclusive(EmptyBag)
  BY BagOfNone DEF RangeBag, Exclusive, Ranges, BagToSet
<1>3. TypeInv'
  <2>1. tested' \in Seq(Request)
    BY <1>1
  <2> QED BY <1>1, <1>2, <2>1 DEF ArbiterInv, TypeInv, busVars
<1>4. AssignedInv' /\ StackInv' /\ PriorityInv' /\ WindowsInv' /\ CopyInv'
  BY <1>1, NoSearch, NoAssignment
<1>5. TransactionInv'
  BY <1>1 DEF TransactionInv, CopyIsTheAssignment
<1>6. Exclusive(allocation') /\ Exclusive(possible')
  BY <1>1, <1>2 DEF ArbiterInv
<1> QED BY <1>3, <1>4, <1>5, <1>6 DEF ArbiterInv

LEMMA RollbackPreserves ==
  ASSUME ArbiterInv, RollbackAllocation
  PROVE  ArbiterInv'
<1>1. /\ pc = "idle" /\ possible' = EmptyBag /\ TransactionInProgress' = FALSE
      /\ UNCHANGED <<busVars, allocation, booted, tested, assigned, list, pc, level, backtracking, stack>>
  BY DEF RollbackAllocation, searchVars
<1>2. RangeBag(EmptyBag) /\ Exclusive(EmptyBag)
  BY BagOfNone DEF RangeBag, Exclusive, Ranges, BagToSet
<1>3. TypeInv'
  BY <1>1, <1>2 DEF ArbiterInv, TypeInv, busVars
<1>4. StackInv' /\ PriorityInv' /\ WindowsInv' /\ CopyInv'
  BY <1>1, NoSearch
<1>5. AssignedInv'
  BY <1>1, AssignedStands DEF ArbiterInv, busVars
<1>6. TransactionInv'
  BY <1>1 DEF TransactionInv, CopyIsTheAssignment
<1>7. Exclusive(allocation') /\ Exclusive(possible')
  BY <1>1, <1>2 DEF ArbiterInv
<1> QED BY <1>3, <1>4, <1>5, <1>6, <1>7 DEF ArbiterInv

LEMMA StartPreserves ==
  ASSUME ArbiterInv, NEW ws \in WindowSets, StartArbiter(ws)
  PROVE  ArbiterInv'
<1>1. /\ pc = "idle" /\ ~TransactionInProgress /\ tested' = <<>> /\ assigned' = <<>> /\ windows' = ws
      /\ NormalOrderingList' = (IF ws = <<>> THEN <<>> ELSE Normal(ws))
      /\ PrefetchableOrderingList' = (IF ws = <<>> THEN <<>> ELSE Prefetched(ws))
      /\ UNCHANGED <<allocation, possible, TransactionInProgress, booted, list, pc, level, backtracking, stack>>
  BY DEF StartArbiter, Idle, searchVars
<1>2. TypeInv'
  <2>1. tested' \in Seq(Request)
    BY <1>1
  <2> QED BY <1>1, <2>1 DEF ArbiterInv, TypeInv
<1>3. AssignedInv' /\ StackInv' /\ PriorityInv' /\ WindowsInv' /\ CopyInv'
  BY <1>1, NoSearch, NoAssignment
<1>4. TransactionInv'
  <2>1. possible = EmptyBag
    BY <1>1 DEF ArbiterInv, TransactionInv, CopyIsTheAssignment
  <2> QED BY <1>1, <2>1 DEF TransactionInv, CopyIsTheAssignment
<1>5. Exclusive(allocation') /\ Exclusive(possible')
  BY <1>1 DEF ArbiterInv
<1> QED BY <1>2, <1>3, <1>4, <1>5 DEF ArbiterInv

-----------------------------------------------------------------------------
(* Testing an assignment again, and booting.                               *)

\* A range with at least the attributes of another is compatible with what that
\* one was compatible with.
MoreAttributes(q, r) ==
  /\ r.owner = q.owner /\ r.start = q.start /\ r.end = q.end /\ r.shared = q.shared
  /\ q.attributes \subseteq r.attributes

LEMMA CompatibleStill ==
  ASSUME NEW q, NEW r, NEW q2, NEW r2, Compatible(q, r), MoreAttributes(q, q2), MoreAttributes(r, r2)
  PROVE  Compatible(q2, r2)
<1>1. q.attributes \subseteq q2.attributes /\ r.attributes \subseteq r2.attributes
  BY DEF MoreAttributes
<1>2. q2.owner = q.owner /\ q2.start = q.start /\ q2.end = q.end /\ q2.shared = q.shared
  BY DEF MoreAttributes
<1>3. r2.owner = r.owner /\ r2.start = r.start /\ r2.end = r.end /\ r2.shared = r.shared
  BY DEF MoreAttributes
<1>4. SUFFICES ASSUME q2.owner # r2.owner /\ Overlap(q2.start, q2.end, r2.start, r2.end)
               PROVE  \/ q2.shared /\ r2.shared
                      \/ "bootAllocated" \in q2.attributes \union r2.attributes
                      \/ /\ "alias" \in q2.attributes \intersect r2.attributes
                         /\ AskedAsAlias(q2) \/ AskedAsAlias(r2)
  BY DEF Compatible
<1>5. \/ q.shared /\ r.shared
      \/ "bootAllocated" \in q.attributes \union r.attributes
      \/ "alias" \in q.attributes \intersect r.attributes /\ (AskedAsAlias(q) \/ AskedAsAlias(r))
  BY <1>2, <1>3, <1>4 DEF Compatible
<1>6. (AskedAsAlias(q) => AskedAsAlias(q2)) /\ (AskedAsAlias(r) => AskedAsAlias(r2))
  BY <1>2, <1>3 DEF AskedAsAlias
<1> QED BY <1>1, <1>2, <1>3, <1>5, <1>6

\* The attributes an entry is added with are its own and those left by the
\* entries before it.
LEMMA KeptType ==
  ASSUME NEW f, \A j \in DOMAIN f : f[j] \subseteq {"alias"}, NEW i \in DOMAIN f, i \in Int
  PROVE  f[i] \subseteq Kept(f, i) /\ Kept(f, i) \subseteq {"alias"}
BY DEF Kept

\* A retest looks at the alternative that was assigned, which has the
\* attributes of all.
LEMMA AttributesOfAssigned ==
  ASSUME NEW e \in Request, NEW k \in DOMAIN e.alts
  PROVE  Attributes(e) \subseteq AttributesFor(e, <<e.alts[k]>>)
<1>1. e.alts \in Seq(Alternative) /\ e.alts[k].readOnly = e.alts[1].readOnly
  BY RequestType
<1>2. Len(e.alts) = 1 => k = 1
  BY <1>1
<1>3. <<e.alts[k]>>[1] = e.alts[k] /\ Len(<<e.alts[k]>>) = 1
  OBVIOUS
<1> QED BY <1>1, <1>2, <1>3 DEF Attributes, AttributesFor

LEMMA AssignedType ==
  ASSUME AssignedInv, NEW i \in DOMAIN assigned
  PROVE  assigned[i].entry \in Request /\ assigned[i] \in [entry : Request, alt : Alternative, start : Address]
<1> DEFINE T == [entry : Request, alt : Alternative, start : Address]
<1>1. assigned \in Seq(T)
  BY DEF AssignedInv
<1>2. assigned[i] \in T
  <2> HIDE DEF T
  <2> QED BY <1>1
<1> QED BY <1>2

\* What has been assigned is a range of one of the devices of the list tested.
LEMMA AssignedIsRange ==
  ASSUME AssignedInv, NEW i \in Holding, NEW a, a \subseteq {"alias", "bootAllocated"}
  PROVE  /\ IsRange(RangeAt(assigned[i].entry, assigned[i].alt, a, assigned[i].start))
         /\ assigned[i].entry.owner \in Owners(tested)
<1> DEFINE x == assigned[i]
<1>1. i \in DOMAIN assigned /\ x.alt.len # 0
  BY DEF Holding
<1>2. x \in [entry : Request, alt : Alternative, start : Address] /\ x.entry.owner \in Owners(tested)
  BY <1>1, AssignedType DEF AssignedInv
<1>3. PICK k \in DOMAIN x.entry.alts : x.alt = x.entry.alts[k]
  BY <1>1 DEF AssignedInv, AssignedAsAsked
<1>4. x.start + x.alt.len <= x.alt.max + 1
  BY <1>1 DEF AssignedInv, AssignedAsAsked
<1> HIDE DEF x
<1>5. x.entry \in Request /\ x.start \in Address
  BY <1>2
<1>6. x.entry.owner \in Device /\ Sensible(x.alt)
  BY <1>3, <1>5, RequestType
<1>7. /\ Top \in Nat /\ x.start \in Int /\ x.alt.len \in Int /\ x.alt.max \in Int
  BY <1>5, <1>6, AlternativeType DEF Address
<1>8. x.start + x.alt.len - 1 <= x.alt.max
  BY <1>4, <1>7
<1>9. IsRange(RangeOf(x.entry, x.alt, a, x.start, x.start + x.alt.len - 1))
  BY <1>1, <1>5, <1>6, <1>8, HeldIsRange DEF x
<1> QED BY <1>2, <1>9 DEF RangeAt, x

LEMMA HoldingIsFinite ==
  ASSUME AssignedInv
  PROVE  IsFiniteSet(Holding)
<1>1. assigned \in Seq([entry : Request, alt : Alternative, start : Address])
  BY DEF AssignedInv
<1>2. DOMAIN assigned = 1..Len(assigned) /\ Len(assigned) \in Nat
  BY <1>1
<1>3. Holding \subseteq 1..Len(assigned)
  BY <1>2 DEF Holding
<1>4. IsFiniteSet(1..Len(assigned))
  BY <1>2, FS_Interval
<1> QED BY <1>3, <1>4, FS_Subset

LEMMA RetestPreserves ==
  ASSUME ArbiterInv, RetestAllocation
  PROVE  ArbiterInv'
<1> DEFINE attributes == [i \in DOMAIN assigned |-> AttributesFor(assigned[i].entry, <<assigned[i].alt>>)]
           R(i) == RangeAt(assigned[i].entry, assigned[i].alt, Kept(attributes, i), assigned[i].start)
           F == [i \in Holding |-> R(i)]
           A == WithoutOwners(allocation, tested)
<1>1. /\ pc = "idle" /\ ~TransactionInProgress
      /\ list' = tested /\ TransactionInProgress' = TRUE
      /\ UNCHANGED <<busVars, allocation, booted, tested, assigned, pc, level, backtracking, stack>>
  BY DEF RetestAllocation, Idle
<1>2. possible' = A (+) Values(F)
  BY DEF RetestAllocation, Holding
<1>3. AssignedInv /\ assigned \in Seq([entry : Request, alt : Alternative, start : Address])
  BY DEF ArbiterInv, AssignedInv
<1>4. ASSUME NEW i \in DOMAIN assigned
      PROVE  /\ Attributes(assigned[i].entry) \subseteq Kept(attributes, i)
             /\ Kept(attributes, i) \subseteq {"alias"}
  <2>1. assigned[i].entry \in Request
    BY <1>3, AssignedType
  <2>2. PICK k \in DOMAIN assigned[i].entry.alts : assigned[i].alt = assigned[i].entry.alts[k]
    BY <1>3 DEF AssignedInv, AssignedAsAsked
  <2>3. Attributes(assigned[i].entry) \subseteq attributes[i]
    BY <2>1, <2>2, AttributesOfAssigned
  <2>4. \A j \in DOMAIN attributes : attributes[j] \subseteq {"alias"}
    BY AttributesType
  <2>5. i \in DOMAIN attributes /\ i \in Int
    BY <1>3
  <2> HIDE DEF attributes
  <2> QED BY <2>3, <2>4, <2>5, KeptType
<1> HIDE DEF attributes
<1>5. ASSUME NEW i \in Holding
      PROVE  /\ IsRange(R(i)) /\ R(i).owner \in Owners(tested)
             /\ MoreAttributes(RangeAssigned(assigned[i]), R(i))
  <2>1. i \in DOMAIN assigned
    BY DEF Holding
  <2>2. IsRange(R(i)) /\ assigned[i].entry.owner \in Owners(tested)
    BY <1>3, <1>4, <2>1, AssignedIsRange
  <2> QED BY <1>4, <2>1, <2>2 DEF RangeAssigned, RangeAt, RangeOf, MoreAttributes
<1>6. IsFiniteSet(Holding)
  BY <1>3, HoldingIsFinite
<1>7. DOMAIN F = Holding /\ \A i \in Holding : F[i] = R(i)
  OBVIOUS
<1>8. /\ IsABag(allocation) /\ IsABag(A) /\ Ranges(A) = {r \in Ranges(allocation) : r.owner \notin Owners(tested)}
      /\ \A r \in Ranges(A) : IsRange(r)
  BY WithoutOwnersBag DEF ArbiterInv, TypeInv, RangeBag
<1> HIDE DEF A, F, R
<1>9. IsABag(Values(F)) /\ DOMAIN Values(F) = {R(i) : i \in Holding}
  <2>1. {F[i] : i \in DOMAIN F} = {R(i) : i \in Holding}
    BY <1>7
  <2>2. IsABag(Values(F)) /\ DOMAIN Values(F) = {F[i] : i \in DOMAIN F}
    BY <1>6, <1>7, ValuesBag
  <2> QED BY <2>1, <2>2
<1>10. IsABag(possible') /\ Ranges(possible') = Ranges(A) \union {R(i) : i \in Holding}
  BY <1>2, <1>8, <1>9, UnionOfBags DEF Ranges, BagToSet
<1>11. RangeBag(possible')
  BY <1>5, <1>8, <1>10 DEF RangeBag
<1>12. TypeInv'
  BY <1>1, <1>11 DEF ArbiterInv, TypeInv, busVars
<1>13. StackInv' /\ PriorityInv' /\ WindowsInv' /\ CopyInv'
  BY <1>1, NoSearch
<1>14. AssignedInv'
  BY <1>1, AssignedStands DEF ArbiterInv, busVars
<1>15. Exclusive(possible')
  <2>1. ASSUME NEW q \in Ranges(A), NEW i \in Holding
        PROVE  Compatible(q, R(i)) /\ Compatible(R(i), q)
    <3>1. Compatible(q, RangeAssigned(assigned[i]))
      BY <1>3 DEF AssignedInv, A
    <3>2. MoreAttributes(q, q)
      BY DEF MoreAttributes
    <3>3. Compatible(q, R(i))
      BY <1>5, <3>1, <3>2, CompatibleStill
    <3>4. /\ q.start \in Int /\ q.end \in Int /\ R(i).start \in Int /\ R(i).end \in Int
      BY <1>5, <1>8, ArbiterAssumption DEF IsRange, Address
    <3> QED BY <3>3, <3>4 DEF Compatible, Overlap
  <2>2. ASSUME NEW i \in Holding, NEW j \in Holding
        PROVE  Compatible(R(i), R(j))
    <3>1. Compatible(RangeAssigned(assigned[i]), RangeAssigned(assigned[j]))
      BY <1>3 DEF AssignedInv
    <3> QED BY <1>5, <3>1, CompatibleStill
  <2>3. ASSUME NEW q \in Ranges(A), NEW r \in Ranges(A)
        PROVE  Compatible(q, r)
    BY <1>8 DEF ArbiterInv, Exclusive
  <2> QED BY <1>10, <2>1, <2>2, <2>3 DEF Exclusive
<1>16. TransactionInv'
  <2> DEFINE more == [i \in DOMAIN assigned |-> Kept(attributes, i)]
             G == [i \in {i \in DOMAIN assigned : assigned[i].alt.len # 0} |->
                     RangeAt(assigned[i].entry, assigned[i].alt,
                             Attributes(assigned[i].entry) \union more[i], assigned[i].start)]
  <2>1. \A i \in DOMAIN assigned : Attributes(assigned[i].entry) \union more[i] = Kept(attributes, i)
    BY <1>4
  <2>2. more \in [DOMAIN assigned -> SUBSET {"alias"}]
    BY <1>4
  <2> HIDE DEF more
  <2>3. G = F
    BY <2>1 DEF F, R, Holding
  <2> HIDE DEF G
  <2>4. possible' = A (+) Values(G)
    BY <1>2, <2>3
  <2>5. IsCopyOf(possible', A, assigned)
    BY <2>2, <2>4 DEF IsCopyOf, G
  <2>6. IsCopyOf(possible', WithoutOwners(allocation', list'), assigned')
    BY <1>1, <2>5 DEF A
  <2>7. CopyIsTheAssignment'
    BY <1>1, <2>6 DEF CopyIsTheAssignment, IsCopyOf
  <2> QED BY <1>1, <2>7 DEF TransactionInv
<1>17. Exclusive(allocation')
  BY <1>1 DEF ArbiterInv
<1> QED BY <1>12, <1>13, <1>14, <1>15, <1>16, <1>17 DEF ArbiterInv

\* What is booted is a range of its device's, marked as such.
LEMMA BootedRange ==
  ASSUME NEW l \in BootLists, NEW i \in DOMAIN l, IsValid(l[i].alts[1]), NEW a, a \subseteq {"alias", "bootAllocated"}
  PROVE  IsRange(RangeAt(l[i], l[i].alts[1], a, l[i].alts[1].min))
<1> DEFINE e == l[i]
           alt == l[i].alts[1]
           r == RangeAt(e, alt, a, alt.min)
<1>1. IsEntry(e) /\ Len(e.alts) = 1
  BY ArbiterAssumption
<1>2. e.owner \in Device
  BY DEF Device, Owners
<1>3. e.alts \in Seq(Alternative)
  BY <1>1 DEF IsEntry
<1> HIDE DEF e
<1>4. alt \in Alternative
  <2>1. e.alts[1] \in Alternative
    BY <1>1, <1>3
  <2> QED BY <2>1 DEF e
<1>5. alt.len > 0 /\ alt.max - alt.min + 1 = alt.len
  BY DEF IsValid
<1> HIDE DEF alt
<1>6. /\ Top \in Nat /\ alt.min \in Address /\ alt.max \in Address /\ alt.len \in Int /\ alt.shared \in BOOLEAN
  BY <1>4, ArbiterAssumption DEF Alternative, Address
<1>7. alt.min + alt.len - 1 \in alt.min..Top
  BY <1>5, <1>6 DEF Address
<1>8. /\ r.start = alt.min /\ r.end = alt.min + alt.len - 1 /\ r.owner = e.owner /\ r.shared = alt.shared
      /\ r.attributes = a
  BY DEF RangeAt, RangeOf
<1> HIDE DEF r
<1>9. IsRange(r)
  BY <1>2, <1>6, <1>7, <1>8 DEF IsRange
<1> QED BY <1>9 DEF r, e, alt

\* Booting adds ranges of the firmware to what is allocated.
LEMMA BootAdds ==
  ASSUME NEW l \in BootLists, RangeBag(allocation), BootAllocation(l)
  PROVE  \E B : /\ RangeBag(B) /\ allocation' = allocation (+) B
                /\ \A r \in Ranges(B) : "bootAllocated" \in r.attributes
<1> DEFINE V == {i \in DOMAIN l : IsValid(l[i].alts[1])}
           attributes == [i \in V |-> Attributes(l[i])]
           a(i) == {"bootAllocated"} \union Kept(attributes, i)
           R(i) == RangeAt(l[i], l[i].alts[1], a(i), l[i].alts[1].min)
           F == [i \in V |-> R(i)]
<1>1. allocation' = allocation (+) Values(F)
  BY DEF BootAllocation
<1>2. V \subseteq 1..Len(l) /\ Len(l) \in Nat
  <2>1. l \in Seq({l[i] : i \in DOMAIN l})
    BY ArbiterAssumption
  <2> QED BY <2>1
<1>3. IsFiniteSet(V)
  <2>1. IsFiniteSet(1..Len(l))
    BY <1>2, FS_Interval
  <2> QED BY <1>2, <2>1, FS_Subset
<1>4. ASSUME NEW i \in V
      PROVE  IsRange(R(i)) /\ "bootAllocated" \in R(i).attributes
  <2>1. DOMAIN attributes = V /\ i \in Int /\ i \in DOMAIN l /\ IsValid(l[i].alts[1])
    BY <1>2
  <2>2. \A j \in DOMAIN attributes : attributes[j] \subseteq {"alias"}
    BY AttributesType DEF Attributes
  <2>3. Kept(attributes, i) \subseteq {"alias"}
    <3> HIDE DEF attributes, V
    <3> QED BY <2>1, <2>2, KeptType
  <2>4. a(i) \subseteq {"alias", "bootAllocated"} /\ "bootAllocated" \in a(i)
    BY <2>3
  <2>5. R(i).attributes = a(i)
    BY DEF RangeAt, RangeOf
  <2> HIDE DEF a
  <2>6. IsRange(R(i))
    BY <2>1, <2>4, BootedRange
  <2> QED BY <2>4, <2>5, <2>6
<1>5. DOMAIN F = V /\ {F[i] : i \in DOMAIN F} = {R(i) : i \in V}
  OBVIOUS
<1> HIDE DEF F, V, R
<1>6. IsABag(Values(F)) /\ Ranges(Values(F)) = {R(i) : i \in V}
  BY <1>3, <1>5, ValuesBag DEF Ranges, BagToSet
<1>7. RangeBag(Values(F)) /\ \A r \in Ranges(Values(F)) : "bootAllocated" \in r.attributes
  BY <1>4, <1>6 DEF RangeBag
<1> QED BY <1>1, <1>7

LEMMA BootPreserves ==
  ASSUME ArbiterInv, NEW l \in BootLists, BootAllocation(l)
  PROVE  ArbiterInv'
<1>1. /\ pc = "idle" /\ ~TransactionInProgress /\ possible' = EmptyBag /\ booted' = booted \union {l}
      /\ tested' = <<>> /\ assigned' = <<>>
      /\ UNCHANGED <<busVars, TransactionInProgress, list, pc, level, backtracking, stack>>
  BY DEF BootAllocation, Idle, searchVars
<1>2. RangeBag(allocation) /\ Exclusive(allocation)
  BY DEF ArbiterInv, TypeInv
<1>3. PICK B : /\ RangeBag(B) /\ allocation' = allocation (+) B
               /\ \A r \in Ranges(B) : "bootAllocated" \in r.attributes
  BY <1>2, BootAdds
<1>4. IsABag(allocation') /\ Ranges(allocation') = Ranges(allocation) \union Ranges(B)
  BY <1>2, <1>3, UnionOfBags DEF RangeBag, Ranges, BagToSet
<1>5. RangeBag(allocation') /\ Exclusive(allocation')
  BY <1>2, <1>3, <1>4 DEF RangeBag, Exclusive, Compatible
<1>6. RangeBag(EmptyBag) /\ Exclusive(EmptyBag)
  BY BagOfNone DEF RangeBag, Exclusive, Ranges, BagToSet
<1>7. TypeInv'
  <2>1. tested' \in Seq(Request)
    BY <1>1
  <2> QED BY <1>1, <1>5, <1>6, <2>1 DEF ArbiterInv, TypeInv, busVars
<1>8. AssignedInv' /\ StackInv' /\ PriorityInv' /\ WindowsInv' /\ CopyInv'
  BY <1>1, NoSearch, NoAssignment
<1>9. TransactionInv'
  BY <1>1 DEF TransactionInv, CopyIsTheAssignment
<1>10. Exclusive(possible')
  BY <1>1, <1>6
<1> QED BY <1>5, <1>7, <1>8, <1>9, <1>10 DEF ArbiterInv

-----------------------------------------------------------------------------
(* The invariant holds.                                                    *)

LEMMA ArbiterStarts == ArbiterInit => ArbiterInv
<1> SUFFICES ASSUME ArbiterInit PROVE ArbiterInv
  OBVIOUS
<1>1. RangeBag(EmptyBag) /\ Exclusive(EmptyBag)
  BY BagOfNone DEF RangeBag, Exclusive, Ranges, BagToSet
<1>2. TypeInv
  <2>1. list \in Seq(Request) /\ tested \in Seq(Request)
    BY DEF ArbiterInit
  <2> QED BY <1>1, <2>1 DEF ArbiterInit, TypeInv
<1>3. StackInv /\ PriorityInv /\ WindowsInv /\ CopyInv
  BY DEF ArbiterInit, StackInv, PriorityInv, WindowsInv, CopyInv
<1>4. AssignedInv
  <2>1. assigned \in Seq([entry : Request, alt : Alternative, start : Address]) /\ DOMAIN assigned = {}
    BY DEF ArbiterInit
  <2>2. Holding = {}
    BY <2>1 DEF Holding
  <2> QED BY <2>1, <2>2 DEF AssignedInv, AssignedAsAsked
<1>5. TransactionInv
  BY DEF ArbiterInit, TransactionInv, CopyIsTheAssignment
<1>6. Exclusive(allocation) /\ Exclusive(possible)
  BY <1>1 DEF ArbiterInit
<1> QED BY <1>2, <1>3, <1>4, <1>5, <1>6 DEF ArbiterInv

\* A step that changes nothing.
LEMMA ArbiterStutters ==
  ASSUME ArbiterInv, UNCHANGED arbiterVars
  PROVE  ArbiterInv'
<1>1. UNCHANGED <<windows, NormalOrderingList, PrefetchableOrderingList, allocation, possible, TransactionInProgress,
                  booted, tested, assigned, list, pc, level, backtracking, stack>>
  BY DEF arbiterVars, busVars, searchVars
<1>2. TypeInv'
  BY <1>1 DEF ArbiterInv, TypeInv
<1>3. StackInv' /\ PriorityInv'
  BY <1>1 DEF ArbiterInv, StackInv, PriorityInv, EntryAt, Settled, OrderingList, HasPrefetchableResource
<1>4. WindowsInv' /\ CopyInv'
  <2>1. Settled' = Settled
    BY <1>1 DEF Settled
  <2>2. \A i : EntryAt(i)' = EntryAt(i) /\ AlternativeAt(i)' = AlternativeAt(i)
    BY <1>1 DEF EntryAt, AlternativeAt
  <2>3. WindowsInv'
    BY <1>1, <2>1, <2>2 DEF ArbiterInv, WindowsInv, WindowInv, PlaceInv
  <2>4. CopyInv'
    BY <1>1, <2>1 DEF ArbiterInv, CopyInv
  <2> QED BY <2>3, <2>4
<1>5. Exclusive(allocation') /\ Exclusive(possible')
  BY <1>1 DEF ArbiterInv
<1>6. AssignedInv'
  BY <1>1, AssignedStands DEF ArbiterInv, busVars
<1>7. TransactionInv'
  BY <1>1 DEF ArbiterInv, TransactionInv, CopyIsTheAssignment
<1> QED BY <1>2, <1>3, <1>4, <1>5, <1>6, <1>7 DEF ArbiterInv

LEMMA SearchPreserves ==
  ASSUME ArbiterInv, Search
  PROVE  ArbiterInv'
<1>1. UNCHANGED <<busVars, allocation, booted>>
  BY DEF Search
<1>2. CASE EntryIsBusy
  <2>1. pc # "idle" /\ Fails
    BY <1>2 DEF EntryIsBusy
  <2> QED BY <1>1, <2>1, FailsPreserves
<1>3. CASE EnterForward
  BY <1>1, <1>3, EnterForwardPreserves
<1>4. CASE Backtrack
  BY <1>1, <1>4, BacktrackPreserves
<1>5. CASE BacktrackNothing
  BY <1>1, <1>5, BacktrackNothingPreserves
<1>6. CASE NextRange
  BY <1>1, <1>6, NextRangePreserves
<1>7. CASE FindNothing
  BY <1>1, <1>7, FindNothingPreserves
<1>8. CASE FindPlace
  BY <1>1, <1>8, FindPlacePreserves
<1>9. CASE FindLastPlace
  BY <1>1, <1>9, FindLastPlacePreserves
<1>10. CASE FailEntry
  BY <1>1, <1>10, FailEntryPreserves
<1>11. CASE FailTest
  <2>1. pc # "idle" /\ Fails
    BY <1>11 DEF FailTest
  <2> QED BY <1>1, <2>1, FailsPreserves
<1> QED BY <1>2, <1>3, <1>4, <1>5, <1>6, <1>7, <1>8, <1>9, <1>10, <1>11 DEF Search

LEMMA ArbiterStep == ArbiterInv /\ [ArbiterNext]_arbiterVars => ArbiterInv'
<1> SUFFICES ASSUME ArbiterInv, [ArbiterNext]_arbiterVars PROVE ArbiterInv'
  OBVIOUS
<1>1. CASE \E l \in Lists : TestAllocation(l)
  <2>1. PICK l \in Lists : TestAllocation(l)
    BY <1>1
  <2> QED BY <2>1, TestAllocationPreserves
<1>2. CASE CommitAllocation
  BY <1>2, CommitPreserves
<1>3. CASE RollbackAllocation
  BY <1>3, RollbackPreserves
<1>4. CASE RetestAllocation
  BY <1>4, RetestPreserves
<1>5. CASE \E l \in BootLists : BootAllocation(l)
  <2>1. PICK l \in BootLists : BootAllocation(l)
    BY <1>5
  <2> QED BY <2>1, BootPreserves
<1>6. CASE \E ws \in WindowSets : StartArbiter(ws)
  <2>1. PICK ws \in WindowSets : StartArbiter(ws)
    BY <1>6
  <2> QED BY <2>1, StartPreserves
<1>7. CASE Search
  BY <1>7, SearchPreserves
<1>8. CASE UNCHANGED arbiterVars
  BY <1>8, ArbiterStutters
<1> QED BY <1>1, <1>2, <1>3, <1>4, <1>5, <1>6, <1>7, <1>8 DEF ArbiterNext

\* The invariant of the arbiter: at every turn of a search the copy is what the
\* other devices have and what the settled levels hold, in windows of what
\* their alternatives ask for (ArbAllocateEntry and what it calls).
THEOREM ArbiterInvariant == ArbiterSpec => []ArbiterInv
<1>1. ArbiterInit => ArbiterInv
  BY ArbiterStarts
<1>2. ArbiterInv /\ [ArbiterNext]_arbiterVars => ArbiterInv'
  BY ArbiterStep
<1> QED BY <1>1, <1>2, PTL DEF ArbiterSpec

-----------------------------------------------------------------------------
(* What follows from it.                                                   *)

LEMMA TypesFollow == ArbiterInv => ArbTypeOK
<1> SUFFICES ASSUME ArbiterInv PROVE ArbTypeOK
  OBVIOUS
<1>1. TypeInv /\ StackInv /\ AssignedInv
  BY DEF ArbiterInv
<1>2. \A bag \in {allocation, possible} : \A r \in Ranges(bag) : IsRange(r) /\ bag[r] > 0
  BY <1>1 DEF TypeInv, RangeBag, IsABag, Ranges, BagToSet
<1>3. pc = "idle" => level = 0 /\ level \in 0..Len(stack) /\ DOMAIN stack = {}
  BY <1>1 DEF TypeInv
<1>4. pc # "idle" => /\ level # 0 /\ level \in 0..Len(stack) /\ DOMAIN stack = 1..Len(stack)
  <2>1. pc # "idle" => stack \in Seq(Frame) /\ level \in 1..Len(stack)
    BY <1>1 DEF StackInv
  <2> QED BY <2>1
<1>5. \A i \in DOMAIN stack : stack[i].cur \in 0..Len(Wanting(list)[i].alts)
  BY <1>1, <1>3, <1>4 DEF StackInv, EntryAt
<1>6. \A i \in DOMAIN assigned : assigned[i].start \in Address
  BY <1>1, AssignedType
<1> QED BY <1>1, <1>2, <1>3, <1>4, <1>5, <1>6 DEF ArbTypeOK, TypeInv

\* Every variable of the arbiter has its type, whatever the lists and windows;
\* what is in the two range lists are ranges of addresses of devices, and a
\* stack exists only while a search goes on (Arbiter->Allocation,
\* PossibleAllocation and AllocationStack).
THEOREM ArbiterTypes == ArbiterSpec => []ArbTypeOK
<1>1. ArbiterInv => ArbTypeOK
  BY TypesFollow
<1> QED BY <1>1, ArbiterInvariant, PTL

\* No address is given to two devices unless they share it, or the firmware had
\* given it, or both ranges are aliases, in the allocation and in the copy, at
\* every step of a search (ArbFindSuitableRange, ArbAddAllocation).
THEOREM RangesAreExclusive == ArbiterSpec => []RangesExclusive
<1>1. ArbiterInv => RangesExclusive
  BY DEF ArbiterInv, RangesExclusive, Exclusive, Compatible
<1> QED BY <1>1, ArbiterInvariant, PTL

\* However often a search backtracked, it leaves in the copy what the other
\* devices had and what it assigned, and nothing else (ArbBacktrackAllocation,
\* ArbRetestAllocation).
THEOREM CopyIsAssigned == ArbiterSpec => []CopyIsTheAssignment
<1>1. ArbiterInv => CopyIsTheAssignment
  BY DEF ArbiterInv, TransactionInv
<1> QED BY <1>1, ArbiterInvariant, PTL

\* Each entry is assigned an aligned place in the window one of its alternatives
\* asks for, also after its window was shrunk on the way back
\* (ArbGetNextAllocationRange, armem_FindSuitableRange).
THEOREM AssignmentsAsAsked == ArbiterSpec => []AssignedAsAsked
<1>1. ArbiterInv => AssignedAsAsked
  BY DEF ArbiterInv, AssignedInv
<1> QED BY <1>1, ArbiterInvariant, PTL

\* Memory that was not asked for as prefetchable is not assigned in a
\* prefetchable window of the bus, for every set of windows
\* (armem_StartArbiter prunes them from the ordering of other requests).
THEOREM PrefetchableApart == ArbiterSpec => []PrefetchableKeptApart
<1>1. ArbiterInv => PrefetchableKeptApart
  BY DEF ArbiterInv, AssignedInv, KeptFromWindows, PrefetchableKeptApart
<1> QED BY <1>1, ArbiterInvariant, PTL

\* What a step does to the ranges of a device that is not in the list.
KeepsOthers ==
  \A r \in Ranges(allocation) \union Ranges(allocation') :
    r.owner \notin Owners(list) =>
      /\ Copies(r, allocation') >= Copies(r, allocation)
      /\ Copies(r, allocation') > Copies(r, allocation) => "bootAllocated" \in r.attributes

LEMMA UnchangedKeeps ==
  ASSUME ArbiterInv, allocation' = allocation
  PROVE  KeepsOthers
<1>1. \A r : Copies(r, allocation) \in Nat /\ Copies(r, allocation') = Copies(r, allocation)
  BY CopiesNatural DEF ArbiterInv, TypeInv, RangeBag
<1> QED BY <1>1 DEF KeepsOthers

\* A commit replaces ranges of the devices of the list tested, and no others.
LEMMA CommitKeeps ==
  ASSUME ArbiterInv, CommitAllocation
  PROVE  KeepsOthers
<1>1. pc = "idle" /\ TransactionInProgress /\ allocation' = possible
  BY DEF CommitAllocation
<1>2. list = tested /\ AssignedInv /\ IsABag(allocation)
  BY <1>1 DEF ArbiterInv, TransactionInv, TypeInv, RangeBag
<1>3. IsCopyOf(possible, WithoutOwners(allocation, list), assigned)
  BY <1>1 DEF ArbiterInv, TransactionInv, CopyIsTheAssignment, IsCopyOf
<1>4. PICK more \in [DOMAIN assigned -> SUBSET {"alias"}] :
        possible = WithoutOwners(allocation, list) (+)
          Values([i \in {i \in DOMAIN assigned : assigned[i].alt.len # 0} |->
            RangeAt(assigned[i].entry, assigned[i].alt, Attributes(assigned[i].entry) \union more[i], assigned[i].start)])
  BY <1>3 DEF IsCopyOf
<1> DEFINE R(i) == RangeAt(assigned[i].entry, assigned[i].alt,
                           Attributes(assigned[i].entry) \union more[i], assigned[i].start)
           F == [i \in Holding |-> R(i)]
<1>5. possible = WithoutOwners(allocation, list) (+) Values(F)
  BY <1>4 DEF Holding
<1>6. IsFiniteSet(DOMAIN F)
  BY <1>2, HoldingIsFinite
<1>7. ASSUME NEW i \in DOMAIN F PROVE F[i].owner \in Owners(list)
  <2>1. i \in DOMAIN assigned /\ F[i].owner = assigned[i].entry.owner
    BY <1>7 DEF Holding, RangeAt, RangeOf
  <2> QED BY <1>2, <2>1 DEF AssignedInv
<1> HIDE DEF F
<1>8. IsABag(Values(F)) /\ Ranges(Values(F)) = {F[i] : i \in DOMAIN F}
  BY <1>6, ValuesBag DEF Ranges, BagToSet
<1>9. ASSUME NEW r, r.owner \notin Owners(list)
      PROVE  Copies(r, allocation') = Copies(r, allocation) /\ Copies(r, allocation) \in Nat
  <2>1. r \notin Ranges(Values(F))
    BY <1>7, <1>8, <1>9
  <2>2. Copies(r, Values(F)) = 0
    BY <2>1 DEF Copies
  <2>3. IsABag(WithoutOwners(allocation, list)) /\ Copies(r, WithoutOwners(allocation, list)) = Copies(r, allocation)
    BY <1>2, <1>9, WithoutOwnersBag
  <2>4. Copies(r, possible) = Copies(r, WithoutOwners(allocation, list)) + Copies(r, Values(F))
    <3>1. IsABag(Values(F)) /\ IsABag(WithoutOwners(allocation, list))
      BY <1>8, <2>3
    <3> QED BY <1>5, <3>1, UnionOfBags
  <2>5. Copies(r, allocation) \in Nat
    BY <1>2, CopiesNatural
  <2>6. Copies(r, possible) = Copies(r, allocation) + 0
    BY <2>2, <2>3, <2>4
  <2> QED BY <1>1, <2>5, <2>6
<1> QED BY <1>9 DEF KeepsOthers

\* Booting adds ranges, all of the firmware's.
LEMMA BootKeeps ==
  ASSUME ArbiterInv, NEW l \in BootLists, BootAllocation(l)
  PROVE  KeepsOthers
<1>1. RangeBag(allocation)
  BY DEF ArbiterInv, TypeInv
<1>2. PICK B : /\ RangeBag(B) /\ allocation' = allocation (+) B
               /\ \A r \in Ranges(B) : "bootAllocated" \in r.attributes
  BY <1>1, BootAdds
<1>3. ASSUME NEW r
      PROVE  /\ Copies(r, allocation') >= Copies(r, allocation)
             /\ Copies(r, allocation') > Copies(r, allocation) => "bootAllocated" \in r.attributes
  <2>1. Copies(r, allocation') = Copies(r, allocation) + Copies(r, B)
    BY <1>1, <1>2, UnionOfBags DEF RangeBag
  <2>2. /\ Copies(r, allocation) \in Nat /\ Copies(r, B) \in Nat
        /\ Copies(r, B) > 0 => r \in Ranges(B)
    BY <1>1, <1>2, CopiesNatural DEF RangeBag
  <2>3. Copies(r, allocation') > Copies(r, allocation) => Copies(r, B) > 0
    BY <2>1, <2>2
  <2> QED BY <1>2, <2>1, <2>2, <2>3
<1> QED BY <1>3 DEF KeepsOthers

LEMMA StepKeepsOthers == ArbiterInv /\ [ArbiterNext]_arbiterVars => KeepsOthers
<1> SUFFICES ASSUME ArbiterInv, [ArbiterNext]_arbiterVars PROVE KeepsOthers
  OBVIOUS
<1>1. CASE CommitAllocation
  BY <1>1, CommitKeeps
<1>2. CASE \E l \in BootLists : BootAllocation(l)
  BY <1>2, BootKeeps
<1>3. CASE allocation' = allocation
  BY <1>3, UnchangedKeeps
<1>4. \/ CommitAllocation
      \/ \E l \in BootLists : BootAllocation(l)
      \/ allocation' = allocation
  BY DEF ArbiterNext, TestAllocation, RollbackAllocation, RetestAllocation, StartArbiter, Search,
         arbiterVars
<1> QED BY <1>1, <1>2, <1>3, <1>4

\* Whatever is tested, committed, rolled back or booted, a device that is not in
\* the list keeps its ranges and gains one only from the firmware
\* (RtlDeleteOwnersRanges on the copy, ArbCommitAllocation).
THEOREM OthersKeep == ArbiterSpec => OthersKeepTheirRanges
<1>1. ArbiterInv /\ [ArbiterNext]_arbiterVars => [KeepsOthers]_arbiterVars
  BY StepKeepsOthers
<1>2. ArbiterSpec => [][KeepsOthers]_arbiterVars
  BY <1>1, ArbiterInvariant, PTL DEF ArbiterSpec
<1> QED BY <1>2 DEF OthersKeepTheirRanges, KeepsOthers
=============================================================================
