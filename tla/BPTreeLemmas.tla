--------------------------- MODULE BPTreeLemmas ----------------------------
(***************************************************************************)
(* Lemmas about the operators of BPTree: sequences, the heap of nodes, the *)
(* shape a tree has while a call works on it, and what splitting, merging  *)
(* and joining nodes makes of that shape.                                  *)
(***************************************************************************)
EXTENDS BPTree, FiniteSetTheorems, SequenceTheorems, WellFoundedInduction, TLAPS

-----------------------------------------------------------------------------
(* Numbers, and what is defined by recursion.                              *)

\* Every non-empty set of naturals has a least element.
LEMMA LeastExists ==
  ASSUME NEW S \in SUBSET Nat, S # {}
  PROVE  \E b \in S : \A c \in S : b <= c
<1> DEFINE T == {0..n : n \in S}
<1>1. T \subseteq FiniteSubsetsOf(Nat)
  <2>1. \A n \in S : IsFiniteSet(0..n)
    BY FS_Interval
  <2> QED BY <2>1 DEF FiniteSubsetsOf
<1>2. \E x \in T : \A y \in T : ~(<<y, x>> \in StrictSubsetOrdering(Nat))
  <2>1. T # {} OBVIOUS
  <2> HIDE DEF T
  <2> QED BY <1>1, <2>1, FS_StrictSubsetOrderingWellFounded, WFMin
<1>3. PICK m \in S : \A n \in S : ~(<<0..n, 0..m>> \in StrictSubsetOrdering(Nat))
  BY <1>2
<1>4. ASSUME NEW n \in S PROVE m <= n
  <2>1. SUFFICES ASSUME n < m PROVE FALSE
    OBVIOUS
  <2>2. 0..n \subseteq 0..m /\ 0..n # 0..m
    <3>1. m \in 0..m /\ m \notin 0..n BY <2>1
    <3> QED BY <2>1, <3>1
  <2>3. <<0..n, 0..m>> \in StrictSubsetOrdering(Nat)
    BY <2>2 DEF StrictSubsetOrdering
  <2> QED BY <2>3, <1>3
<1> QED BY <1>4

\* A set of integers bounded from below has a minimum.
LEMMA MinOfBounded ==
  ASSUME NEW S \in SUBSET Int, S # {}, NEW b \in Int, \A x \in S : b <= x
  PROVE  Min(S) \in S /\ \A x \in S : Min(S) <= x
<1> DEFINE T == {x - b : x \in S}
<1>1. T \in SUBSET Nat /\ T # {}
  <2>1. \A x \in S : x \in Int /\ x - b \in Nat
    OBVIOUS
  <2> QED BY <2>1
<1>2. PICK m \in T : \A n \in T : m <= n
  BY <1>1, LeastExists
<1>3. PICK x \in S : m = x - b
  OBVIOUS
<1>4. \A y \in S : x <= y
  <2>1. \A y \in S : y - b \in T
    OBVIOUS
  <2> HIDE DEF T
  <2> QED BY <1>2, <1>3, <2>1
<1> QED BY <1>4 DEF Min

\* Induction on a set of naturals.
LEMMA UpTo ==
  ASSUME NEW n \in Nat, NEW T, 0 \in T, \A i \in 1..n : i - 1 \in T => i \in T
  PROVE  0..n \subseteq T
<1>1. SUFFICES ASSUME 0..n \ T # {} PROVE FALSE
  OBVIOUS
<1>2. PICK m \in 0..n \ T : \A k \in 0..n \ T : m <= k
  <2>1. 0..n \ T \in SUBSET Nat
    OBVIOUS
  <2> QED BY <1>1, <2>1, LeastExists
<1>3. m # 0 /\ m \in 1..n
  BY <1>2
<1>4. m - 1 \in T
  <2>1. m - 1 \in 0..n /\ ~(m <= m - 1)
    BY <1>3
  <2> QED BY <1>2, <2>1
<1> QED BY <1>2, <1>3, <1>4

\* What is defined from one number to the next is defined: h begins with a, and
\* g makes each of its values from the one before, staying in S.
StaysIn(n, S, g) == \A i \in 1..n : \A x \in S : g[i][x] \in S
Follows(h, n, S, a, g) == h \in [0..n -> S] /\ h[0] = a /\ \A i \in 1..n : h[i] = g[i][h[i - 1]]

LEMMA Recursion ==
  ASSUME NEW n \in Nat, NEW S, NEW a \in S, NEW g, StaysIn(n, S, g)
  PROVE  \E h : Follows(h, n, S, a, g)
<1> DEFINE Upto(k, h) == h \in [0..k -> S] /\ h[0] = a /\ \A i \in 1..k : h[i] = g[i][h[i - 1]]
           T == {k \in 0..n : \E h : Upto(k, h)}
<1>1. 0 \in T
  <2> DEFINE h0 == [i \in 0..0 |-> a]
  <2>1. h0 \in [0..0 -> S] /\ h0[0] = a
    OBVIOUS
  <2>2. 1..0 = {}
    OBVIOUS
  <2>3. Upto(0, h0)
    <3> HIDE DEF h0
    <3> QED BY <2>1, <2>2
  <2> HIDE DEF Upto, h0
  <2> QED BY <2>3
<1>2. ASSUME NEW k \in 1..n, k - 1 \in T PROVE k \in T
  <2>1. PICK h : Upto(k - 1, h)
    BY <1>2
  <2> DEFINE h1 == [i \in 0..k |-> IF i = k THEN g[k][h[k - 1]] ELSE h[i]]
  <2>2. h[k - 1] \in S /\ g[k][h[k - 1]] \in S
    BY <2>1 DEF StaysIn
  <2>3. h1 \in [0..k -> S]
    BY <2>1, <2>2
  <2>4. h1[0] = a
    BY <2>1
  <2>5. ASSUME NEW i \in 1..k PROVE h1[i] = g[i][h1[i - 1]]
    <3>1. h1[i - 1] = h[i - 1]
      OBVIOUS
    <3>2. CASE i = k
      BY <3>1, <3>2
    <3>3. CASE i # k
      <4>1. i \in 1..k - 1 /\ h1[i] = h[i]
        BY <3>3
      <4> HIDE DEF h1
      <4> QED BY <2>1, <3>1, <4>1
    <3> QED BY <3>2, <3>3
  <2>6. Upto(k, h1)
    <3> HIDE DEF h1
    <3> QED BY <2>3, <2>4, <2>5
  <2> HIDE DEF Upto, h1
  <2> QED BY <2>6
<1>3. n \in T
  <2>1. 0..n \subseteq T
    <3> HIDE DEF T
    <3> QED BY <1>1, <1>2, UpTo
  <2> QED BY <2>1
<1> QED BY <1>3 DEF Follows

-----------------------------------------------------------------------------
(* Sequences.                                                              *)

LEMMA InsertAtElements ==
  ASSUME NEW S, NEW s \in Seq(S), NEW x \in S, NEW i \in 1..(Len(s) + 1)
  PROVE  /\ InsertAt(s, i, x) \in Seq(S) /\ Len(InsertAt(s, i, x)) = Len(s) + 1
         /\ \A j \in 1..(Len(s) + 1) :
              InsertAt(s, i, x)[j] = IF j < i THEN s[j] ELSE IF j = i THEN x ELSE s[j - 1]
<1> DEFINE a == SubSeq(s, 1, i - 1)
           b == SubSeq(s, i, Len(s))
<1>1. a \in Seq(S) /\ Len(a) = i - 1 /\ \A j \in 1..(i - 1) : a[j] = s[j]
  OBVIOUS
<1>2. b \in Seq(S) /\ Len(b) = Len(s) - i + 1 /\ \A j \in 1..(Len(s) - i + 1) : b[j] = s[i + j - 1]
  OBVIOUS
<1>3. InsertAt(s, i, x) = (a \o <<x>>) \o b
  BY DEF InsertAt
<1> HIDE DEF a, b
<1>4. a \o <<x>> \in Seq(S) /\ Len(a \o <<x>>) = i /\ \A j \in 1..i : (a \o <<x>>)[j] = IF j < i THEN s[j] ELSE x
  BY <1>1
<1> DEFINE c == a \o <<x>>
<1>5. c \in Seq(S) /\ Len(c) = i /\ \A j \in 1..i : c[j] = IF j < i THEN s[j] ELSE x
  BY <1>4
<1>6. InsertAt(s, i, x) = c \o b
  BY <1>3
<1> HIDE DEF c
<1>7. c \o b \in Seq(S) /\ Len(c \o b) = Len(c) + Len(b)
      /\ \A j \in 1..(Len(c) + Len(b)) : (c \o b)[j] = IF j <= Len(c) THEN c[j] ELSE b[j - Len(c)]
  <2>1. c \in Seq(S) /\ b \in Seq(S)
    BY <1>2, <1>5
  <2> QED BY <2>1
<1>8. ASSUME NEW j \in 1..(Len(s) + 1)
      PROVE  (c \o b)[j] = IF j < i THEN s[j] ELSE IF j = i THEN x ELSE s[j - 1]
  <2>1. CASE j <= i
    BY <1>5, <1>7, <1>2, <2>1
  <2>2. CASE ~(j <= i)
    <3>1. (c \o b)[j] = b[j - i] /\ j - i \in 1..(Len(s) - i + 1)
      BY <1>5, <1>7, <1>2, <2>2
    <3>2. b[j - i] = s[i + (j - i) - 1] /\ i + (j - i) - 1 = j - 1
      BY <1>2, <3>1
    <3> QED BY <2>2, <3>1, <3>2
  <2> QED BY <2>1, <2>2
<1> QED BY <1>2, <1>5, <1>6, <1>7, <1>8

LEMMA JoinElements ==
  ASSUME NEW S, NEW s \in Seq(S), NEW r \in Seq(S)
  PROVE  /\ s \o r \in Seq(S) /\ Len(s \o r) = Len(s) + Len(r)
         /\ \A j \in 1..(Len(s) + Len(r)) : (s \o r)[j] = IF j <= Len(s) THEN s[j] ELSE r[j - Len(s)]
  OBVIOUS

LEMMA RemoveAtElements ==
  ASSUME NEW S, NEW s \in Seq(S), NEW i \in 1..Len(s)
  PROVE  /\ RemoveAt(s, i) \in Seq(S) /\ Len(RemoveAt(s, i)) = Len(s) - 1
         /\ \A j \in 1..(Len(s) - 1) : RemoveAt(s, i)[j] = IF j < i THEN s[j] ELSE s[j + 1]
<1> DEFINE a == SubSeq(s, 1, i - 1)
           b == SubSeq(s, i + 1, Len(s))
<1>1. a \in Seq(S) /\ Len(a) = i - 1 /\ \A j \in 1..(i - 1) : a[j] = s[j]
  OBVIOUS
<1>2. b \in Seq(S) /\ Len(b) = Len(s) - i /\ \A j \in 1..(Len(s) - i) : b[j] = s[i + j]
  OBVIOUS
<1>3. RemoveAt(s, i) = a \o b
  BY DEF RemoveAt
<1> HIDE DEF a, b
<1>4. a \o b \in Seq(S) /\ Len(a \o b) = Len(a) + Len(b)
      /\ \A j \in 1..(Len(a) + Len(b)) : (a \o b)[j] = IF j <= Len(a) THEN a[j] ELSE b[j - Len(a)]
  BY <1>1, <1>2, JoinElements
<1>5. ASSUME NEW j \in 1..(Len(s) - 1)
      PROVE  (a \o b)[j] = IF j < i THEN s[j] ELSE s[j + 1]
  <2>1. CASE j < i
    BY <1>1, <1>4, <1>2, <2>1
  <2>2. CASE ~(j < i)
    <3>1. (a \o b)[j] = b[j - (i - 1)] /\ j - (i - 1) \in 1..(Len(s) - i)
      BY <1>1, <1>4, <1>2, <2>2
    <3>2. b[j - (i - 1)] = s[i + (j - (i - 1))] /\ i + (j - (i - 1)) = j + 1
      BY <1>2, <3>1
    <3> QED BY <2>2, <3>1, <3>2
  <2> QED BY <2>1, <2>2
<1> QED BY <1>1, <1>2, <1>3, <1>4, <1>5

LEMMA PartElements ==
  ASSUME NEW S, NEW s \in Seq(S), NEW a \in Nat, NEW b \in Nat, 1 <= a, a <= b + 1, b <= Len(s)
  PROVE  /\ SubSeq(s, a, b) \in Seq(S) /\ Len(SubSeq(s, a, b)) = (b - a) + 1
         /\ \A j \in 1..((b - a) + 1) : SubSeq(s, a, b)[j] = s[(a + j) - 1]
  OBVIOUS

LEMMA FirstIsLeast ==
  ASSUME NEW S, NEW s \in Seq(S), NEW P \in SUBSET (1..Len(s))
  PROVE  /\ First(P, s) \in P \cup {Len(s) + 1}
         /\ \A i \in P : First(P, s) <= i
<1> DEFINE T == P \cup {Len(s) + 1}
<1>1. T \in SUBSET Int /\ T # {} /\ \A x \in T : 1 <= x
  <2>1. Len(s) + 1 \in Int /\ 1 <= Len(s) + 1
    OBVIOUS
  <2>2. \A x \in P : x \in Int /\ 1 <= x
    OBVIOUS
  <2>3. Len(s) + 1 \in T
    OBVIOUS
  <2>4. \A x \in T : x \in P \/ x = Len(s) + 1
    OBVIOUS
  <2>5. T \in SUBSET Int
    <3> HIDE DEF T
    <3> QED BY <2>1, <2>2, <2>4
  <2> HIDE DEF T
  <2> QED BY <2>1, <2>2, <2>3, <2>4, <2>5
<1>2. First(P, s) = Min(T)
  BY DEF First
<1>3. Min(T) \in T /\ \A x \in T : Min(T) <= x
  <2>1. 1 \in Int
    OBVIOUS
  <2> HIDE DEF T
  <2> QED BY <1>1, <2>1, MinOfBounded
<1> QED BY <1>2, <1>3

\* The place of what is at one place only.
LEMMA PositionOf ==
  ASSUME NEW S, NEW s \in Seq(S), NEW i \in 1..Len(s), \A j \in 1..Len(s) : s[j] = s[i] => j = i
  PROVE  Position(s, s[i]) = i
<1> DEFINE P == {j \in DOMAIN s : s[j] = s[i]}
<1>1. P = {i}
  OBVIOUS
<1>2. First(P, s) \in P \cup {Len(s) + 1} /\ First(P, s) <= i
  <2>1. P \in SUBSET (1..Len(s)) /\ i \in P
    BY <1>1
  <2> HIDE DEF P
  <2> QED BY <2>1, FirstIsLeast
<1> QED BY <1>1, <1>2 DEF Position

\* The same of sequences of numbers, as relations between sequences.
Inserted(r, s, i, x) ==
  /\ r \in Seq(Int) /\ Len(r) = Len(s) + 1
  /\ \A j \in 1..(Len(s) + 1) : r[j] = IF j < i THEN s[j] ELSE IF j = i THEN x ELSE s[j - 1]

Removed(r, s, i) ==
  /\ r \in Seq(Int) /\ Len(r) = Len(s) - 1
  /\ \A j \in 1..(Len(s) - 1) : r[j] = IF j < i THEN s[j] ELSE s[j + 1]

Part(r, s, a, b) ==
  /\ r \in Seq(Int) /\ Len(r) = (b - a) + 1
  /\ \A j \in 1..((b - a) + 1) : r[j] = s[(a + j) - 1]

Joined(r, s, q) ==
  /\ r \in Seq(Int) /\ Len(r) = Len(s) + Len(q)
  /\ \A j \in 1..(Len(s) + Len(q)) : r[j] = IF j <= Len(s) THEN s[j] ELSE q[j - Len(s)]

LEMMA InsertedAt ==
  ASSUME NEW s \in Seq(Int), NEW x \in Int, NEW i \in 1..(Len(s) + 1)
  PROVE  Inserted(InsertAt(s, i, x), s, i, x)
<1>1. /\ InsertAt(s, i, x) \in Seq(Int) /\ Len(InsertAt(s, i, x)) = Len(s) + 1
      /\ \A j \in 1..(Len(s) + 1) :
           InsertAt(s, i, x)[j] = IF j < i THEN s[j] ELSE IF j = i THEN x ELSE s[j - 1]
  <2> DEFINE S == Int
  <2>1. s \in Seq(S) /\ x \in S
    OBVIOUS
  <2> HIDE DEF S
  <2>2. /\ InsertAt(s, i, x) \in Seq(S) /\ Len(InsertAt(s, i, x)) = Len(s) + 1
        /\ \A j \in 1..(Len(s) + 1) :
             InsertAt(s, i, x)[j] = IF j < i THEN s[j] ELSE IF j = i THEN x ELSE s[j - 1]
    BY <2>1, InsertAtElements
  <2> QED BY <2>2 DEF S
<1> QED BY <1>1 DEF Inserted

LEMMA RemovedAt ==
  ASSUME NEW s \in Seq(Int), NEW i \in 1..Len(s)
  PROVE  Removed(RemoveAt(s, i), s, i)
<1>1. /\ RemoveAt(s, i) \in Seq(Int) /\ Len(RemoveAt(s, i)) = Len(s) - 1
      /\ \A j \in 1..(Len(s) - 1) : RemoveAt(s, i)[j] = IF j < i THEN s[j] ELSE s[j + 1]
  <2> DEFINE S == Int
  <2>1. s \in Seq(S)
    OBVIOUS
  <2> HIDE DEF S
  <2>2. /\ RemoveAt(s, i) \in Seq(S) /\ Len(RemoveAt(s, i)) = Len(s) - 1
        /\ \A j \in 1..(Len(s) - 1) : RemoveAt(s, i)[j] = IF j < i THEN s[j] ELSE s[j + 1]
    BY <2>1, RemoveAtElements
  <2> QED BY <2>2 DEF S
<1> QED BY <1>1 DEF Removed

LEMMA PartOf ==
  ASSUME NEW s \in Seq(Int), NEW a \in Nat, NEW b \in Nat, 1 <= a, a <= b + 1, b <= Len(s)
  PROVE  Part(SubSeq(s, a, b), s, a, b)
<1>1. SubSeq(s, a, b) \in Seq(Int)
  <2>1. \A i \in a..b : s[i] \in Int
    OBVIOUS
  <2> QED BY <2>1
<1>2. Len(SubSeq(s, a, b)) = (b - a) + 1
  OBVIOUS
<1>3. \A j \in 1..((b - a) + 1) : SubSeq(s, a, b)[j] = s[(a + j) - 1]
  OBVIOUS
<1> QED BY <1>1, <1>2, <1>3 DEF Part

LEMMA JoinedOf ==
  ASSUME NEW s \in Seq(Int), NEW q \in Seq(Int)
  PROVE  Joined(s \o q, s, q)
BY JoinElements DEF Joined

-----------------------------------------------------------------------------
(* The heap, and what the operators that change it leave.                  *)

NodeType == [is_leaf : BOOLEAN, keys : Seq(Int), pointers : Seq(Int), parent : Nat, next : Nat]

Heap(t) ==
  /\ t = [root |-> t.root, node |-> t.node]
  /\ IsFiniteSet(DOMAIN t.node) /\ DOMAIN t.node \subseteq Nat \ {Null}
  /\ t.node \in [DOMAIN t.node -> NodeType]

\* The address of a new node is not in use.
LEMMA NewNodeIsNew ==
  ASSUME NEW t, Heap(t)
  PROVE  NewNode(t) \in Nat \ {Null} /\ NewNode(t) \notin DOMAIN t.node
<1> DEFINE D == DOMAIN t.node
           c == Cardinality(D)
           T == (1..(c + 1)) \ D
<1>1. IsFiniteSet(D) /\ c \in Nat
  BY FS_CardinalityType DEF Heap
<1>2. T # {}
  <2>1. SUFFICES ASSUME T = {} PROVE FALSE
    OBVIOUS
  <2>2. 1..(c + 1) \in SUBSET D
    BY <2>1
  <2>3. Cardinality(1..(c + 1)) <= c
    <3> HIDE DEF D
    <3> QED BY <1>1, <2>2, FS_Subset
  <2>4. Cardinality(1..(c + 1)) = c + 1
    <3>1. 1 \in Int /\ c + 1 \in Int /\ ~(1 > c + 1)
      BY <1>1
    <3>2. Cardinality(1..(c + 1)) = IF 1 > c + 1 THEN 0 ELSE ((c + 1) - 1) + 1
      BY <3>1, FS_Interval
    <3> HIDE DEF c
    <3> QED BY <3>1, <3>2, <1>1
  <2> HIDE DEF c
  <2> QED BY <1>1, <2>3, <2>4
<1>3. Min(T) \in T
  <2>1. T \in SUBSET Int /\ 1 \in Int /\ \A x \in T : 1 <= x
    <3> HIDE DEF c, D
    <3> QED BY <1>1
  <2> HIDE DEF T
  <2> QED BY <1>2, <2>1, MinOfBounded
<1>4. NewNode(t) = Min(T)
  BY DEF NewNode
<1>5. T \subseteq Nat \ {Null}
  <2>1. \A x \in 1..(c + 1) : x \in Nat /\ x # 0
    <3> HIDE DEF c
    <3> QED BY <1>1
  <2> QED BY <2>1 DEF Null
<1> QED BY <1>3, <1>4, <1>5

\* u is t with some nodes written.
Wrote(u, t, a, x) ==
  /\ Heap(u) /\ u.root = t.root /\ DOMAIN u.node = {a} \cup DOMAIN t.node
  /\ u.node[a] = x
  /\ \A n \in DOMAIN t.node : n # a => u.node[n] = t.node[n]

WroteTwo(u, t, a, x, b, y) ==
  /\ Heap(u) /\ u.root = t.root /\ DOMAIN u.node = {a, b} \cup DOMAIN t.node
  /\ u.node[a] = x /\ u.node[b] = y
  /\ \A n \in DOMAIN t.node : n # a /\ n # b => u.node[n] = t.node[n]

WroteThree(u, t, a, x, b, y, c, z) ==
  /\ Heap(u) /\ u.root = t.root /\ DOMAIN u.node = {a, b, c} \cup DOMAIN t.node
  /\ u.node[a] = x /\ u.node[b] = y /\ u.node[c] = z
  /\ \A n \in DOMAIN t.node : n # a /\ n # b /\ n # c => u.node[n] = t.node[n]

LEMMA WithOne ==
  ASSUME NEW t, Heap(t), NEW a \in Nat \ {Null}, NEW x \in NodeType
  PROVE  Wrote(With(t, a, x), t, a, x)
<1> DEFINE D == {a} \cup DOMAIN t.node
           h == [m \in D |-> IF m = a THEN x ELSE t.node[m]]
<1>1. With(t, a, x) = [root |-> t.root, node |-> h]
  BY DEF With, Heap
<1>2. DOMAIN h = D /\ h \in [D -> NodeType] /\ h[a] = x /\ \A n \in DOMAIN t.node : n # a => h[n] = t.node[n]
  BY DEF Heap
<1>3. IsFiniteSet(D)
  <2>1. IsFiniteSet(DOMAIN t.node)
    BY DEF Heap
  <2>2. IsFiniteSet(DOMAIN t.node \cup {a})
    BY <2>1, FS_AddElement
  <2>3. DOMAIN t.node \cup {a} = D
    OBVIOUS
  <2> QED BY <2>2, <2>3
<1>4. D \subseteq Nat \ {Null}
  BY DEF Heap
<1> HIDE DEF h, D
<1>5. Heap([root |-> t.root, node |-> h])
  BY <1>2, <1>3, <1>4 DEF Heap
<1> QED BY <1>1, <1>2, <1>5 DEF D, Wrote

LEMMA WithTwo ==
  ASSUME NEW t, Heap(t), NEW a \in Nat \ {Null}, NEW x \in NodeType, NEW b \in Nat \ {Null}, NEW y \in NodeType, a # b
  PROVE  WroteTwo(With(With(t, a, x), b, y), t, a, x, b, y)
<1>1. Wrote(With(t, a, x), t, a, x)
  BY WithOne
<1>2. Wrote(With(With(t, a, x), b, y), With(t, a, x), b, y)
  <2>1. Heap(With(t, a, x))
    BY <1>1 DEF Wrote
  <2> QED BY <2>1, WithOne
<1> QED BY <1>1, <1>2 DEF Wrote, WroteTwo

LEMMA LentNodes ==
  ASSUME NEW t, Heap(t), NEW a \in Nat \ {Null}, NEW x \in NodeType, NEW b \in Nat \ {Null}, NEW y \in NodeType,
         NEW c \in Nat \ {Null}, NEW z \in NodeType, a # b, a # c, b # c
  PROVE  WroteThree(Lent(t, a, x, b, y, c, z), t, a, x, b, y, c, z)
<1> DEFINE v == With(With(t, a, x), b, y)
<1>1. WroteTwo(v, t, a, x, b, y)
  BY WithTwo
<1>2. Wrote(With(v, c, z), v, c, z)
  <2>1. Heap(v)
    BY <1>1 DEF WroteTwo
  <2> HIDE DEF v
  <2> QED BY <2>1, WithOne
<1>3. WroteThree(With(v, c, z), t, a, x, b, y, c, z)
  <2> HIDE DEF v
  <2> QED BY <1>1, <1>2 DEF Wrote, WroteTwo, WroteThree
<1> QED BY <1>3 DEF Lent

Adopted(u, t, p, cs) ==
  /\ Heap(u) /\ u.root = t.root /\ DOMAIN u.node = DOMAIN t.node
  /\ \A n \in DOMAIN t.node :
       u.node[n] = IF n \in cs THEN [t.node[n] EXCEPT !.parent = p] ELSE t.node[n]

LEMMA AdoptNodes ==
  ASSUME NEW t, Heap(t), NEW p \in Nat, NEW cs
  PROVE  Adopted(Adopt(t, p, cs), t, p, cs)
<1> DEFINE h == [c \in DOMAIN t.node |-> IF c \in cs THEN [t.node[c] EXCEPT !.parent = p] ELSE t.node[c]]
<1>1. Adopt(t, p, cs) = [root |-> t.root, node |-> h]
  BY DEF Adopt, Heap
<1>2. \A c \in DOMAIN t.node : t.node[c] \in NodeType /\ [t.node[c] EXCEPT !.parent = p] \in NodeType
  BY DEF Heap, NodeType
<1>3. DOMAIN h = DOMAIN t.node /\ h \in [DOMAIN t.node -> NodeType]
      /\ \A n \in DOMAIN t.node : h[n] = IF n \in cs THEN [t.node[n] EXCEPT !.parent = p] ELSE t.node[n]
  BY <1>2
<1> HIDE DEF h
<1>4. Heap([root |-> t.root, node |-> h])
  BY <1>3 DEF Heap
<1> QED BY <1>1, <1>3, <1>4 DEF Adopted

WithoutNode(u, t, a) ==
  /\ Heap(u) /\ u.root = t.root /\ DOMAIN u.node = DOMAIN t.node \ {a}
  /\ \A n \in DOMAIN t.node \ {a} : u.node[n] = t.node[n]

LEMMA FreedNode ==
  ASSUME NEW t, Heap(t), NEW a
  PROVE  WithoutNode(Freed(t, a), t, a)
<1> DEFINE h == [m \in DOMAIN t.node \ {a} |-> t.node[m]]
<1>1. Freed(t, a) = [root |-> t.root, node |-> h]
  BY DEF Freed, Heap
<1>2. DOMAIN h = DOMAIN t.node \ {a} /\ h \in [DOMAIN t.node \ {a} -> NodeType] /\ \A n \in DOMAIN t.node \ {a} : h[n] = t.node[n]
  BY DEF Heap
<1> HIDE DEF h
<1>3. IsFiniteSet(DOMAIN h)
  BY <1>2, FS_RemoveElement DEF Heap
<1>4. Heap([root |-> t.root, node |-> h])
  BY <1>2, <1>3 DEF Heap
<1> QED BY <1>1, <1>2, <1>4 DEF WithoutNode

LEMMA RootedElsewhere ==
  ASSUME NEW t, Heap(t), NEW n
  PROVE  Heap([t EXCEPT !.root = n]) /\ [t EXCEPT !.root = n].root = n /\ [t EXCEPT !.root = n].node = t.node
<1>1. [t EXCEPT !.root = n] = [root |-> n, node |-> t.node]
  BY DEF Heap
<1> QED BY <1>1 DEF Heap

-----------------------------------------------------------------------------
(* The shape of a tree.  A node has a place: a height, and the range       *)
(* lo .. hi - 1 of the keys that are looked for through it.                *)

PlaceType == [ht : Nat, lo : Int, hi : Int]

\* The bounds of the children of n: its keys, between the ends of its own range.
Bound(n, x, i) == IF i = 0 THEN x.lo ELSE IF i = Len(n.keys) + 1 THEN x.hi ELSE n.keys[i]

LeafBody(n, x) ==
  /\ Len(n.pointers) = Len(n.keys)
  /\ \A i \in 1..Len(n.keys) : n.pointers[i] = n.keys[i] /\ x.lo <= n.keys[i] /\ n.keys[i] < x.hi
  /\ \A i, j \in 1..Len(n.keys) : i < j => n.keys[i] < n.keys[j]

\* A leaf has a pointer to the one that begins where it ends.
Link(t, g, n) ==
  IF t.node[n].next = Null THEN g[n].hi = MaxKey + 1
  ELSE /\ t.node[n].next \in DOMAIN t.node /\ t.node[t.node[n].next].is_leaf
       /\ g[t.node[n].next].lo = g[n].hi

Fenced(n, x) ==
  /\ Len(n.pointers) = Len(n.keys) + 1
  /\ \A i, j \in 0..(Len(n.keys) + 1) : i < j => Bound(n, x, i) < Bound(n, x, j)

\* The i-th child of n is one level lower, between the bounds.
Hangs(t, g, n, i) ==
  LET c == t.node[n].pointers[i]
  IN  /\ c \in DOMAIN t.node /\ t.node[c].parent = n
      /\ g[n].ht = g[c].ht + 1
      /\ g[c].lo = Bound(t.node[n], g[n], i - 1) /\ g[c].hi = Bound(t.node[n], g[n], i)

Body(t, g, n) ==
  /\ g[n].lo < g[n].hi
  /\ t.node[n].is_leaf => g[n].ht = 0 /\ LeafBody(t.node[n], g[n]) /\ Link(t, g, n)
  /\ ~t.node[n].is_leaf =>
       /\ g[n].ht # 0 /\ Fenced(t.node[n], g[n])
       /\ \A i \in 1..Len(t.node[n].pointers) : Hangs(t, g, n, i)

IsChild(t, n) ==
  LET p == t.node[n].parent
  IN  p \in DOMAIN t.node /\ ~t.node[p].is_leaf /\ \E i \in 1..Len(t.node[p].pointers) : t.node[p].pointers[i] = n

Placed(t, g) == Heap(t) /\ g \in [DOMAIN t.node -> PlaceType]

\* Every key is looked for from the root, which is above all others.
RootOK(t, g) ==
  /\ t.root \in DOMAIN t.node /\ t.node[t.root].parent = Null
  /\ g[t.root].lo = MinKey /\ g[t.root].hi = MaxKey + 1

Under(t, g, n) == IsChild(t, n) /\ g[n].ht < g[t.root].ht

Shape(t, g) ==
  /\ Placed(t, g) /\ RootOK(t, g)
  /\ \A n \in DOMAIN t.node : Body(t, g, n) /\ (n # t.root => Under(t, g, n))

LEMMA NodeFields ==
  ASSUME NEW t, Heap(t), NEW n \in DOMAIN t.node
  PROVE  /\ t.node[n] \in NodeType /\ n \in Nat /\ n # Null
         /\ t.node[n].is_leaf \in BOOLEAN /\ t.node[n].parent \in Nat /\ t.node[n].next \in Nat
         /\ t.node[n].keys \in Seq(Int) /\ Len(t.node[n].keys) \in Nat
         /\ t.node[n].pointers \in Seq(Int) /\ Len(t.node[n].pointers) \in Nat
<1>1. t.node[n] \in NodeType /\ n \in Nat /\ n # Null
  BY DEF Heap
<1> QED BY <1>1 DEF NodeType

LEMMA PlaceFields ==
  ASSUME NEW t, NEW g, Placed(t, g), NEW n \in DOMAIN t.node
  PROVE  /\ g[n] \in PlaceType /\ g[n].ht \in Nat /\ g[n].lo \in Int /\ g[n].hi \in Int
         /\ DOMAIN g = DOMAIN t.node
<1>1. g[n] \in PlaceType /\ DOMAIN g = DOMAIN t.node
  BY DEF Placed
<1> QED BY <1>1 DEF PlaceType

\* The bounds of an inner node are within its range.
LEMMA BoundRange ==
  ASSUME NEW n \in NodeType, NEW x \in PlaceType, Fenced(n, x), NEW i \in 0..(Len(n.keys) + 1)
  PROVE  Bound(n, x, i) \in Int /\ x.lo <= Bound(n, x, i) /\ Bound(n, x, i) <= x.hi
<1> DEFINE l == Len(n.keys) + 1
<1>1. l \in Nat /\ n.keys \in Seq(Int) /\ x.lo \in Int /\ x.hi \in Int
  BY DEF NodeType, PlaceType
<1>2. Bound(n, x, 0) = x.lo /\ Bound(n, x, l) = x.hi
  BY <1>1 DEF Bound
<1>3. Bound(n, x, i) \in Int
  <2>1. CASE i = 0 \/ i = l
    BY <1>1, <2>1 DEF Bound
  <2>2. CASE i # 0 /\ i # l
    <3>1. i \in 1..Len(n.keys)
      BY <1>1, <2>2
    <3> QED BY <1>1, <2>2, <3>1 DEF Bound
  <2> QED BY <2>1, <2>2
<1>4. i \in 0..l
  OBVIOUS
<1>5. \A a, b \in 0..l : a < b => Bound(n, x, a) < Bound(n, x, b)
  BY DEF Fenced
<1> HIDE DEF l
<1>6. (i = 0 \/ 0 < i) /\ (i = l \/ i < l) /\ 0 \in 0..l /\ l \in 0..l
  BY <1>1, <1>4
<1>7. i = 0 \/ x.lo < Bound(n, x, i)
  BY <1>2, <1>4, <1>5, <1>6
<1>8. i = l \/ Bound(n, x, i) < x.hi
  BY <1>2, <1>4, <1>5, <1>6
<1>9. x.lo <= Bound(n, x, i)
  <2>1. x.lo = Bound(n, x, i) \/ x.lo < Bound(n, x, i)
    BY <1>2, <1>7
  <2> DEFINE v == Bound(n, x, i)
             w == x.lo
  <2>2. v \in Int /\ w \in Int /\ (w = v \/ w < v)
    BY <1>1, <1>3, <2>1
  <2> HIDE DEF v, w
  <2>3. w <= v
    BY <2>2
  <2> QED BY <2>3 DEF v, w
<1>10. Bound(n, x, i) <= x.hi
  <2>1. x.hi = Bound(n, x, i) \/ Bound(n, x, i) < x.hi
    BY <1>2, <1>8
  <2> DEFINE v == Bound(n, x, i)
             w == x.hi
  <2>2. v \in Int /\ w \in Int /\ (w = v \/ v < w)
    BY <1>1, <1>3, <2>1
  <2> HIDE DEF v, w
  <2>3. v <= w
    BY <2>2
  <2> QED BY <2>3 DEF v, w
<1> QED BY <1>3, <1>9, <1>10

\* The children of a node, and what is above a node.
LEMMA Children ==
  ASSUME NEW t, NEW g, Shape(t, g), NEW n \in DOMAIN t.node, ~t.node[n].is_leaf,
         NEW i \in 1..Len(t.node[n].pointers)
  PROVE  LET c == t.node[n].pointers[i]
         IN  /\ c \in DOMAIN t.node /\ t.node[c].parent = n
             /\ i \in 1..(Len(t.node[n].keys) + 1)
             /\ g[n].ht = g[c].ht + 1
             /\ g[c].lo = Bound(t.node[n], g[n], i - 1) /\ g[c].hi = Bound(t.node[n], g[n], i)
             /\ g[n].lo <= g[c].lo /\ g[c].hi <= g[n].hi
<1> DEFINE c == t.node[n].pointers[i]
<1>1. Hangs(t, g, n, i) /\ Fenced(t.node[n], g[n])
  BY DEF Shape, Body
<1>2. /\ c \in DOMAIN t.node /\ t.node[c].parent = n
      /\ g[n].ht = g[c].ht + 1
      /\ g[c].lo = Bound(t.node[n], g[n], i - 1) /\ g[c].hi = Bound(t.node[n], g[n], i)
  BY <1>1 DEF Hangs
<1>3. t.node[n] \in NodeType /\ g[n] \in PlaceType /\ Len(t.node[n].keys) \in Nat
  BY NodeFields, PlaceFields DEF Shape, Placed
<1>4. i \in 1..(Len(t.node[n].keys) + 1)
  BY <1>1 DEF Fenced
<1>5. i \in 0..(Len(t.node[n].keys) + 1) /\ i - 1 \in 0..(Len(t.node[n].keys) + 1)
  BY <1>3, <1>4
<1>6. g[n].lo <= Bound(t.node[n], g[n], i - 1) /\ Bound(t.node[n], g[n], i) <= g[n].hi
  BY <1>1, <1>3, <1>5, BoundRange
<1> QED BY <1>2, <1>4, <1>6

\* The place of a child tells which one it is.
LEMMA OneIndex ==
  ASSUME NEW t, NEW g, Shape(t, g), NEW n \in DOMAIN t.node, ~t.node[n].is_leaf,
         NEW i \in 1..Len(t.node[n].pointers), NEW j \in 1..Len(t.node[n].pointers), i # j, NEW k \in Int
  PROVE  LET c == t.node[n].pointers[i]
             d == t.node[n].pointers[j]
         IN  ~(g[c].lo <= k /\ k < g[c].hi /\ g[d].lo <= k /\ k < g[d].hi)
<1> DEFINE b(x) == Bound(t.node[n], g[n], x)
           c(x) == t.node[n].pointers[x]
           l == Len(t.node[n].keys) + 1
<1>1. /\ i \in 1..l /\ j \in 1..l
      /\ g[c(i)].lo = b(i - 1) /\ g[c(i)].hi = b(i) /\ g[c(j)].lo = b(j - 1) /\ g[c(j)].hi = b(j)
  BY Children
<1>2. t.node[n] \in NodeType /\ g[n] \in PlaceType /\ l \in Nat
  BY NodeFields, PlaceFields DEF Shape, Placed
<1>3. Fenced(t.node[n], g[n])
  BY DEF Shape, Body
<1>4. i - 1 \in 0..l /\ i \in 0..l /\ j - 1 \in 0..l /\ j \in 0..l
  BY <1>1, <1>2
<1>5. b(i - 1) \in Int /\ b(i) \in Int /\ b(j - 1) \in Int /\ b(j) \in Int
  BY <1>2, <1>3, <1>4, BoundRange
<1>6. \A x, y \in 0..l : x < y => b(x) < b(y)
  BY <1>3 DEF Fenced
<1>7. b(i) <= b(j - 1) \/ b(j) <= b(i - 1)
  <2>1. i < j - 1 \/ i = j - 1 \/ j < i - 1 \/ j = i - 1
    BY <1>1
  <2> HIDE DEF b, l
  <2> QED BY <1>4, <1>5, <1>6, <2>1
<1> HIDE DEF b, c, l
<1>8. ~(g[c(i)].lo <= k /\ k < g[c(i)].hi /\ g[c(j)].lo <= k /\ k < g[c(j)].hi)
  BY <1>1, <1>5, <1>7
<1> QED BY <1>8 DEF c

LEMMA Above ==
  ASSUME NEW t, NEW g, Shape(t, g), NEW n \in DOMAIN t.node, n # t.root
  PROVE  LET p == t.node[n].parent
         IN  /\ p \in DOMAIN t.node /\ ~t.node[p].is_leaf /\ p # n
             /\ g[p].ht = g[n].ht + 1 /\ g[p].lo <= g[n].lo /\ g[n].hi <= g[p].hi
             /\ \E i \in 1..Len(t.node[p].pointers) : t.node[p].pointers[i] = n
<1> DEFINE p == t.node[n].parent
<1>1. p \in DOMAIN t.node /\ ~t.node[p].is_leaf /\ \E i \in 1..Len(t.node[p].pointers) : t.node[p].pointers[i] = n
  BY DEF Shape, Under, IsChild
<1>2. PICK i \in 1..Len(t.node[p].pointers) : t.node[p].pointers[i] = n
  BY <1>1
<1> HIDE DEF p
<1>3. g[p].ht = g[n].ht + 1 /\ g[p].lo <= g[n].lo /\ g[n].hi <= g[p].hi
  BY <1>1, <1>2, Children
<1>4. g[n].ht \in Nat /\ g[p].ht \in Nat
  BY <1>1, PlaceFields DEF Shape
<1>5. p # n
  BY <1>3, <1>4
<1> QED BY <1>1, <1>3, <1>5 DEF p

LEMMA Heights ==
  ASSUME NEW t, NEW g, Shape(t, g), NEW n \in DOMAIN t.node
  PROVE  /\ t.root \in DOMAIN t.node /\ g[n].ht \in Nat /\ g[t.root].ht \in Nat /\ g[n].ht <= g[t.root].ht
         /\ (g[n].ht = g[t.root].ht) = (n = t.root)
         /\ t.node[n].is_leaf = (g[n].ht = 0)
<1>1. t.root \in DOMAIN t.node /\ (n # t.root => g[n].ht < g[t.root].ht)
  BY DEF Shape, RootOK, Under
<1>2. g[n].ht \in Nat /\ g[t.root].ht \in Nat
  BY <1>1, PlaceFields DEF Shape
<1>3. t.node[n].is_leaf \in BOOLEAN
  BY NodeFields DEF Shape, Placed
<1>4. t.node[n].is_leaf <=> g[n].ht = 0
  BY DEF Shape, Body
<1> QED BY <1>1, <1>2, <1>3, <1>4

\* Nodes of a level share no key.
LEMMA SamePlace ==
  ASSUME NEW t, NEW g, Shape(t, g), NEW m \in DOMAIN t.node, NEW n \in DOMAIN t.node, g[m].ht = g[n].ht,
         NEW k \in Int, g[m].lo <= k, k < g[m].hi, g[n].lo <= k, k < g[n].hi
  PROVE  m = n
<1> DEFINE H == g[t.root].ht
           Both(d, a, b) == /\ a # b /\ g[a].ht = H - d /\ g[b].ht = H - d
                            /\ g[a].lo <= k /\ k < g[a].hi /\ g[b].lo <= k /\ k < g[b].hi
           Bad == {d \in 0..H : \E a, b \in DOMAIN t.node : Both(d, a, b)}
<1>1. H \in Nat
  BY Heights
<1>2. SUFFICES ASSUME m # n PROVE FALSE
  OBVIOUS
<1>3. H - g[m].ht \in Bad
  <2>1. H - g[m].ht \in 0..H /\ g[m].ht = H - (H - g[m].ht)
    <3>1. g[m].ht \in Nat /\ g[m].ht <= H
      BY Heights
    <3> HIDE DEF H
    <3> QED BY <1>1, <3>1
  <2> QED BY <1>2, <2>1
<1>4. PICK d \in Bad : \A e \in Bad : d <= e
  <2>1. Bad \in SUBSET Nat /\ Bad # {}
    BY <1>1, <1>3
  <2> HIDE DEF Bad
  <2> QED BY <2>1, LeastExists
<1>5. d \in 0..H
  OBVIOUS
<1>6. PICK a \in DOMAIN t.node, b \in DOMAIN t.node : Both(d, a, b)
  OBVIOUS
<1>7. a # t.root /\ b # t.root
  <2>1. (g[a].ht = H) = (a = t.root) /\ (g[b].ht = H) = (b = t.root)
    BY Heights
  <2> QED BY <1>6, <2>1
<1> DEFINE p == t.node[a].parent
           q == t.node[b].parent
<1>8. /\ p \in DOMAIN t.node /\ ~t.node[p].is_leaf /\ g[p].ht = g[a].ht + 1 /\ g[p].lo <= g[a].lo /\ g[a].hi <= g[p].hi
      /\ \E i \in 1..Len(t.node[p].pointers) : t.node[p].pointers[i] = a
  BY <1>7, Above
<1>9. /\ q \in DOMAIN t.node /\ ~t.node[q].is_leaf /\ g[q].ht = g[b].ht + 1 /\ g[q].lo <= g[b].lo /\ g[b].hi <= g[q].hi
      /\ \E i \in 1..Len(t.node[q].pointers) : t.node[q].pointers[i] = b
  BY <1>7, Above
<1>10. /\ g[a].lo \in Int /\ g[a].hi \in Int /\ g[b].lo \in Int /\ g[b].hi \in Int
       /\ g[p].lo \in Int /\ g[p].hi \in Int /\ g[q].lo \in Int /\ g[q].hi \in Int
       /\ g[p].ht \in Nat /\ g[p].ht <= H
  BY <1>8, <1>9, PlaceFields, Heights DEF Shape
<1> HIDE DEF p, q, H
<1>11. p = q
  <2>1. SUFFICES ASSUME p # q PROVE FALSE
    OBVIOUS
  <2>2. d - 1 \in 0..H /\ g[p].ht = H - (d - 1) /\ g[q].ht = H - (d - 1)
    BY <1>1, <1>5, <1>6, <1>8, <1>9, <1>10
  <2>3. g[p].lo <= k /\ k < g[p].hi /\ g[q].lo <= k /\ k < g[q].hi
    <3>1. g[a].lo <= k /\ k < g[a].hi /\ g[b].lo <= k /\ k < g[b].hi
      BY <1>6
    <3>2. g[p].lo <= g[a].lo /\ g[a].hi <= g[p].hi /\ g[q].lo <= g[b].lo /\ g[b].hi <= g[q].hi
      BY <1>8, <1>9
    <3> QED BY <1>10, <3>1, <3>2
  <2>4. d - 1 \in Bad
    BY <1>8, <1>9, <2>1, <2>2, <2>3
  <2>5. ~(d <= d - 1)
    BY <1>5
  <2> HIDE DEF Bad
  <2> QED BY <1>4, <2>4, <2>5
<1>12. PICK i \in 1..Len(t.node[p].pointers) : t.node[p].pointers[i] = a
  BY <1>8
<1>13. PICK j \in 1..Len(t.node[p].pointers) : t.node[p].pointers[j] = b
  BY <1>9, <1>11
<1>14. i # j
  BY <1>6, <1>12, <1>13
<1> QED BY <1>6, <1>8, <1>12, <1>13, <1>14, OneIndex

-----------------------------------------------------------------------------
(* Finding.                                                                *)

\* An inner node has children.
LEMMA HasChildren ==
  ASSUME NEW t, NEW g, Shape(t, g), NEW n \in DOMAIN t.node, ~t.node[n].is_leaf
  PROVE  /\ Len(t.node[n].keys) \in Nat /\ Len(t.node[n].pointers) = Len(t.node[n].keys) + 1
         /\ 1 \in 1..Len(t.node[n].pointers) /\ Fenced(t.node[n], g[n])
<1>1. Fenced(t.node[n], g[n])
  BY DEF Shape, Body
<1>2. Len(t.node[n].keys) \in Nat
  BY NodeFields DEF Shape, Placed
<1>3. Len(t.node[n].pointers) = Len(t.node[n].keys) + 1
  BY <1>1 DEF Fenced
<1> QED BY <1>1, <1>2, <1>3

\* There are nodes at every height below the root.
LEMMA EveryHeight ==
  ASSUME NEW t, NEW g, Shape(t, g)
  PROVE  \A d \in 0..g[t.root].ht : \E n \in DOMAIN t.node : g[n].ht = g[t.root].ht - d
<1> DEFINE H == g[t.root].ht
           T == {d \in 0..H : \E n \in DOMAIN t.node : g[n].ht = H - d}
<1>1. t.root \in DOMAIN t.node /\ H \in Nat
  BY Heights DEF Shape, RootOK
<1>2. 0 \in T
  BY <1>1
<1>3. ASSUME NEW d \in 1..H, d - 1 \in T PROVE d \in T
  <2>1. PICK n \in DOMAIN t.node : g[n].ht = H - (d - 1)
    BY <1>3
  <2>2. ~t.node[n].is_leaf
    <3>1. g[n].ht # 0
      <4> HIDE DEF H
      <4> QED BY <1>1, <2>1
    <3> QED BY <3>1, Heights
  <2> DEFINE c == t.node[n].pointers[1]
  <2>3. c \in DOMAIN t.node /\ g[n].ht = g[c].ht + 1
    BY <2>2, HasChildren, Children
  <2>4. g[c].ht \in Nat
    BY <2>3, PlaceFields DEF Shape
  <2>5. g[c].ht = H - d
    <3> HIDE DEF H, c
    <3> QED BY <1>1, <2>1, <2>3, <2>4
  <2>6. d \in 0..H
    <3> HIDE DEF H
    <3> QED BY <1>1
  <2> HIDE DEF c
  <2> QED BY <2>3, <2>5, <2>6
<1>4. 0..H \subseteq T
  <2> HIDE DEF T, H
  <2> QED BY <1>1, <1>2, <1>3, UpTo
<1> QED BY <1>4

\* A tree has more nodes than it is high.
LEMMA HeightBound ==
  ASSUME NEW t, NEW g, Shape(t, g)
  PROVE  Cardinality(DOMAIN t.node) \in Nat /\ g[t.root].ht < Cardinality(DOMAIN t.node)
<1> DEFINE D == DOMAIN t.node
           H == g[t.root].ht
           f == [n \in D |-> g[n].ht]
           I == {g[n].ht : n \in D}
<1>1. IsFiniteSet(D)
  BY DEF Shape, Placed, Heap
<1>2. H \in Nat
  BY Heights DEF Shape, RootOK
<1>3. f \in Surjection(D, I)
  BY DEF Surjection
<1>4. IsFiniteSet(I) /\ Cardinality(I) <= Cardinality(D)
  <2> HIDE DEF f, I, D
  <2> QED BY <1>1, <1>3, FS_Surjection
<1>5. 0..H \in SUBSET I
  <2>1. ASSUME NEW h \in 0..H PROVE h \in I
    <3>1. H - h \in 0..H /\ H - (H - h) = h
      <4> HIDE DEF H
      <4> QED BY <1>2
    <3>2. \E n \in D : g[n].ht = H - (H - h)
      BY <3>1, EveryHeight
    <3> QED BY <3>1, <3>2
  <2> QED BY <2>1
<1>6. Cardinality(0..H) <= Cardinality(I)
  <2> HIDE DEF I, H
  <2> QED BY <1>4, <1>5, FS_Subset
<1>7. Cardinality(0..H) = H + 1
  <2> HIDE DEF H
  <2>1. 0 \in Int /\ H \in Int /\ ~(0 > H)
    BY <1>2
  <2>2. Cardinality(0..H) = IF 0 > H THEN 0 ELSE (H - 0) + 1
    BY <2>1, FS_Interval
  <2> QED BY <2>1, <2>2
<1>8. Cardinality(D) \in Nat /\ Cardinality(I) \in Nat
  BY <1>1, <1>4, FS_CardinalityType
<1> HIDE DEF H, I, D
<1>9. Cardinality(D) \in Nat /\ H < Cardinality(D)
  BY <1>2, <1>4, <1>6, <1>7, <1>8
<1> QED BY <1>9 DEF D, H

\* The child gone on with is the one in whose range the key is.
LEMMA ChildOnTheWay ==
  ASSUME NEW t, NEW g, Shape(t, g), NEW n \in DOMAIN t.node, ~t.node[n].is_leaf,
         NEW k \in Int, g[n].lo <= k, k < g[n].hi
  PROVE  LET c == Child(t.node[n], k)
         IN  c \in DOMAIN t.node /\ g[n].ht = g[c].ht + 1 /\ g[c].lo <= k /\ k < g[c].hi
<1> DEFINE s == t.node[n].keys
           P == {i \in DOMAIN s : k < s[i]}
           i == First(P, s)
           c == t.node[n].pointers[i]
<1>1. s \in Seq(Int) /\ Len(s) \in Nat /\ Len(t.node[n].pointers) = Len(s) + 1 /\ DOMAIN s = 1..Len(s)
  BY HasChildren, NodeFields DEF Shape, Placed
<1>2. Child(t.node[n], k) = c
  BY DEF Child
<1>3. i \in P \cup {Len(s) + 1} /\ \A j \in P : i <= j
  <2>1. P \in SUBSET (1..Len(s))
    BY <1>1
  <2> HIDE DEF P, s
  <2> QED BY <1>1, <2>1, FirstIsLeast
<1>4. i \in 1..(Len(s) + 1) /\ i \in 1..Len(t.node[n].pointers)
  <2>1. i \in 1..Len(s) \/ i = Len(s) + 1
    BY <1>1, <1>3
  <2> HIDE DEF i, s
  <2> QED BY <1>1, <2>1
<1>5. k < Bound(t.node[n], g[n], i)
  <2>1. CASE i = Len(s) + 1
    <3>1. Len(s) + 1 # 0
      BY <1>1
    <3> QED BY <2>1, <3>1 DEF Bound
  <2>2. CASE i # Len(s) + 1
    <3>1. i \in P
      BY <1>3, <2>2
    <3>2. i # 0 /\ k < s[i]
      BY <1>1, <3>1
    <3> HIDE DEF i, P
    <3> QED BY <2>2, <3>2 DEF Bound
  <2> QED BY <2>1, <2>2
<1>6. Bound(t.node[n], g[n], i - 1) <= k
  <2>1. CASE i = 1
    BY <2>1 DEF Bound
  <2>2. CASE i # 1
    <3>1. i - 1 \in 1..Len(s) /\ ~(i <= i - 1)
      <4> HIDE DEF i, s
      <4> QED BY <1>1, <1>4, <2>2
    <3>2. i - 1 \notin P
      <4> HIDE DEF i, P
      <4> QED BY <1>3, <3>1
    <3>3. ~(k < s[i - 1]) /\ s[i - 1] \in Int
      <4> HIDE DEF i
      <4> QED BY <1>1, <3>1, <3>2
    <3>4. Bound(t.node[n], g[n], i - 1) = s[i - 1]
      <4>1. i - 1 # 0 /\ i - 1 # Len(s) + 1
        BY <1>1, <3>1
      <4> QED BY <4>1 DEF Bound
    <3> HIDE DEF i, s
    <3> QED BY <3>3, <3>4
  <2> QED BY <2>1, <2>2
<1> HIDE DEF i, P
<1>7. c \in DOMAIN t.node /\ g[n].ht = g[c].ht + 1
      /\ g[c].lo = Bound(t.node[n], g[n], i - 1) /\ g[c].hi = Bound(t.node[n], g[n], i)
  BY <1>4, Children
<1> QED BY <1>2, <1>5, <1>6, <1>7

\* Find_Leaf returns the leaf in whose range the key is.
LEMMA LeafFound ==
  ASSUME NEW t, NEW g, Shape(t, g), NEW k \in Key
  PROVE  LET c == Find_Leaf(t, k)
         IN  c \in DOMAIN t.node /\ t.node[c].is_leaf /\ g[c].lo <= k /\ k < g[c].hi
<1> DEFINE D == DOMAIN t.node
           steps == Cardinality(D)
           H == g[t.root].ht
           On == {c \in D : g[c].lo <= k /\ k < g[c].hi}
           down(x) == IF t.node[x].is_leaf THEN x ELSE Child(t.node[x], k)
           f == [i \in 1..steps |-> [x \in On |-> down(x)]]
           way[i \in 0..steps] ==
             IF i = 0 THEN t.root
             ELSE LET c == way[i - 1] IN IF t.node[c].is_leaf THEN c ELSE Child(t.node[c], k)
<1>1. k \in Int /\ MinKey \in Int /\ MaxKey \in Int /\ MinKey <= k /\ k < MaxKey + 1
  BY BptAssumption DEF Key
<1>2. t.root \in On /\ t.root # Null
  <2>1. t.root \in D /\ g[t.root].lo = MinKey /\ g[t.root].hi = MaxKey + 1
    BY DEF Shape, RootOK
  <2>2. t.root # Null
    BY <2>1, NodeFields DEF Shape, Placed
  <2> QED BY <1>1, <2>1, <2>2
<1>3. Find_Leaf(t, k) = way[steps]
  BY <1>2 DEF Find_Leaf
<1>4. steps \in Nat /\ H < steps /\ H \in Nat
  BY HeightBound, Heights, <1>2
<1>5. ASSUME NEW x \in On
      PROVE  /\ down(x) \in On
             /\ g[x].ht \in Nat /\ g[down(x)].ht \in Nat
             /\ (x \in D /\ t.node[x].is_leaf) => g[x].ht = 0 /\ g[down(x)].ht = 0
             /\ ~(x \in D /\ t.node[x].is_leaf) => g[x].ht = g[down(x)].ht + 1
  <2>1. CASE t.node[x].is_leaf
    <3>1. down(x) = x
      BY <2>1
    <3>2. x \in DOMAIN t.node
      OBVIOUS
    <3>3. g[x].ht \in Nat /\ g[x].ht = 0
      BY <2>1, <3>2, Heights
    <3> HIDE DEF down
    <3> QED BY <2>1, <3>1, <3>2, <3>3
  <2>2. CASE ~t.node[x].is_leaf
    <3>1. down(x) = Child(t.node[x], k)
      BY <2>2
    <3>2. down(x) \in D /\ g[x].ht = g[down(x)].ht + 1 /\ g[down(x)].lo <= k /\ k < g[down(x)].hi
      BY <1>1, <2>2, <3>1, ChildOnTheWay
    <3> HIDE DEF down
    <3> QED BY <2>2, <3>2, Heights
  <2> QED BY <2>1, <2>2
<1> HIDE DEF On
<1>6. \A i \in 1..steps : \A x \in On : f[i][x] = down(x)
  OBVIOUS
<1> HIDE DEF f
<1>7. PICK h : Follows(h, steps, On, t.root, f)
  <2>1. StaysIn(steps, On, f)
    <3> HIDE DEF down
    <3> QED BY <1>5, <1>6 DEF StaysIn
  <2> HIDE DEF way, steps
  <2> QED BY <1>2, <1>4, <2>1, Recursion, Zenon
<1>8. h = [i \in 0..steps |->
             IF i = 0 THEN t.root
             ELSE LET c == h[i - 1] IN IF t.node[c].is_leaf THEN c ELSE Child(t.node[c], k)]
  <2>1. ASSUME NEW i \in 1..steps PROVE h[i] = down(h[i - 1])
    <3>1. i - 1 \in 0..steps
      <4> HIDE DEF steps
      <4> QED BY <1>4
    <3> HIDE DEF down
    <3> QED BY <1>6, <1>7, <3>1 DEF Follows
  <2>2. ASSUME NEW i \in 0..steps
        PROVE  h[i] = IF i = 0 THEN t.root ELSE down(h[i - 1])
    <3>1. i = 0 \/ i \in 1..steps
      <4> HIDE DEF steps
      <4> QED BY <1>4
    <3>2. h[0] = t.root
      BY <1>7 DEF Follows
    <3>3. ~(0 \in 1..steps)
      OBVIOUS
    <3> HIDE DEF down
    <3> QED BY <2>1, <3>1, <3>2, <3>3, Zenon
  <2> QED BY <1>7, <2>2 DEF Follows
<1>9. way = [i \in 0..steps |->
               IF i = 0 THEN t.root
               ELSE LET c == way[i - 1] IN IF t.node[c].is_leaf THEN c ELSE Child(t.node[c], k)]
  BY <1>8
<1> HIDE DEF way
<1> DEFINE T == {i \in 0..steps : way[i] \in On /\ g[way[i]].ht = IF i <= H THEN H - i ELSE 0}
<1>10. 0 \in T
  <2>1. way[0] = t.root
    BY <1>4, <1>9
  <2> QED BY <1>2, <1>4, <2>1
<1>11. ASSUME NEW i \in 1..steps, i - 1 \in T PROVE i \in T
  <2>1. i \in 0..steps /\ i # 0
    <3> HIDE DEF steps
    <3> QED BY <1>4
  <2>2. way[i] = down(way[i - 1])
    BY <1>9, <2>1
  <2>3. way[i - 1] \in On /\ g[way[i - 1]].ht = IF i - 1 <= H THEN H - (i - 1) ELSE 0
    BY <1>11
  <2> HIDE DEF down
  <2> DEFINE x == way[i - 1]
             y == way[i]
  <2>4. /\ y \in On /\ g[x].ht \in Nat /\ g[y].ht \in Nat
        /\ (g[x].ht = 0 /\ g[y].ht = 0) \/ g[x].ht = g[y].ht + 1
    BY <1>5, <2>2, <2>3
  <2> HIDE DEF x, y
  <2>5. g[y].ht = IF i <= H THEN H - i ELSE 0
    <3>1. g[x].ht = IF i - 1 <= H THEN H - (i - 1) ELSE 0
      BY <2>3 DEF x
    <3>2. i \in Nat
      OBVIOUS
    <3> HIDE DEF H
    <3> QED BY <1>4, <2>4, <3>1, <3>2
  <2> QED BY <2>1, <2>4, <2>5 DEF y
<1>12. steps \in T
  <2>1. 0..steps \subseteq T
    <3> HIDE DEF T, steps
    <3> QED BY <1>4, <1>10, <1>11, UpTo
  <2>2. steps \in 0..steps
    <3> HIDE DEF steps
    <3> QED BY <1>4
  <2> QED BY <2>1, <2>2
<1>13. way[steps] \in On /\ g[way[steps]].ht = 0
  <2>1. ~(steps <= H)
    <3> HIDE DEF H, steps
    <3> QED BY <1>4
  <2> QED BY <1>12, <2>1
<1> DEFINE w == way[steps]
<1>14. w \in D /\ g[w].lo <= k /\ k < g[w].hi
  BY <1>13 DEF On
<1>15. t.node[w].is_leaf
  <2>1. g[w].ht = 0
    BY <1>13
  <2> HIDE DEF w
  <2> QED BY <1>14, <2>1, Heights
<1> QED BY <1>3, <1>14, <1>15

-----------------------------------------------------------------------------
(* The keys of a tree.                                                     *)

HasKey(n, k) == \E i \in 1..Len(n.keys) : n.keys[i] = k
Holds(t, n, k) == t.node[n].is_leaf /\ HasKey(t.node[n], k)

KeysOf(t) == UNION {ToSet(t.node[n].keys) : n \in {m \in DOMAIN t.node : t.node[m].is_leaf}}

LEMMA KeyHeld ==
  ASSUME NEW t, Heap(t), NEW k
  PROVE  k \in KeysOf(t) <=> \E n \in DOMAIN t.node : Holds(t, n, k)
<1>1. \A n \in DOMAIN t.node : DOMAIN t.node[n].keys = 1..Len(t.node[n].keys)
  BY NodeFields
<1> QED BY <1>1 DEF KeysOf, Holds, HasKey, ToSet

\* A key is in the leaf that is found for it, or nowhere.
LEMMA HolderFound ==
  ASSUME NEW t, NEW g, Shape(t, g), NEW k \in Key, NEW n \in DOMAIN t.node, Holds(t, n, k)
  PROVE  n = Find_Leaf(t, k)
<1> DEFINE c == Find_Leaf(t, k)
<1>1. c \in DOMAIN t.node /\ t.node[c].is_leaf /\ g[c].lo <= k /\ k < g[c].hi
  BY LeafFound
<1> HIDE DEF c
<1>2. t.node[n].is_leaf /\ g[n].lo <= k /\ k < g[n].hi
  <2>1. LeafBody(t.node[n], g[n])
    BY DEF Shape, Body, Holds
  <2> QED BY <2>1 DEF LeafBody, Holds, HasKey
<1>3. g[n].ht = g[c].ht /\ k \in Int
  <2>1. k \in Int
    BY BptAssumption DEF Key
  <2>2. t.node[n].is_leaf = (g[n].ht = 0)
    BY Heights
  <2>3. t.node[c].is_leaf = (g[c].ht = 0)
    BY <1>1, Heights
  <2> QED BY <1>1, <1>2, <2>1, <2>2, <2>3
<1>4. n = c
  BY <1>1, <1>2, <1>3, SamePlace
<1> QED BY <1>4 DEF c

\* The place of a key in its leaf.
LEMMA PlaceOfKey ==
  ASSUME NEW n \in NodeType, NEW x, LeafBody(n, x), NEW i \in 1..Len(n.keys)
  PROVE  Position(n.keys, n.keys[i]) = i /\ n.pointers[i] = n.keys[i] /\ n.keys[i] \in Int /\ Position(n.pointers, n.keys[i]) = i
<1>1. n.keys \in Seq(Int) /\ n.pointers \in Seq(Int)
  BY DEF NodeType
<1>2. Len(n.pointers) = Len(n.keys) /\ (\A j \in 1..Len(n.keys) : n.pointers[j] = n.keys[j] /\ n.keys[j] \in Int)
      /\ \A a, b \in 1..Len(n.keys) : a < b => n.keys[a] < n.keys[b]
  <2>1. Len(n.pointers) = Len(n.keys) /\ \A j \in 1..Len(n.keys) : n.pointers[j] = n.keys[j]
    BY DEF LeafBody
  <2>2. \A a, b \in 1..Len(n.keys) : a < b => n.keys[a] < n.keys[b]
    BY DEF LeafBody
  <2>3. \A j \in 1..Len(n.keys) : n.keys[j] \in Int
    BY <1>1
  <2> QED BY <2>1, <2>2, <2>3
<1>3. \A j \in 1..Len(n.keys) : n.keys[j] = n.keys[i] => j = i
  <2>1. \A j \in 1..Len(n.keys) : j = i \/ j < i \/ i < j
    BY <1>1
  <2> QED BY <1>2, <2>1
<1>4. Position(n.keys, n.keys[i]) = i
  BY <1>1, <1>3, PositionOf
<1>5. \A j \in 1..Len(n.pointers) : n.pointers[j] = n.pointers[i] => j = i
  BY <1>2, <1>3
<1>6. Position(n.pointers, n.pointers[i]) = i
  BY <1>1, <1>2, <1>5, PositionOf
<1> QED BY <1>2, <1>4, <1>6

LEMMA RecordFound ==
  ASSUME NEW t, NEW g, Shape(t, g), NEW k \in Key
  PROVE  /\ Find_Record(t, k) = IF k \in KeysOf(t) THEN k ELSE NoRecord
         /\ k \in KeysOf(t) => Holds(t, Find_Leaf(t, k), k)
<1> DEFINE c == Find_Leaf(t, k)
           s == t.node[c].keys
<1>1. c \in DOMAIN t.node /\ t.node[c].is_leaf
  BY LeafFound
<1>2. c # Null /\ t.node[c] \in NodeType /\ s \in Seq(Int) /\ DOMAIN s = 1..Len(s)
  BY <1>1, NodeFields DEF Shape, Placed
<1>3. k \in KeysOf(t) <=> Holds(t, c, k)
  <2>1. Heap(t)
    BY DEF Shape, Placed
  <2>2. \A n \in DOMAIN t.node : Holds(t, n, k) => n = c
    BY HolderFound
  <2> HIDE DEF c
  <2> QED BY <1>1, <2>1, <2>2, KeyHeld
<1>4. Holds(t, c, k) <=> k \in ToSet(s)
  BY <1>1, <1>2 DEF Holds, HasKey, ToSet
<1>5. CASE k \notin ToSet(s)
  BY <1>3, <1>4, <1>5 DEF Find_Record
<1>6. CASE k \in ToSet(s)
  <2>1. PICK i \in 1..Len(s) : s[i] = k
    BY <1>2, <1>6 DEF ToSet
  <2>2. LeafBody(t.node[c], g[c])
    BY <1>1 DEF Shape, Body
  <2>3. Position(s, s[i]) = i /\ t.node[c].pointers[i] = s[i]
    BY <1>2, <2>2, PlaceOfKey
  <2>4. Find_Record(t, k) = t.node[c].pointers[Position(s, k)]
    BY <1>2, <1>6 DEF Find_Record
  <2> QED BY <1>3, <1>4, <1>6, <2>1, <2>3, <2>4
<1> QED BY <1>3, <1>5, <1>6

-----------------------------------------------------------------------------
(* The levels of a tree.                                                   *)

\* The nodes pointed to from one height are those of the next.
LEMMA NextLevel ==
  ASSUME NEW t, NEW g, Shape(t, g), NEW d \in Nat \ {0}
  PROVE  UNION {ToSet(t.node[n].pointers) : n \in {m \in {x \in DOMAIN t.node : g[x].ht + (d - 1) = g[t.root].ht} : ~t.node[m].is_leaf}}
           = {x \in DOMAIN t.node : g[x].ht + d = g[t.root].ht}
<1> DEFINE A == {x \in DOMAIN t.node : g[x].ht + (d - 1) = g[t.root].ht}
           B == {m \in A : ~t.node[m].is_leaf}
           C == {x \in DOMAIN t.node : g[x].ht + d = g[t.root].ht}
<1>1. \A n \in DOMAIN t.node : g[n].ht \in Nat
  BY PlaceFields DEF Shape
<1>2. ASSUME NEW n \in B, NEW i \in DOMAIN t.node[n].pointers PROVE t.node[n].pointers[i] \in C
  <2> DEFINE c == t.node[n].pointers[i]
  <2>1. n \in DOMAIN t.node /\ ~t.node[n].is_leaf /\ g[n].ht + (d - 1) = g[t.root].ht
    OBVIOUS
  <2>2. i \in 1..Len(t.node[n].pointers)
    BY <2>1, NodeFields DEF Shape, Placed
  <2>3. c \in DOMAIN t.node /\ g[n].ht = g[c].ht + 1
    BY <2>1, <2>2, Children
  <2>4. g[c].ht + d = g[t.root].ht
    <3> HIDE DEF c
    <3>1. g[c].ht \in Nat
      BY <1>1, <2>3
    <3> QED BY <2>1, <2>3, <3>1
  <2> QED BY <2>3, <2>4
<1>3. ASSUME NEW c \in C PROVE \E n \in B : c \in ToSet(t.node[n].pointers)
  <2>1. c \in DOMAIN t.node /\ g[c].ht + d = g[t.root].ht /\ g[c].ht \in Nat
    BY <1>1
  <2>2. c # t.root
    BY <2>1
  <2> DEFINE p == t.node[c].parent
  <2>3. /\ p \in DOMAIN t.node /\ ~t.node[p].is_leaf /\ g[p].ht = g[c].ht + 1
        /\ \E i \in 1..Len(t.node[p].pointers) : t.node[p].pointers[i] = c
    BY <2>1, <2>2, Above
  <2> HIDE DEF p
  <2>4. g[p].ht + (d - 1) = g[t.root].ht
    BY <2>1, <2>3
  <2>5. c \in ToSet(t.node[p].pointers)
    <3>1. DOMAIN t.node[p].pointers = 1..Len(t.node[p].pointers)
      BY <2>3, NodeFields DEF Shape, Placed
    <3> QED BY <2>3, <3>1 DEF ToSet
  <2> QED BY <2>3, <2>4, <2>5
<1>4. \A n \in B : ToSet(t.node[n].pointers) \subseteq C
  <2> HIDE DEF B, C
  <2> QED BY <1>2 DEF ToSet
<1>5. UNION {ToSet(t.node[n].pointers) : n \in B} = C
  <2> HIDE DEF B, C
  <2> QED BY <1>3, <1>4
<1> QED BY <1>5

LEMMA LevelsOf ==
  ASSUME NEW t, NEW g, Shape(t, g)
  PROVE  /\ DOMAIN Levels(t) = 0..Cardinality(DOMAIN t.node)
         /\ \A d \in 0..Cardinality(DOMAIN t.node) :
              Levels(t)[d] = {n \in DOMAIN t.node : g[n].ht + d = g[t.root].ht}
<1> DEFINE D == DOMAIN t.node
           steps == Cardinality(D)
           H == g[t.root].ht
           At(d) == {n \in D : g[n].ht + d = H}
           level[d \in 0..steps] ==
             IF d = 0 THEN {t.root}
             ELSE UNION {ToSet(t.node[n].pointers) : n \in {m \in level[d - 1] : ~t.node[m].is_leaf}}
           h == [d \in 0..steps |-> At(d)]
<1>1. steps \in Nat /\ H \in Nat /\ t.root \in D
  BY HeightBound, Heights DEF Shape, RootOK
<1>2. At(0) = {t.root}
  <2>1. \A n \in D : g[n].ht \in Nat /\ (g[n].ht = H) = (n = t.root)
    BY Heights
  <2> HIDE DEF D, H
  <2> QED BY <1>1, <2>1
<1>3. ASSUME NEW d \in 0..steps
      PROVE  h[d] = IF d = 0 THEN {t.root}
                    ELSE UNION {ToSet(t.node[n].pointers) : n \in {m \in h[d - 1] : ~t.node[m].is_leaf}}
  <2>1. h[d] = At(d)
    OBVIOUS
  <2>2. CASE d = 0
    <3> HIDE DEF h, At
    <3> QED BY <1>2, <2>1, <2>2
  <2>3. CASE d # 0
    <3>1. d - 1 \in 0..steps /\ d \in Nat \ {0}
      <4> HIDE DEF steps
      <4> QED BY <1>1, <2>3
    <3>2. h[d - 1] = At(d - 1)
      BY <3>1
    <3>3. UNION {ToSet(t.node[n].pointers) : n \in {m \in At(d - 1) : ~t.node[m].is_leaf}} = At(d)
      BY <3>1, NextLevel
    <3> HIDE DEF h, At
    <3> QED BY <2>1, <2>3, <3>2, <3>3
  <2> QED BY <2>2, <2>3
<1>4. h = [d \in 0..steps |->
             IF d = 0 THEN {t.root}
             ELSE UNION {ToSet(t.node[n].pointers) : n \in {m \in h[d - 1] : ~t.node[m].is_leaf}}]
  <2>1. h = [d \in 0..steps |-> h[d]]
    OBVIOUS
  <2> HIDE DEF h
  <2> QED BY <1>3, <2>1
<1>5. level = [d \in 0..steps |->
                 IF d = 0 THEN {t.root}
                 ELSE UNION {ToSet(t.node[n].pointers) : n \in {m \in level[d - 1] : ~t.node[m].is_leaf}}]
  <2> HIDE DEF h
  <2> QED BY <1>4
<1>6. Levels(t) = level
  BY DEF Levels
<1> HIDE DEF level
<1> DEFINE T == {d \in 0..steps : level[d] = At(d)}
<1>7. 0 \in T
  <2>1. level[0] = {t.root}
    BY <1>1, <1>5
  <2> QED BY <1>1, <1>2, <2>1
<1>8. ASSUME NEW d \in 1..steps, d - 1 \in T PROVE d \in T
  <2>1. d \in 0..steps /\ d # 0 /\ d \in Nat \ {0}
    <3> HIDE DEF steps
    <3> QED BY <1>1
  <2>2. level[d - 1] = At(d - 1)
    BY <1>8
  <2>3. level[d] = UNION {ToSet(t.node[n].pointers) : n \in {m \in level[d - 1] : ~t.node[m].is_leaf}}
    BY <1>5, <2>1
  <2>4. UNION {ToSet(t.node[n].pointers) : n \in {m \in At(d - 1) : ~t.node[m].is_leaf}} = At(d)
    BY <2>1, NextLevel
  <2> HIDE DEF At
  <2> QED BY <2>1, <2>2, <2>3, <2>4
<1>9. 0..steps \subseteq T
  <2> HIDE DEF T, steps
  <2> QED BY <1>1, <1>7, <1>8, UpTo
<1>10. DOMAIN level = 0..steps
  BY <1>5
<1> QED BY <1>6, <1>9, <1>10

\* All the nodes are found from the root.
LEMMA AllBelow ==
  ASSUME NEW t, NEW g, Shape(t, g)
  PROVE  Below(t) = DOMAIN t.node
<1> DEFINE steps == Cardinality(DOMAIN t.node)
           H == g[t.root].ht
<1>1. /\ DOMAIN Levels(t) = 0..steps
      /\ \A d \in 0..steps : Levels(t)[d] = {n \in DOMAIN t.node : g[n].ht + d = H}
  BY LevelsOf
<1>2. steps \in Nat /\ H \in Nat /\ H < steps
  BY HeightBound, Heights DEF Shape, RootOK
<1>3. ASSUME NEW n \in DOMAIN t.node PROVE \E d \in 0..steps : g[n].ht + d = H
  <2>1. g[n].ht \in Nat /\ g[n].ht <= H
    BY Heights
  <2> HIDE DEF H, steps
  <2>2. H - g[n].ht \in 0..steps /\ g[n].ht + (H - g[n].ht) = H
    BY <1>2, <2>1
  <2> QED BY <2>2
<1> HIDE DEF steps, H
<1>4. Below(t) \subseteq DOMAIN t.node
  BY <1>1 DEF Below
<1>5. ASSUME NEW n \in DOMAIN t.node PROVE n \in Below(t)
  <2>1. PICK d \in 0..steps : g[n].ht + d = H
    BY <1>3
  <2>2. n \in Levels(t)[d] /\ d \in DOMAIN Levels(t)
    BY <1>1, <2>1
  <2> QED BY <2>2 DEF Below
<1> QED BY <1>4, <1>5

-----------------------------------------------------------------------------
(* What a step leaves as it was.                                           *)

SameContent(x, y) ==
  x.is_leaf = y.is_leaf /\ x.keys = y.keys /\ x.pointers = y.pointers /\ x.next = y.next

\* A leaf is linked as before.
SameLink(t, g, u, h, n) ==
  t.node[n].next # Null =>
    /\ t.node[n].next \in DOMAIN u.node /\ u.node[t.node[n].next].is_leaf
    /\ h[t.node[n].next].lo = g[t.node[n].next].lo

\* The children of a node hang below it as before.
SameChildren(t, g, u, h, n) ==
  \A i \in 1..Len(t.node[n].pointers) :
    LET c == t.node[n].pointers[i]
    IN  c \in DOMAIN u.node /\ u.node[c].parent = n /\ h[c] = g[c]

LEMMA SameBody ==
  ASSUME NEW t, NEW g, NEW u, NEW h, NEW n, Body(t, g, n), h[n] = g[n], SameContent(u.node[n], t.node[n]),
         t.node[n].is_leaf => SameLink(t, g, u, h, n),
         ~t.node[n].is_leaf => SameChildren(t, g, u, h, n)
  PROVE  Body(u, h, n)
<1>1. CASE t.node[n].is_leaf
  <2>1. g[n].ht = 0 /\ LeafBody(t.node[n], g[n]) /\ Link(t, g, n) /\ g[n].lo < g[n].hi
    BY <1>1 DEF Body
  <2>2. LeafBody(u.node[n], h[n])
    BY <2>1 DEF LeafBody, SameContent
  <2>3. Link(u, h, n)
    BY <1>1, <2>1 DEF Link, SameLink, SameContent
  <2> QED BY <1>1, <2>1, <2>2, <2>3 DEF Body, SameContent
<1>2. CASE ~t.node[n].is_leaf
  <2>1. g[n].ht # 0 /\ Fenced(t.node[n], g[n]) /\ g[n].lo < g[n].hi
        /\ \A i \in 1..Len(t.node[n].pointers) : Hangs(t, g, n, i)
    BY <1>2 DEF Body
  <2>2. \A i : Bound(u.node[n], h[n], i) = Bound(t.node[n], g[n], i)
    BY DEF Bound, SameContent
  <2>3. Fenced(u.node[n], h[n])
    BY <2>1, <2>2 DEF Fenced, SameContent
  <2>4. ASSUME NEW i \in 1..Len(t.node[n].pointers) PROVE Hangs(u, h, n, i)
    BY <1>2, <2>1, <2>2 DEF Hangs, SameChildren, SameContent
  <2> QED BY <1>2, <2>1, <2>3, <2>4 DEF Body, SameContent
<1> QED BY <1>1, <1>2

\* A leaf's link, and an inner node's children, in a tree.
LEMMA LinkOf ==
  ASSUME NEW t, NEW g, Shape(t, g), NEW n \in DOMAIN t.node, t.node[n].is_leaf, t.node[n].next # Null
  PROVE  t.node[n].next \in DOMAIN t.node /\ t.node[t.node[n].next].is_leaf
         /\ g[t.node[n].next].lo = g[n].hi
BY DEF Shape, Body, Link

\* The node a leaf is linked to is linked to by no other.
LEMMA OneLink ==
  ASSUME NEW t, NEW g, Shape(t, g), NEW m \in DOMAIN t.node, NEW n \in DOMAIN t.node,
         t.node[m].is_leaf, t.node[n].is_leaf, g[m].hi = g[n].hi
  PROVE  m = n
<1>1. /\ g[m].lo \in Int /\ g[m].hi \in Int /\ g[n].lo \in Int /\ g[n].hi \in Int
      /\ g[m].lo < g[m].hi /\ g[n].lo < g[n].hi /\ g[m].ht = g[n].ht
  BY PlaceFields DEF Shape, Body
<1> DEFINE k == g[m].hi - 1
<1>2. k \in Int /\ g[m].lo <= k /\ k < g[m].hi /\ g[n].lo <= k /\ k < g[n].hi
  BY <1>1
<1> HIDE DEF k
<1> QED BY <1>1, <1>2, SamePlace

-----------------------------------------------------------------------------
(* Adding a key to a leaf, and taking one away.                            *)

\* Another content of a leaf within its range.
LEMMA LeafWritten ==
  ASSUME NEW t, NEW g, Shape(t, g), NEW n \in DOMAIN t.node, t.node[n].is_leaf, NEW x \in NodeType,
         x.is_leaf, x.parent = t.node[n].parent, x.next = t.node[n].next, LeafBody(x, g[n])
  PROVE  /\ Shape(With(t, n, x), g) /\ Wrote(With(t, n, x), t, n, x)
         /\ DOMAIN With(t, n, x).node = DOMAIN t.node
<1> DEFINE u == With(t, n, x)
<1>1. Heap(t) /\ g \in [DOMAIN t.node -> PlaceType] /\ n \in Nat \ {Null}
  BY NodeFields DEF Shape, Placed
<1>2. Wrote(u, t, n, x)
  BY <1>1, WithOne
<1> HIDE DEF u
<1>3. /\ Heap(u) /\ u.root = t.root /\ DOMAIN u.node = DOMAIN t.node /\ u.node[n] = x
      /\ \A m \in DOMAIN t.node : m # n => u.node[m] = t.node[m]
  BY <1>2 DEF Wrote
<1>4. \A m \in DOMAIN t.node : u.node[m].is_leaf = t.node[m].is_leaf /\ u.node[m].parent = t.node[m].parent
                               /\ u.node[m].next = t.node[m].next
                               /\ (~t.node[m].is_leaf => u.node[m] = t.node[m])
  <2>1. x.is_leaf = t.node[n].is_leaf
    <3>1. x.is_leaf \in BOOLEAN /\ t.node[n].is_leaf \in BOOLEAN
      BY <1>1, NodeFields DEF NodeType
    <3> QED BY <3>1
  <2> QED BY <1>3, <2>1
<1>5. RootOK(u, g)
  BY <1>3, <1>4 DEF Shape, RootOK
<1>6. ASSUME NEW m \in DOMAIN t.node PROVE Body(u, g, m)
  <2>1. Body(t, g, m)
    BY DEF Shape
  <2>2. CASE m = n
    <3>1. g[n].ht = 0 /\ Link(t, g, n) /\ g[n].lo < g[n].hi
      BY <2>1, <2>2 DEF Body
    <3>2. Link(u, g, n)
      BY <1>3, <1>4, <3>1 DEF Link
    <3> QED BY <1>3, <2>2, <3>1, <3>2 DEF Body
  <2>3. CASE m # n
    <3>1. SameContent(u.node[m], t.node[m])
      BY <1>3, <2>3 DEF SameContent
    <3>2. t.node[m].is_leaf => SameLink(t, g, u, g, m)
      BY <1>3, <1>4, LinkOf DEF SameLink
    <3>3. ~t.node[m].is_leaf => SameChildren(t, g, u, g, m)
      <4>1. SUFFICES ASSUME ~t.node[m].is_leaf, NEW i \in 1..Len(t.node[m].pointers)
                     PROVE  t.node[m].pointers[i] \in DOMAIN u.node /\ u.node[t.node[m].pointers[i]].parent = m
        BY DEF SameChildren
      <4>2. t.node[m].pointers[i] \in DOMAIN t.node /\ t.node[t.node[m].pointers[i]].parent = m
        BY <4>1, Children
      <4> QED BY <1>3, <1>4, <4>2
    <3> QED BY <2>1, <3>1, <3>2, <3>3, SameBody
  <2> QED BY <2>2, <2>3
<1>7. ASSUME NEW m \in DOMAIN t.node, m # t.root PROVE Under(u, g, m)
  <2>1. IsChild(t, m) /\ g[m].ht < g[t.root].ht
    BY <1>7 DEF Shape, Under
  <2> QED BY <1>3, <1>4, <2>1 DEF IsChild, Under
<1>8. Placed(u, g)
  BY <1>1, <1>3 DEF Placed
<1>9. Shape(u, g)
  BY <1>3, <1>5, <1>6, <1>7, <1>8 DEF Shape
<1> QED BY <1>2, <1>3, <1>9 DEF u

\* A key is put where it belongs.
LEMMA KeyAdded ==
  ASSUME NEW n \in NodeType, NEW x \in PlaceType, LeafBody(n, x), NEW k \in Int, x.lo <= k, k < x.hi, ~HasKey(n, k)
  PROVE  LET i == First({j \in DOMAIN n.keys : n.keys[j] >= k}, n.keys)
             r == [n EXCEPT !.keys = InsertAt(@, i, k), !.pointers = InsertAt(@, i, k)]
         IN  /\ r \in NodeType /\ r.is_leaf = n.is_leaf /\ r.parent = n.parent /\ r.next = n.next
             /\ LeafBody(r, x) /\ Len(r.keys) = Len(n.keys) + 1
             /\ \A v : HasKey(r, v) <=> (v = k \/ HasKey(n, v))
<1> DEFINE s == n.keys
           P == {j \in DOMAIN s : s[j] >= k}
           i == First(P, s)
           l == Len(s)
           a == InsertAt(n.keys, i, k)
           b == InsertAt(n.pointers, i, k)
           r == [n EXCEPT !.keys = a, !.pointers = b]
<1>1. s \in Seq(Int) /\ n.pointers \in Seq(Int) /\ l \in Nat /\ DOMAIN s = 1..l /\ Len(n.pointers) = l
      /\ x.lo \in Int /\ x.hi \in Int
  BY DEF NodeType, PlaceType, LeafBody
<1>2. /\ \A j \in 1..l : s[j] \in Int /\ n.pointers[j] = s[j] /\ x.lo <= s[j] /\ s[j] < x.hi /\ s[j] # k
      /\ \A p, q \in 1..l : p < q => s[p] < s[q]
  <2>1. \A j \in 1..l : n.pointers[j] = s[j] /\ x.lo <= s[j] /\ s[j] < x.hi
    BY DEF LeafBody
  <2>2. \A p, q \in 1..l : p < q => s[p] < s[q]
    BY DEF LeafBody
  <2>3. \A j \in 1..l : s[j] \in Int
    BY <1>1
  <2>4. \A j \in 1..l : s[j] # k
    BY DEF HasKey
  <2> QED BY <2>1, <2>2, <2>3, <2>4
<1>3. i \in P \cup {l + 1} /\ \A j \in P : i <= j
  <2>1. P \in SUBSET (1..Len(s))
    BY <1>1
  <2> HIDE DEF P, s
  <2> QED BY <1>1, <2>1, FirstIsLeast
<1>4. i \in 1..(l + 1)
  <2>1. i \in 1..l \/ i = l + 1
    BY <1>1, <1>3
  <2> HIDE DEF i, l
  <2> QED BY <1>1, <2>1
<1>5. \A j \in 1..l : j < i => s[j] < k
  <2>1. SUFFICES ASSUME NEW j \in 1..l, j < i PROVE s[j] < k
    OBVIOUS
  <2>2. j \notin P
    <3>1. ~(i <= j)
      <4> HIDE DEF i, l
      <4> QED BY <1>1, <1>4, <2>1
    <3> HIDE DEF P, i
    <3> QED BY <1>3, <3>1
  <2>3. ~(s[j] >= k) /\ s[j] \in Int
    BY <1>1, <1>2, <2>2
  <2> HIDE DEF s
  <2> QED BY <2>3
<1>6. \A j \in 1..l : i <= j => k < s[j]
  <2>1. SUFFICES ASSUME NEW j \in 1..l, i <= j PROVE k < s[j]
    OBVIOUS
  <2>2. i # l + 1 /\ i \in 1..l
    <3> HIDE DEF i, l
    <3> QED BY <1>1, <1>4, <2>1
  <2>3. i \in P
    <3> HIDE DEF i, P
    <3> QED BY <1>3, <2>2
  <2>4. s[i] >= k
    BY <2>3
  <2> HIDE DEF i, s, l
  <2>5. i = j \/ i < j
    BY <1>1, <1>4, <2>1
  <2> QED BY <1>2, <2>2, <2>4, <2>5
<1> HIDE DEF i, P
<1>7. /\ a \in Seq(Int) /\ Len(a) = l + 1
      /\ \A j \in 1..(l + 1) : a[j] = IF j < i THEN s[j] ELSE IF j = i THEN k ELSE s[j - 1]
  <2>1. n.keys \in Seq(Int) /\ i \in 1..(Len(n.keys) + 1) /\ Len(n.keys) = l
    BY <1>1, <1>4
  <2>2. Inserted(a, n.keys, i, k)
    BY <2>1, InsertedAt
  <2> HIDE DEF l, a
  <2> QED BY <2>1, <2>2 DEF Inserted
<1>8. /\ b \in Seq(Int) /\ Len(b) = l + 1
      /\ \A j \in 1..(l + 1) : b[j] = IF j < i THEN n.pointers[j] ELSE IF j = i THEN k ELSE n.pointers[j - 1]
  <2>1. n.pointers \in Seq(Int) /\ i \in 1..(Len(n.pointers) + 1) /\ Len(n.pointers) = l
    BY <1>1, <1>4
  <2>2. Inserted(b, n.pointers, i, k)
    BY <2>1, InsertedAt
  <2> HIDE DEF l, b
  <2> QED BY <2>1, <2>2 DEF Inserted
<1> HIDE DEF a, b
<1>9. r \in NodeType /\ r.keys = a /\ r.pointers = b /\ r.is_leaf = n.is_leaf /\ r.parent = n.parent /\ r.next = n.next
  BY <1>7, <1>8 DEF NodeType
<1> HIDE DEF l, s
<1>10. ASSUME NEW j \in 1..(l + 1)
       PROVE  /\ b[j] = a[j] /\ x.lo <= a[j] /\ a[j] < x.hi
              /\ a[j] = k \/ (\E p \in 1..l : s[p] = a[j])
  <2>1. CASE j < i
    <3>1. j \in 1..l
      BY <1>1, <1>4, <2>1
    <3> QED BY <1>2, <1>7, <1>8, <2>1, <3>1
  <2>2. CASE j = i
    BY <1>7, <1>8, <2>2
  <2>3. CASE i < j
    <3>1. j - 1 \in 1..l /\ ~(j < i) /\ j # i
      BY <1>1, <1>4, <2>3
    <3> QED BY <1>2, <1>7, <1>8, <3>1
  <2> QED BY <1>1, <1>4, <2>1, <2>2, <2>3
<1>11. ASSUME NEW p \in 1..(l + 1), NEW q \in 1..(l + 1), p < q PROVE a[p] < a[q]
  <2>1. CASE q < i
    <3>1. p \in 1..l /\ q \in 1..l /\ p < i
      BY <1>1, <1>4, <1>11, <2>1
    <3> QED BY <1>2, <1>7, <1>11, <2>1, <3>1
  <2>2. CASE q = i
    <3>1. p \in 1..l /\ p < i
      BY <1>1, <1>4, <1>11, <2>2
    <3>2. a[p] = s[p] /\ a[q] = k
      BY <1>7, <2>2, <3>1
    <3> QED BY <1>5, <3>1, <3>2
  <2>3. CASE i < q
    <3>1. q - 1 \in 1..l /\ i <= q - 1 /\ ~(q < i) /\ q # i
      BY <1>1, <1>4, <2>3
    <3>2. a[q] = s[q - 1] /\ k < s[q - 1]
      BY <1>6, <1>7, <3>1
    <3>3. CASE p < i
      <4>1. p \in 1..l /\ p < q - 1
        BY <1>1, <1>4, <3>1, <3>3
      <4> QED BY <1>2, <1>7, <3>1, <3>2, <3>3, <4>1
    <3>4. CASE p = i
      BY <1>7, <3>2, <3>4
    <3>5. CASE i < p
      <4>1. p - 1 \in 1..l /\ p - 1 < q - 1 /\ ~(p < i) /\ p # i
        BY <1>1, <1>4, <1>11, <3>5
      <4> QED BY <1>2, <1>7, <3>1, <3>2, <4>1
    <3> QED BY <1>4, <3>3, <3>4, <3>5
  <2> QED BY <1>4, <2>1, <2>2, <2>3
<1>12. LeafBody(r, x)
  <2> HIDE DEF r
  <2> QED BY <1>7, <1>8, <1>9, <1>10, <1>11 DEF LeafBody
<1>13. ASSUME NEW v PROVE HasKey(r, v) <=> (v = k \/ HasKey(n, v))
  <2>1. HasKey(r, v) <=> \E j \in 1..(l + 1) : a[j] = v
    <3> HIDE DEF r
    <3> QED BY <1>7, <1>9 DEF HasKey
  <2>2. HasKey(n, v) <=> \E j \in 1..l : s[j] = v
    BY DEF HasKey, l, s
  <2>3. a[i] = k
    BY <1>4, <1>7
  <2>4. ASSUME NEW j \in 1..l PROVE \E p \in 1..(l + 1) : a[p] = s[j]
    <3>1. CASE j < i
      <4>1. j \in 1..(l + 1)
        BY <1>1
      <4> QED BY <1>7, <3>1, <4>1
    <3>2. CASE ~(j < i)
      <4>1. j + 1 \in 1..(l + 1) /\ ~(j + 1 < i) /\ j + 1 # i /\ (j + 1) - 1 = j
        BY <1>1, <1>4, <3>2
      <4>2. a[j + 1] = s[j]
        BY <1>7, <4>1
      <4> QED BY <4>1, <4>2
    <3> QED BY <3>1, <3>2
  <2> QED BY <1>4, <1>10, <2>1, <2>2, <2>3, <2>4
<1>14. Len(r.keys) = Len(n.keys) + 1
  BY <1>7, <1>9 DEF l, s
<1> HIDE DEF r
<1>15. r \in NodeType /\ r.is_leaf = n.is_leaf /\ r.parent = n.parent /\ r.next = n.next
       /\ LeafBody(r, x) /\ Len(r.keys) = Len(n.keys) + 1
       /\ \A v : HasKey(r, v) <=> (v = k \/ HasKey(n, v))
  BY <1>9, <1>12, <1>13, <1>14
<1> QED BY <1>15 DEF r, a, b, i, P, s

\* A key and its record are taken out.
LEMMA KeyRemoved ==
  ASSUME NEW n \in NodeType, NEW x \in PlaceType, LeafBody(n, x), NEW k, HasKey(n, k)
  PROVE  LET r == [n EXCEPT !.keys = RemoveAt(@, Position(@, k)), !.pointers = RemoveAt(@, Position(@, k))]
         IN  /\ r \in NodeType /\ r.is_leaf = n.is_leaf /\ r.parent = n.parent /\ r.next = n.next
             /\ LeafBody(r, x) /\ Len(r.keys) = Len(n.keys) - 1
             /\ \A v : HasKey(r, v) <=> (v # k /\ HasKey(n, v))
<1> DEFINE s == n.keys
           l == Len(s)
           a == RemoveAt(s, Position(s, k))
           b == RemoveAt(n.pointers, Position(n.pointers, k))
           r == [n EXCEPT !.keys = a, !.pointers = b]
<1>1. s \in Seq(Int) /\ n.pointers \in Seq(Int) /\ l \in Nat /\ Len(n.pointers) = l
  BY DEF NodeType, LeafBody
<1>2. /\ \A j \in 1..l : s[j] \in Int /\ n.pointers[j] = s[j] /\ x.lo <= s[j] /\ s[j] < x.hi
      /\ \A p, q \in 1..l : p < q => s[p] < s[q]
  BY <1>1 DEF LeafBody
<1>3. PICK i \in 1..l : s[i] = k
  BY DEF HasKey
<1>4. Position(s, k) = i /\ Position(n.pointers, k) = i
  BY <1>3, PlaceOfKey
<1>5. Removed(a, s, i)
  BY <1>1, <1>3, <1>4, RemovedAt
<1>6. Removed(b, n.pointers, i)
  BY <1>1, <1>3, <1>4, RemovedAt
<1> HIDE DEF a, b
<1>7. /\ a \in Seq(Int) /\ Len(a) = l - 1
      /\ \A j \in 1..(l - 1) : a[j] = IF j < i THEN s[j] ELSE s[j + 1]
  BY <1>5 DEF Removed
<1>8. /\ b \in Seq(Int) /\ Len(b) = l - 1
      /\ \A j \in 1..(l - 1) : b[j] = IF j < i THEN n.pointers[j] ELSE n.pointers[j + 1]
  BY <1>1, <1>6 DEF Removed
<1>9. r \in NodeType /\ r.keys = a /\ r.pointers = b /\ r.is_leaf = n.is_leaf /\ r.parent = n.parent /\ r.next = n.next
  BY <1>7, <1>8 DEF NodeType
<1> DEFINE from(j) == IF j < i THEN j ELSE j + 1
<1> HIDE DEF l, s
<1>10. \A j \in 1..(l - 1) : from(j) \in 1..l /\ from(j) # i /\ a[j] = s[from(j)] /\ b[j] = n.pointers[from(j)]
  <2>1. SUFFICES ASSUME NEW j \in 1..(l - 1)
                 PROVE  from(j) \in 1..l /\ from(j) # i /\ a[j] = s[from(j)] /\ b[j] = n.pointers[from(j)]
    OBVIOUS
  <2>2. l \in Nat /\ j \in Nat /\ i \in Nat
    BY <1>1
  <2>3. CASE j < i
    <3>1. from(j) = j /\ j \in 1..l /\ j # i
      BY <2>2, <2>3
    <3> HIDE DEF from
    <3> QED BY <1>7, <1>8, <2>3, <3>1
  <2>4. CASE ~(j < i)
    <3>1. from(j) = j + 1 /\ j + 1 \in 1..l /\ j + 1 # i
      BY <2>2, <2>4
    <3> HIDE DEF from
    <3> QED BY <1>7, <1>8, <2>4, <3>1
  <2> QED BY <2>3, <2>4
<1>11. \A p, q \in 1..(l - 1) : p < q => from(p) < from(q)
  OBVIOUS
<1>12. \A j \in 1..l : j # i => \E p \in 1..(l - 1) : from(p) = j
  <2>1. SUFFICES ASSUME NEW j \in 1..l, j # i PROVE \E p \in 1..(l - 1) : from(p) = j
    OBVIOUS
  <2>2. CASE j < i
    <3>1. j \in 1..(l - 1) /\ from(j) = j
      BY <1>1, <1>3, <2>2
    <3> HIDE DEF from
    <3> QED BY <3>1
  <2>3. CASE i < j
    <3>1. j - 1 \in 1..(l - 1) /\ ~(j - 1 < i) /\ from(j - 1) = j
      BY <1>1, <1>3, <2>3
    <3> HIDE DEF from
    <3> QED BY <3>1
  <2> QED BY <1>3, <2>1, <2>2, <2>3
<1> HIDE DEF from
<1>13. LeafBody(r, x)
  <2>1. \A j \in 1..(l - 1) : b[j] = a[j] /\ x.lo <= a[j] /\ a[j] < x.hi
    BY <1>2, <1>10
  <2>2. ASSUME NEW p \in 1..(l - 1), NEW q \in 1..(l - 1), p < q PROVE a[p] < a[q]
    BY <1>2, <1>10, <1>11, <2>2
  <2> HIDE DEF r
  <2> QED BY <1>7, <1>8, <1>9, <2>1, <2>2 DEF LeafBody
<1>14. ASSUME NEW v PROVE HasKey(r, v) <=> (v # k /\ HasKey(n, v))
  <2>1. HasKey(r, v) <=> \E j \in 1..(l - 1) : a[j] = v
    <3> HIDE DEF r
    <3> QED BY <1>7, <1>9 DEF HasKey
  <2>2. HasKey(n, v) <=> \E j \in 1..l : s[j] = v
    BY DEF HasKey, l, s
  <2>3. \A j \in 1..l : s[j] = k <=> j = i
    <3>1. SUFFICES ASSUME NEW j \in 1..l, j # i PROVE s[j] # k
      BY <1>3
    <3>2. j < i \/ i < j
      BY <1>1, <1>3, <3>1
    <3>3. s[j] < s[i] \/ s[i] < s[j]
      BY <1>2, <1>3, <3>2
    <3> QED BY <1>2, <1>3, <3>3
  <2> QED BY <1>10, <1>12, <2>1, <2>2, <2>3
<1>15. Len(r.keys) = Len(n.keys) - 1
  BY <1>7, <1>9 DEF l, s
<1> HIDE DEF r
<1>16. r \in NodeType /\ r.is_leaf = n.is_leaf /\ r.parent = n.parent /\ r.next = n.next
       /\ LeafBody(r, x) /\ Len(r.keys) = Len(n.keys) - 1
       /\ \A v : HasKey(r, v) <=> (v # k /\ HasKey(n, v))
  BY <1>9, <1>13, <1>14, <1>15
<1> QED BY <1>16 DEF r, a, b, s

-----------------------------------------------------------------------------
(* Insert and Delete at a leaf.                                            *)

IsTree(t) == \E g : Shape(t, g)

\* One leaf of t is rewritten with the keys for which In holds of the keys it had.
LEMMA InsertedIntoLeaf ==
  ASSUME NEW t, IsTree(t), NEW k \in Key, Find_Record(t, k) = NoRecord
  PROVE  LET n == Find_Leaf(t, k)
             u == insert_into_leaf(t, n, k, k)
         IN  /\ IsTree(u) /\ u.root = t.root /\ DOMAIN u.node = DOMAIN t.node /\ n \in DOMAIN t.node
             /\ \A m \in DOMAIN t.node : m # n => u.node[m] = t.node[m]
             /\ u.node[n].is_leaf = t.node[n].is_leaf
             /\ Len(u.node[n].keys) = Len(t.node[n].keys) + 1
             /\ KeysOf(u) = KeysOf(t) \cup {k}
<1> PICK g : Shape(t, g)
  BY DEF IsTree
<1> DEFINE n == Find_Leaf(t, k)
           i == First({j \in DOMAIN t.node[n].keys : t.node[n].keys[j] >= k}, t.node[n].keys)
           x == [t.node[n] EXCEPT !.keys = InsertAt(@, i, k), !.pointers = InsertAt(@, i, k)]
           u == insert_into_leaf(t, n, k, k)
<1>1. u = With(t, n, x)
  BY DEF insert_into_leaf
<1>2. n \in DOMAIN t.node /\ t.node[n].is_leaf /\ g[n].lo <= k /\ k < g[n].hi
  BY LeafFound
<1>3. k \in Int /\ k # NoRecord
  BY BptAssumption DEF Key, NoRecord
<1>4. k \notin KeysOf(t)
  BY <1>3, RecordFound
<1>5. Heap(t)
  BY DEF Shape, Placed
<1>6. ~HasKey(t.node[n], k)
  <2> HIDE DEF n
  <2> QED BY <1>2, <1>4, <1>5, KeyHeld DEF Holds
<1> HIDE DEF n
<1>7. t.node[n] \in NodeType /\ g[n] \in PlaceType /\ LeafBody(t.node[n], g[n])
  BY <1>2, <1>5, NodeFields, PlaceFields DEF Shape, Body
<1>8. /\ x \in NodeType /\ x.is_leaf = t.node[n].is_leaf /\ x.parent = t.node[n].parent /\ x.next = t.node[n].next
      /\ LeafBody(x, g[n]) /\ Len(x.keys) = Len(t.node[n].keys) + 1
      /\ \A v : HasKey(x, v) <=> (v = k \/ HasKey(t.node[n], v))
  BY <1>2, <1>3, <1>6, <1>7, KeyAdded
<1> HIDE DEF x, u
<1>9. Shape(u, g) /\ Wrote(u, t, n, x) /\ DOMAIN u.node = DOMAIN t.node
  <2>1. x \in NodeType /\ x.is_leaf /\ x.parent = t.node[n].parent /\ x.next = t.node[n].next /\ LeafBody(x, g[n])
    BY <1>2, <1>8, Zenon
  <2>2. Shape(With(t, n, x), g) /\ Wrote(With(t, n, x), t, n, x) /\ DOMAIN With(t, n, x).node = DOMAIN t.node
    BY <1>2, <2>1, LeafWritten
  <2> QED BY <1>1, <2>2
<1>10. /\ u.root = t.root /\ u.node[n] = x /\ Heap(u)
       /\ \A m \in DOMAIN t.node : m # n => u.node[m] = t.node[m]
  BY <1>9 DEF Wrote
<1>11. \A v : (\E m \in DOMAIN u.node : Holds(u, m, v)) <=> (v = k \/ \E m \in DOMAIN t.node : Holds(t, m, v))
  <2>1. \A m \in DOMAIN t.node : \A v : Holds(u, m, v) <=> ((m = n /\ v = k) \/ Holds(t, m, v))
    BY <1>2, <1>8, <1>10 DEF Holds
  <2> QED BY <1>2, <1>9, <2>1
<1>12. KeysOf(u) = KeysOf(t) \cup {k}
  <2>1. \A v : v \in KeysOf(u) <=> (\E m \in DOMAIN u.node : Holds(u, m, v))
    BY <1>10, KeyHeld
  <2>2. \A v : v \in KeysOf(t) <=> (\E m \in DOMAIN t.node : Holds(t, m, v))
    BY <1>5, KeyHeld
  <2> QED BY <1>11, <2>1, <2>2
<1> QED BY <1>2, <1>8, <1>9, <1>10, <1>12 DEF IsTree, n, u

LEMMA RemovedFromLeaf ==
  ASSUME NEW t, IsTree(t), NEW k \in Key, Find_Record(t, k) # NoRecord
  PROVE  LET n == Find_Leaf(t, k)
             u == remove_entry_from_node(t, n, k, Find_Record(t, k))
         IN  /\ IsTree(u) /\ u.root = t.root /\ DOMAIN u.node = DOMAIN t.node /\ n \in DOMAIN t.node
             /\ \A m \in DOMAIN t.node : m # n => u.node[m] = t.node[m]
             /\ u.node[n].is_leaf /\ t.node[n].is_leaf
             /\ Len(u.node[n].keys) = Len(t.node[n].keys) - 1
             /\ KeysOf(u) = KeysOf(t) \ {k}
<1> PICK g : Shape(t, g)
  BY DEF IsTree
<1> DEFINE n == Find_Leaf(t, k)
           x == [t.node[n] EXCEPT !.keys = RemoveAt(@, Position(@, k)), !.pointers = RemoveAt(@, Position(@, k))]
           u == remove_entry_from_node(t, n, k, Find_Record(t, k))
<1>1. Find_Record(t, k) = k /\ k \in KeysOf(t) /\ Holds(t, n, k)
  BY RecordFound
<1>2. u = With(t, n, x)
  BY <1>1 DEF remove_entry_from_node
<1>3. n \in DOMAIN t.node /\ t.node[n].is_leaf
  BY LeafFound
<1>4. Heap(t)
  BY DEF Shape, Placed
<1>5. HasKey(t.node[n], k)
  BY <1>1 DEF Holds
<1>6. \A m \in DOMAIN t.node : Holds(t, m, k) => m = n
  BY HolderFound
<1> HIDE DEF n
<1>7. t.node[n] \in NodeType /\ g[n] \in PlaceType /\ LeafBody(t.node[n], g[n])
  BY <1>3, <1>4, NodeFields, PlaceFields DEF Shape, Body
<1>8. /\ x \in NodeType /\ x.is_leaf = t.node[n].is_leaf /\ x.parent = t.node[n].parent /\ x.next = t.node[n].next
      /\ LeafBody(x, g[n]) /\ Len(x.keys) = Len(t.node[n].keys) - 1
      /\ \A v : HasKey(x, v) <=> (v # k /\ HasKey(t.node[n], v))
  BY <1>5, <1>7, KeyRemoved
<1> HIDE DEF x, u
<1>9. Shape(u, g) /\ Wrote(u, t, n, x) /\ DOMAIN u.node = DOMAIN t.node
  <2>1. x \in NodeType /\ x.is_leaf /\ x.parent = t.node[n].parent /\ x.next = t.node[n].next /\ LeafBody(x, g[n])
    BY <1>3, <1>8, Zenon
  <2>2. Shape(With(t, n, x), g) /\ Wrote(With(t, n, x), t, n, x) /\ DOMAIN With(t, n, x).node = DOMAIN t.node
    BY <1>3, <2>1, LeafWritten
  <2> QED BY <1>2, <2>2
<1>10. /\ u.root = t.root /\ u.node[n] = x /\ Heap(u)
       /\ \A m \in DOMAIN t.node : m # n => u.node[m] = t.node[m]
  BY <1>9 DEF Wrote
<1>11. \A v : (\E m \in DOMAIN u.node : Holds(u, m, v)) <=> (v # k /\ \E m \in DOMAIN t.node : Holds(t, m, v))
  <2>1. \A m \in DOMAIN t.node : \A v : Holds(u, m, v) <=> (v # k /\ Holds(t, m, v))
    BY <1>6, <1>8, <1>10 DEF Holds
  <2> QED BY <1>9, <2>1
<1>12. KeysOf(u) = KeysOf(t) \ {k}
  <2>1. \A v : v \in KeysOf(u) <=> (\E m \in DOMAIN u.node : Holds(u, m, v))
    BY <1>10, KeyHeld
  <2>2. \A v : v \in KeysOf(t) <=> (\E m \in DOMAIN t.node : Holds(t, m, v))
    BY <1>4, KeyHeld
  <2> QED BY <1>11, <2>1, <2>2
<1> QED BY <1>3, <1>8, <1>9, <1>10, <1>12 DEF IsTree, n, u

-----------------------------------------------------------------------------
(* A node that was split: its upper half, right, is to be hung next to it. *)

\* The range of n ends at k.
Until(g, n, k) == [m \in DOMAIN g |-> IF m = n THEN [ht |-> g[m].ht, lo |-> g[m].lo, hi |-> k] ELSE g[m]]

Halved(t, g, left, right, k) ==
  /\ Placed(t, g) /\ RootOK(t, g)
  /\ left \in DOMAIN t.node /\ right \in DOMAIN t.node /\ left # right /\ right # t.root
  /\ k \in Int /\ g[left].lo < k /\ k < g[left].hi
  /\ g[right].ht = g[left].ht /\ g[right].lo = k /\ g[right].hi = g[left].hi
  /\ t.node[right].parent = t.node[left].parent
  /\ \A n \in DOMAIN t.node : IF n \in {left, right} THEN Body(t, Until(g, left, k), n) ELSE Body(t, g, n)
  /\ \A n \in DOMAIN t.node : n # t.root /\ n # right => Under(t, g, n)

LEMMA UntilPlaced ==
  ASSUME NEW t, NEW g, Placed(t, g), NEW a, NEW k \in Int
  PROVE  /\ Placed(t, Until(g, a, k))
         /\ \A n \in DOMAIN t.node :
              /\ n # a => Until(g, a, k)[n] = g[n]
              /\ n = a => Until(g, a, k)[n].hi = k
              /\ Until(g, a, k)[n].ht = g[n].ht /\ Until(g, a, k)[n].lo = g[n].lo
<1> DEFINE f == Until(g, a, k)
<1>1. /\ DOMAIN g = DOMAIN t.node /\ DOMAIN f = DOMAIN t.node
      /\ f = [n \in DOMAIN t.node |-> f[n]]
      /\ \A n \in DOMAIN t.node : f[n] = IF n = a THEN [ht |-> g[n].ht, lo |-> g[n].lo, hi |-> k] ELSE g[n]
  BY DEF Placed, Until
<1> HIDE DEF f
<1>2. \A n \in DOMAIN t.node : g[n] \in PlaceType /\ g[n].ht \in Nat /\ g[n].lo \in Int
  BY PlaceFields
<1>3. \A n \in DOMAIN t.node : f[n] \in PlaceType
  <2>1. SUFFICES ASSUME NEW n \in DOMAIN t.node PROVE f[n] \in PlaceType
    OBVIOUS
  <2>2. g[n] \in PlaceType /\ g[n].ht \in Nat /\ g[n].lo \in Int
    BY <1>2
  <2>3. [ht |-> g[n].ht, lo |-> g[n].lo, hi |-> k] \in PlaceType
    BY <2>2 DEF PlaceType
  <2> QED BY <1>1, <2>2, <2>3
<1>4. f \in [DOMAIN t.node -> PlaceType]
  BY <1>1, <1>3
<1>5. \A n \in DOMAIN t.node : f[n].ht = g[n].ht /\ f[n].lo = g[n].lo /\ (n # a => f[n] = g[n]) /\ (n = a => f[n].hi = k)
  <2>1. SUFFICES ASSUME NEW n \in DOMAIN t.node
                 PROVE  f[n].ht = g[n].ht /\ f[n].lo = g[n].lo /\ (n # a => f[n] = g[n]) /\ (n = a => f[n].hi = k)
    OBVIOUS
  <2>2. CASE n = a
    <3>1. f[n] = [ht |-> g[n].ht, lo |-> g[n].lo, hi |-> k]
      BY <1>1, <2>2
    <3> QED BY <2>2, <3>1
  <2>3. CASE n # a
    <3>1. f[n] = g[n]
      BY <1>1, <2>3
    <3> QED BY <2>3, <3>1
  <2> QED BY <2>2, <2>3
<1> QED BY <1>4, <1>5 DEF Placed, f

\* The children of a node are distinct.
LEMMA DistinctChildren ==
  ASSUME NEW t, NEW g, Placed(t, g), NEW n \in DOMAIN t.node, ~t.node[n].is_leaf, Body(t, g, n),
         NEW i \in 1..Len(t.node[n].pointers), NEW j \in 1..Len(t.node[n].pointers),
         t.node[n].pointers[i] = t.node[n].pointers[j]
  PROVE  i = j
<1> DEFINE l == Len(t.node[n].keys) + 1
           b(x) == Bound(t.node[n], g[n], x)
<1>1. Fenced(t.node[n], g[n]) /\ Hangs(t, g, n, i) /\ Hangs(t, g, n, j)
  BY DEF Body
<1>2. b(i - 1) = b(j - 1)
  BY <1>1 DEF Hangs
<1>3. t.node[n] \in NodeType /\ g[n] \in PlaceType /\ l \in Nat
  BY NodeFields, PlaceFields DEF Placed
<1>4. Len(t.node[n].pointers) = l
  BY <1>1 DEF Fenced
<1>5. i - 1 \in 0..l /\ j - 1 \in 0..l
  BY <1>3, <1>4
<1>6. b(i - 1) \in Int /\ b(j - 1) \in Int
  BY <1>1, <1>3, <1>5, BoundRange
<1>7. \A x, y \in 0..l : x < y => b(x) < b(y)
  BY <1>1 DEF Fenced
<1> HIDE DEF b, l
<1>8. ~(i - 1 < j - 1) /\ ~(j - 1 < i - 1)
  BY <1>2, <1>5, <1>6, <1>7
<1> QED BY <1>8

\* A key and a child put after another one split the range of that one.
FenceIn(r, n, x, i, k, c) ==
  /\ r \in NodeType /\ r.is_leaf = n.is_leaf /\ r.parent = n.parent /\ r.next = n.next
  /\ Fenced(r, x) /\ Len(r.keys) = Len(n.keys) + 1
  /\ \A j \in 0..(Len(n.keys) + 2) :
       Bound(r, x, j) = IF j < i THEN Bound(n, x, j) ELSE IF j = i THEN k ELSE Bound(n, x, j - 1)
  /\ \A j \in 1..(Len(n.keys) + 2) :
       r.pointers[j] = IF j <= i THEN n.pointers[j] ELSE IF j = i + 1 THEN c ELSE n.pointers[j - 1]

LEMMA FenceAdded ==
  ASSUME NEW n \in NodeType, NEW x \in PlaceType, Fenced(n, x), NEW i \in 1..(Len(n.keys) + 1),
         NEW k \in Int, Bound(n, x, i - 1) < k, k < Bound(n, x, i), NEW c \in Int
  PROVE  FenceIn([n EXCEPT !.keys = InsertAt(@, i, k), !.pointers = InsertAt(@, i + 1, c)], n, x, i, k, c)
<1> DEFINE s == n.keys
           l == Len(s)
           a == InsertAt(s, i, k)
           b == InsertAt(n.pointers, i + 1, c)
           r == [n EXCEPT !.keys = a, !.pointers = b]
<1>1. s \in Seq(Int) /\ n.pointers \in Seq(Int) /\ l \in Nat /\ Len(n.pointers) = l + 1
      /\ x.lo \in Int /\ x.hi \in Int
  BY DEF NodeType, PlaceType, Fenced
<1>2. Inserted(a, s, i, k)
  BY InsertedAt, <1>1
<1>3. Inserted(b, n.pointers, i + 1, c)
  <2>1. i + 1 \in 1..(Len(n.pointers) + 1)
    BY <1>1
  <2> QED BY <1>1, <2>1, InsertedAt
<1> HIDE DEF a, b
<1>4. /\ a \in Seq(Int) /\ Len(a) = l + 1
      /\ \A j \in 1..(l + 1) : a[j] = IF j < i THEN s[j] ELSE IF j = i THEN k ELSE s[j - 1]
  BY <1>2 DEF Inserted
<1>5. /\ b \in Seq(Int) /\ Len(b) = l + 2
      /\ \A j \in 1..(l + 2) : b[j] = IF j <= i THEN n.pointers[j] ELSE IF j = i + 1 THEN c ELSE n.pointers[j - 1]
  <2>1. \A j \in 1..(Len(n.pointers) + 1) :
           b[j] = IF j < i + 1 THEN n.pointers[j] ELSE IF j = i + 1 THEN c ELSE n.pointers[j - 1]
    BY <1>3 DEF Inserted
  <2>2. b \in Seq(Int) /\ Len(b) = l + 2
    BY <1>1, <1>3 DEF Inserted
  <2>3. \A j \in 1..(l + 2) : j < i + 1 <=> j <= i
    BY <1>1
  <2>4. Len(n.pointers) + 1 = l + 2
    BY <1>1
  <2> QED BY <2>1, <2>2, <2>3, <2>4
<1>6. r \in NodeType /\ r.keys = a /\ r.pointers = b /\ r.is_leaf = n.is_leaf /\ r.parent = n.parent /\ r.next = n.next
  BY <1>4, <1>5 DEF NodeType
<1> HIDE DEF r
<1> DEFINE old(j) == Bound(n, x, j)
           new(j) == Bound(r, x, j)
<1>7. ASSUME NEW j \in 0..(l + 2)
      PROVE  new(j) = IF j < i THEN old(j) ELSE IF j = i THEN k ELSE old(j - 1)
  <2>1. new(j) = IF j = 0 THEN x.lo ELSE IF j = l + 2 THEN x.hi ELSE a[j]
    <3>1. r.keys = a /\ Len(r.keys) + 1 = l + 2
      <4> HIDE DEF l
      <4> QED BY <1>1, <1>4, <1>6
    <3> QED BY <3>1 DEF Bound
  <2>2. i \in 1..(l + 1)
    OBVIOUS
  <2>3. CASE j = 0
    <3>1. j < i /\ old(j) = x.lo
      BY <2>2, <2>3 DEF Bound
    <3> QED BY <2>1, <2>3, <3>1
  <2>4. CASE j = l + 2
    <3>1. ~(j < i) /\ j # i /\ j # 0 /\ j - 1 = l + 1 /\ l + 1 # 0
      <4>1. l \in Nat
        BY <1>1
      <4> HIDE DEF l
      <4> QED BY <4>1, <2>2, <2>4
    <3>2. old(j - 1) = x.hi
      BY <3>1 DEF Bound
    <3> QED BY <2>1, <2>4, <3>1, <3>2
  <2>5. CASE j # 0 /\ j # l + 2
    <3>1. j \in 1..(l + 1)
      <4> HIDE DEF l
      <4> QED BY <1>1, <2>5
    <3>2. new(j) = IF j < i THEN s[j] ELSE IF j = i THEN k ELSE s[j - 1]
      BY <1>4, <2>1, <2>5, <3>1
    <3>3. ASSUME j < i PROVE old(j) = s[j]
      <4>1. j # 0 /\ j # l + 1
        <5>1. l \in Nat
          BY <1>1
        <5> HIDE DEF l
        <5> QED BY <5>1, <2>2, <3>1, <3>3
      <4> QED BY <4>1 DEF Bound
    <3>4. ASSUME i < j PROVE old(j - 1) = s[j - 1]
      <4>1. j - 1 # 0 /\ j - 1 # l + 1
        <5>1. l \in Nat
          BY <1>1
        <5> HIDE DEF l
        <5> QED BY <5>1, <2>2, <3>1, <3>4
      <4> QED BY <4>1 DEF Bound
    <3>5. j < i \/ j = i \/ i < j
      BY <2>2, <3>1
    <3>6. i < j => ~(j < i) /\ j # i
      BY <2>2, <3>1
    <3> HIDE DEF old, new
    <3> QED BY <3>2, <3>3, <3>4, <3>5, <3>6
  <2> QED BY <2>3, <2>4, <2>5
<1>8. \A p, q \in 0..(l + 1) : p < q => old(p) < old(q)
  BY DEF Fenced
<1>9. \A j \in 0..(l + 1) : old(j) \in Int
  BY BoundRange
<1> HIDE DEF old, new
<1>10. ASSUME NEW p \in 0..(l + 2), NEW q \in 0..(l + 2), p < q PROVE new(p) < new(q)
  <2>0. l \in Nat /\ i \in 1..(l + 1)
    BY <1>1
  <2>1. i \in 1..(l + 1) /\ i - 1 \in 0..(l + 1) /\ i \in 0..(l + 1)
    <3> HIDE DEF l
    <3> QED BY <2>0
  <2>2. old(i - 1) < k /\ k < old(i)
    BY DEF old
  <2>3. CASE q < i
    <3>1. p < i /\ p \in 0..(l + 1) /\ q \in 0..(l + 1)
      <4> HIDE DEF l
      <4> QED BY <2>0, <1>10, <2>1, <2>3
    <3>2. new(p) = old(p) /\ new(q) = old(q)
      BY <1>7, <2>3, <3>1
    <3> QED BY <1>8, <1>10, <3>1, <3>2
  <2>4. CASE q = i
    <3>1. p < i /\ p \in 0..(l + 1) /\ (p = i - 1 \/ p < i - 1)
      <4> HIDE DEF l
      <4> QED BY <2>0, <1>10, <2>1, <2>4
    <3>2. new(p) = old(p) /\ new(q) = k
      BY <1>7, <2>4, <3>1
    <3>3. p = i - 1 \/ old(p) < old(i - 1)
      BY <1>8, <2>1, <3>1
    <3> QED BY <1>9, <2>1, <2>2, <3>1, <3>2, <3>3
  <2>5. CASE i < q
    <3>1. q - 1 \in 0..(l + 1) /\ (q - 1 = i \/ i < q - 1) /\ ~(q < i) /\ q # i
      <4> HIDE DEF l
      <4> QED BY <2>0, <2>1, <2>5
    <3>2. new(q) = old(q - 1)
      BY <1>7, <3>1
    <3>3. q - 1 = i \/ old(i) < old(q - 1)
      BY <1>8, <2>1, <3>1
    <3>4. k < old(q - 1)
      BY <1>9, <2>1, <2>2, <3>1, <3>3
    <3>5. CASE p < i
      <4>1. p \in 0..(l + 1) /\ p < q - 1
        <5> HIDE DEF l
        <5> QED BY <2>0, <2>1, <3>1, <3>5
      <4>2. new(p) = old(p)
        BY <1>7, <3>5
      <4> QED BY <1>8, <3>1, <3>2, <4>1, <4>2
    <3>6. CASE p = i
      <4>1. new(p) = k
        BY <1>7, <3>6
      <4> QED BY <3>2, <3>4, <4>1
    <3>7. CASE i < p
      <4>1. p - 1 \in 0..(l + 1) /\ p - 1 < q - 1 /\ ~(p < i) /\ p # i
        <5> HIDE DEF l
        <5> QED BY <2>0, <1>10, <2>1, <3>1, <3>7
      <4>2. new(p) = old(p - 1)
        BY <1>7, <4>1
      <4> QED BY <1>8, <3>1, <3>2, <4>1, <4>2
    <3> QED BY <2>1, <3>5, <3>6, <3>7
  <2> QED BY <2>1, <2>3, <2>4, <2>5
<1>11. Fenced(r, x)
  <2>1. \A p, q \in 0..(Len(r.keys) + 1) : p < q => Bound(r, x, p) < Bound(r, x, q)
    <3>1. Len(r.keys) + 1 = l + 2
      <4>1. l \in Nat /\ Len(r.keys) = l + 1
        BY <1>1, <1>4, <1>6
      <4> HIDE DEF l
      <4> QED BY <4>1
    <3> QED BY <1>10, <3>1 DEF new
  <2>2. Len(r.pointers) = Len(r.keys) + 1
    <3> HIDE DEF l
    <3> QED BY <1>1, <1>4, <1>5, <1>6
  <2> QED BY <2>1, <2>2 DEF Fenced
<1>12. Len(r.keys) = Len(n.keys) + 1
  BY <1>4, <1>6
<1>13. FenceIn(r, n, x, i, k, c)
  BY <1>5, <1>6, <1>7, <1>11, <1>12 DEF FenceIn, old, new
<1> QED BY <1>13 DEF r, a, b

\* The upper half is hung under the parent of the lower half.
LEMMA HungUnderParent ==
  ASSUME NEW t, NEW g, NEW left, NEW right, NEW k, Halved(t, g, left, right, k), left # t.root
  PROVE  LET p == t.node[left].parent
             u == insert_into_node(t, p, left, k, right)
         IN  /\ Shape(u, Until(g, left, k)) /\ u.root = t.root /\ DOMAIN u.node = DOMAIN t.node
             /\ p \in DOMAIN t.node /\ ~t.node[p].is_leaf /\ ~u.node[p].is_leaf
             /\ Len(u.node[p].keys) = Len(t.node[p].keys) + 1
             /\ \A m \in DOMAIN t.node : m # p => u.node[m] = t.node[m]
<1> DEFINE f == Until(g, left, k)
           p == t.node[left].parent
           D == DOMAIN t.node
           u == insert_into_node(t, p, left, k, right)
<1>1. /\ Placed(t, g) /\ Heap(t) /\ RootOK(t, g) /\ k \in Int
      /\ left \in D /\ right \in D /\ left # right /\ right # t.root
      /\ t.node[right].parent = p
      /\ g[left].lo < k /\ k < g[left].hi
      /\ g[right].ht = g[left].ht /\ g[right].lo = k /\ g[right].hi = g[left].hi
  BY DEF Halved, Placed
<1>2. /\ \A n \in D : n # left /\ n # right => Body(t, g, n)
      /\ Body(t, f, left) /\ Body(t, f, right)
      /\ \A n \in D : n # t.root /\ n # right => Under(t, g, n)
  BY <1>1 DEF Halved
<1>3. /\ Placed(t, f)
      /\ \A n \in D : /\ n # left => f[n] = g[n]
                      /\ f[n].ht = g[n].ht /\ f[n].lo = g[n].lo
      /\ f[left].hi = k
  BY <1>1, UntilPlaced
<1> HIDE DEF f
<1>4. p \in D /\ ~t.node[p].is_leaf /\ \E i \in 1..Len(t.node[p].pointers) : t.node[p].pointers[i] = left
  BY <1>1, <1>2 DEF Under, IsChild
<1> HIDE DEF p
<1>5. PICK i \in 1..Len(t.node[p].pointers) : t.node[p].pointers[i] = left
  BY <1>4
<1>6. p # left /\ p # right
  <2>1. g[left].ht \in Nat /\ g[left].ht < g[t.root].ht
    BY <1>1, <1>2, PlaceFields DEF Under
  <2>2. ASSUME p \in {left, right} PROVE FALSE
    <3>1. Body(t, f, p) /\ f[p].ht = g[left].ht
      BY <1>1, <1>2, <1>3, <2>2
    <3>2. Hangs(t, f, p, i)
      BY <1>4, <3>1 DEF Body
    <3>3. f[p].ht = f[left].ht + 1
      BY <1>5, <3>2 DEF Hangs
    <3>4. f[left].ht = g[left].ht
      BY <1>1, <1>3
    <3> QED BY <2>1, <3>1, <3>3, <3>4
  <2> QED BY <2>2
<1>7. Body(t, g, p) /\ t.node[p] \in NodeType /\ g[p] \in PlaceType /\ Fenced(t.node[p], g[p]) /\ f[p] = g[p]
  <2>1. Body(t, g, p)
    BY <1>2, <1>4, <1>6
  <2> QED BY <1>1, <1>3, <1>4, <1>6, <2>1, NodeFields, PlaceFields DEF Body
<1> DEFINE l == Len(t.node[p].keys) + 1
           old(j) == Bound(t.node[p], g[p], j)
           c(j) == t.node[p].pointers[j]
<1>8. /\ l \in Nat /\ Len(t.node[p].pointers) = l /\ i \in 1..l
      /\ \A j \in 1..l : /\ c(j) \in D /\ t.node[c(j)].parent = p
                         /\ g[p].ht = g[c(j)].ht + 1 /\ g[c(j)].lo = old(j - 1) /\ g[c(j)].hi = old(j)
  <2>1. l \in Nat /\ Len(t.node[p].pointers) = l
    BY <1>1, <1>4, <1>7, NodeFields DEF Fenced
  <2>2. \A j \in 1..l : Hangs(t, g, p, j)
    BY <1>4, <1>7, <2>1 DEF Body
  <2> QED BY <2>1, <2>2 DEF Hangs
<1>9. \A j \in 1..l : c(j) = left <=> j = i
  <2>1. SUFFICES ASSUME NEW j \in 1..l, c(j) = left PROVE j = i
    BY <1>5
  <2>2. j \in 1..Len(t.node[p].pointers) /\ t.node[p].pointers[j] = t.node[p].pointers[i]
    BY <1>5, <1>8, <2>1
  <2>3. Placed(t, g) /\ p \in DOMAIN t.node /\ ~t.node[p].is_leaf /\ Body(t, g, p)
    BY <1>1, <1>4, <1>7
  <2> HIDE DEF l, c
  <2> QED BY <1>5, <2>2, <2>3, DistinctChildren
<1> DEFINE x == [t.node[p] EXCEPT !.keys = InsertAt(@, i, k), !.pointers = InsertAt(@, i + 1, right)]
<1>10. u = With(t, p, x)
  <2>1. Position(t.node[p].pointers, left) = i
    <3>1. t.node[p].pointers \in Seq(Int)
      BY <1>1, <1>4, NodeFields
    <3>2. \A j \in 1..Len(t.node[p].pointers) : t.node[p].pointers[j] = t.node[p].pointers[i] => j = i
      BY <1>5, <1>8, <1>9
    <3> QED BY <1>5, <3>1, <3>2, PositionOf
  <2> QED BY <2>1 DEF insert_into_node
<1>11. /\ x \in NodeType /\ x.is_leaf = t.node[p].is_leaf /\ x.parent = t.node[p].parent
       /\ Fenced(x, g[p]) /\ Len(x.keys) = Len(t.node[p].keys) + 1
       /\ \A j \in 0..(Len(t.node[p].keys) + 2) :
            Bound(x, g[p], j) = IF j < i THEN Bound(t.node[p], g[p], j)
                                ELSE IF j = i THEN k ELSE Bound(t.node[p], g[p], j - 1)
       /\ \A j \in 1..(Len(t.node[p].keys) + 2) :
            x.pointers[j] = IF j <= i THEN t.node[p].pointers[j]
                            ELSE IF j = i + 1 THEN right ELSE t.node[p].pointers[j - 1]
  <2>1. right \in Int
    BY <1>1 DEF Heap
  <2>2. Bound(t.node[p], g[p], i - 1) < k /\ k < Bound(t.node[p], g[p], i)
    BY <1>1, <1>5, <1>8
  <2>3. i \in 1..(Len(t.node[p].keys) + 1)
    BY <1>8
  <2>4. FenceIn(x, t.node[p], g[p], i, k, right)
    BY <1>1, <1>7, <2>1, <2>2, <2>3, FenceAdded
  <2> HIDE DEF x
  <2> QED BY <2>4 DEF FenceIn
<1> DEFINE new(j) == Bound(x, g[p], j)
           d(j) == x.pointers[j]
<1> HIDE DEF x, u
<1>12. /\ \A j \in 0..(l + 1) : new(j) = IF j < i THEN old(j) ELSE IF j = i THEN k ELSE old(j - 1)
       /\ \A j \in 1..(l + 1) : d(j) = IF j <= i THEN c(j) ELSE IF j = i + 1 THEN right ELSE c(j - 1)
       /\ Len(x.pointers) = l + 1
  <2>1. Len(t.node[p].keys) + 2 = l + 1
    BY <1>1, <1>4, NodeFields
  <2>2. Len(x.pointers) = l + 1
    BY <1>11, <2>1 DEF Fenced
  <2> QED BY <1>11, <2>1, <2>2
<1>13. Wrote(u, t, p, x)
  <2>1. p \in Nat \ {Null}
    BY <1>1, <1>4 DEF Heap
  <2> QED BY <1>1, <1>10, <1>11, <2>1, WithOne
<1>14. /\ Heap(u) /\ u.root = t.root /\ DOMAIN u.node = D /\ u.node[p] = x
       /\ \A m \in D : m # p => u.node[m] = t.node[m]
  BY <1>4, <1>13 DEF Wrote
<1>15. \A m \in D : u.node[m].parent = t.node[m].parent /\ u.node[m].is_leaf = t.node[m].is_leaf
  BY <1>11, <1>14
<1>16. Body(u, f, p)
  <2>1. ASSUME NEW j \in 1..(l + 1)
        PROVE  /\ d(j) \in D /\ t.node[d(j)].parent = p /\ g[p].ht = f[d(j)].ht + 1
               /\ f[d(j)].lo = new(j - 1) /\ f[d(j)].hi = new(j)
    <3> HIDE DEF c, d, old, new, l
    <3>1. j \in 0..(l + 1) /\ j - 1 \in 0..(l + 1)
      BY <1>8
    <3>2. CASE j < i
      <4>1. j \in 1..l /\ j # i /\ j <= i /\ j - 1 < i
        BY <1>8, <3>2
      <4>2. d(j) = c(j) /\ new(j) = old(j) /\ new(j - 1) = old(j - 1)
        BY <1>12, <3>1, <3>2, <4>1
      <4>3. f[c(j)] = g[c(j)]
        BY <1>3, <1>8, <1>9, <4>1
      <4> QED BY <1>8, <4>1, <4>2, <4>3
    <3>3. CASE j = i
      <4>1. j \in 1..l /\ j <= i /\ j - 1 < i /\ ~(j < i)
        BY <1>8, <3>3
      <4>2. d(j) = left /\ c(j) = left /\ new(j) = k /\ new(j - 1) = old(j - 1)
        BY <1>9, <1>12, <3>1, <3>3, <4>1
      <4> QED BY <1>1, <1>3, <1>8, <4>1, <4>2
    <3>4. CASE j = i + 1
      <4>1. ~(j <= i) /\ ~(j < i) /\ j # i /\ j - 1 = i /\ ~(j - 1 < i)
        BY <1>8, <3>4
      <4>2. d(j) = right /\ new(j) = old(i) /\ new(j - 1) = k
        BY <1>12, <3>1, <3>4, <4>1
      <4>3. f[right] = g[right] /\ g[right].hi = old(i) /\ g[p].ht = g[left].ht + 1
        BY <1>1, <1>3, <1>8, <1>9
      <4> QED BY <1>1, <4>2, <4>3
    <3>5. CASE i + 1 < j
      <4>1. j - 1 \in 1..l /\ j - 1 # i /\ ~(j <= i) /\ j # i + 1 /\ ~(j < i) /\ j # i /\ ~(j - 1 < i)
        BY <1>8, <3>5
      <4>2. d(j) = c(j - 1) /\ new(j) = old(j - 1) /\ new(j - 1) = old((j - 1) - 1)
        BY <1>12, <3>1, <4>1
      <4>3. f[c(j - 1)] = g[c(j - 1)]
        BY <1>3, <1>8, <1>9, <4>1
      <4> QED BY <1>8, <4>1, <4>2, <4>3
    <3>6. j < i \/ j = i \/ j = i + 1 \/ i + 1 < j
      BY <1>8, <3>1
    <3> QED BY <3>2, <3>3, <3>4, <3>5, <3>6
  <2>2. ASSUME NEW j \in 1..Len(u.node[p].pointers) PROVE Hangs(u, f, p, j)
    <3>1. j \in 1..(l + 1)
      BY <1>12, <1>14
    <3> QED BY <1>7, <1>14, <1>15, <2>1, <3>1 DEF Hangs
  <2>3. Fenced(u.node[p], f[p]) /\ f[p].ht # 0 /\ f[p].lo < f[p].hi /\ ~u.node[p].is_leaf
    BY <1>4, <1>7, <1>11, <1>14, <1>15 DEF Body
  <2> QED BY <2>2, <2>3 DEF Body
<1>17. ASSUME NEW m \in D PROVE Body(u, f, m)
  <2>1. CASE m = p
    BY <1>16, <2>1
  <2>2. CASE m # p
    <3>1. SameContent(u.node[m], t.node[m])
      BY <1>14, <2>2 DEF SameContent
    <3>2. CASE m \in {left, right}
      <4>1. Body(t, f, m)
        BY <1>2, <3>2
      <4>2. t.node[m].is_leaf => SameLink(t, f, u, f, m)
        BY <1>14, <1>15, <4>1 DEF SameLink, Body, Link
      <4>3. ~t.node[m].is_leaf => SameChildren(t, f, u, f, m)
        BY <1>14, <1>15, <4>1 DEF SameChildren, Body, Hangs
      <4> QED BY <3>1, <4>1, <4>2, <4>3, SameBody
    <3>3. CASE m \notin {left, right}
      <4>1. Body(t, g, m) /\ f[m] = g[m]
        BY <1>2, <1>3, <3>3
      <4>2. t.node[m].is_leaf => SameLink(t, g, u, f, m)
        BY <1>3, <1>14, <1>15, <4>1 DEF SameLink, Body, Link
      <4>3. ~t.node[m].is_leaf => SameChildren(t, g, u, f, m)
        <5>1. SUFFICES ASSUME ~t.node[m].is_leaf, NEW j \in 1..Len(t.node[m].pointers)
                       PROVE  LET e == t.node[m].pointers[j]
                              IN  e \in DOMAIN u.node /\ u.node[e].parent = m /\ f[e] = g[e]
          BY DEF SameChildren
        <5> DEFINE e == t.node[m].pointers[j]
        <5>2. e \in D /\ t.node[e].parent = m
          BY <4>1, <5>1 DEF Body, Hangs
        <5> HIDE DEF e
        <5>3. e # left
          BY <2>2, <5>2 DEF p
        <5>4. e \in DOMAIN u.node /\ u.node[e].parent = m /\ f[e] = g[e]
          BY <1>3, <1>14, <1>15, <5>2, <5>3
        <5> QED BY <5>4 DEF e
      <4> QED BY <3>1, <4>1, <4>2, <4>3, SameBody
    <3> QED BY <3>2, <3>3
  <2> QED BY <2>1, <2>2
<1>18. ASSUME NEW m \in D, m # u.root PROVE Under(u, f, m)
  <2>1. f[m].ht < f[u.root].ht
    <3>1. g[m].ht < g[t.root].ht
      <4>1. g[left].ht < g[t.root].ht
        BY <1>1, <1>2 DEF Under
      <4> QED BY <1>1, <1>2, <1>14, <1>18, <4>1 DEF Under
    <3>2. t.root \in D
      BY <1>1 DEF RootOK
    <3> QED BY <1>3, <1>14, <3>1, <3>2
  <2>2. IsChild(u, m)
    <3>1. CASE m = right
      <4>1. i + 1 \in 1..(l + 1) /\ ~(i + 1 <= i)
        BY <1>8
      <4>2. x.pointers[i + 1] = right /\ i + 1 \in 1..Len(x.pointers)
        BY <1>12, <4>1
      <4> QED BY <1>1, <1>4, <1>14, <1>15, <3>1, <4>2 DEF IsChild
    <3>2. CASE m # right
      <4> DEFINE q == t.node[m].parent
      <4>1. q \in D /\ ~t.node[q].is_leaf /\ \E j \in 1..Len(t.node[q].pointers) : t.node[q].pointers[j] = m
        BY <1>2, <1>14, <1>18, <3>2 DEF Under, IsChild
      <4>2. u.node[m].parent = q
        BY <1>15
      <4> HIDE DEF q
      <4>3. CASE q # p
        BY <1>14, <4>1, <4>2, <4>3 DEF IsChild
      <4>4. CASE q = p
        <5>1. PICK j \in 1..l : c(j) = m
          BY <1>8, <4>1, <4>4
        <5>2. \E e \in 1..(l + 1) : d(e) = m
          <6>1. CASE j <= i
            <7>1. j \in 1..(l + 1) /\ d(j) = c(j)
              BY <1>8, <1>12, <6>1
            <7> QED BY <5>1, <7>1
          <6>2. CASE ~(j <= i)
            <7>1. j + 1 \in 1..(l + 1) /\ ~(j + 1 <= i) /\ j + 1 # i + 1 /\ (j + 1) - 1 = j
              BY <1>8, <6>2
            <7>2. d(j + 1) = c((j + 1) - 1)
              BY <1>12, <7>1
            <7> QED BY <5>1, <7>1, <7>2
          <6> QED BY <6>1, <6>2
        <5> QED BY <1>4, <1>12, <1>14, <1>15, <4>2, <4>4, <5>2 DEF IsChild
      <4> QED BY <4>3, <4>4
    <3> QED BY <3>1, <3>2
  <2> QED BY <2>1, <2>2 DEF Under
<1>19. Shape(u, f)
  <2>1. Placed(u, f)
    BY <1>3, <1>14 DEF Placed
  <2>2. RootOK(u, f)
    BY <1>1, <1>3, <1>14, <1>15 DEF RootOK
  <2> QED BY <1>14, <1>17, <1>18, <2>1, <2>2 DEF Shape
<1>20. ~u.node[p].is_leaf /\ Len(u.node[p].keys) = Len(t.node[p].keys) + 1
  BY <1>4, <1>11, <1>14, <1>15
<1> QED BY <1>4, <1>14, <1>19, <1>20 DEF u, p, f

\* The halves of the root are hung under a new root.
NewlyRooted(u, t, n) ==
  /\ IsTree(u) /\ u.root = n /\ n \notin DOMAIN t.node /\ DOMAIN u.node = DOMAIN t.node \cup {n}
  /\ Len(u.node[n].keys) = 1 /\ ~u.node[n].is_leaf
  /\ \A m \in DOMAIN t.node : u.node[m].is_leaf = t.node[m].is_leaf /\ u.node[m].keys = t.node[m].keys

LEMMA HungUnderNewRoot ==
  ASSUME NEW t, NEW g, NEW right, NEW k, Halved(t, g, t.root, right, k)
  PROVE  NewlyRooted(insert_into_new_root(t, t.root, k, right), t, NewNode(t))
<1> DEFINE left == t.root
           f == Until(g, left, k)
           D == DOMAIN t.node
           n == NewNode(t)
           x == [is_leaf |-> FALSE, keys |-> <<k>>, pointers |-> <<left, right>>, parent |-> Null, next |-> Null]
           v == With(t, n, x)
           w == [v EXCEPT !.root = n]
           u == insert_into_new_root(t, left, k, right)
           top == [ht |-> g[left].ht + 1, lo |-> MinKey, hi |-> MaxKey + 1]
           h == [m \in D \cup {n} |-> IF m = n THEN top ELSE f[m]]
<1>1. /\ Placed(t, g) /\ Heap(t) /\ RootOK(t, g) /\ k \in Int
      /\ left \in D /\ right \in D /\ left # right
      /\ t.node[right].parent = Null /\ t.node[left].parent = Null
      /\ g[left].lo < k /\ k < g[left].hi /\ g[left].lo = MinKey /\ g[left].hi = MaxKey + 1
      /\ g[right].ht = g[left].ht /\ g[right].lo = k /\ g[right].hi = g[left].hi
  BY DEF Halved, Placed, RootOK
<1>2. /\ \A m \in D : m # left /\ m # right => Body(t, g, m) /\ Under(t, g, m)
      /\ Body(t, f, left) /\ Body(t, f, right)
  BY <1>1 DEF Halved
<1>3. /\ Placed(t, f)
      /\ \A m \in D : /\ m # left => f[m] = g[m]
                      /\ f[m].ht = g[m].ht /\ f[m].lo = g[m].lo
      /\ f[left].hi = k
  BY <1>1, UntilPlaced
<1>4. n \in Nat \ {Null} /\ n \notin D
  BY <1>1, NewNodeIsNew
<1>5. \A m \in D : g[m].ht \in Nat
  BY <1>1, PlaceFields
<1> HIDE DEF f, n
<1>6. left \in Nat /\ right \in Nat /\ Null \in Nat
  BY <1>1 DEF Heap, Null
<1>7. /\ x \in NodeType /\ ~x.is_leaf /\ x.keys = <<k>> /\ x.pointers = <<left, right>> /\ x.parent = Null
  <2> HIDE DEF left
  <2> QED BY <1>1, <1>6 DEF NodeType
<1>8. u = Adopt(w, n, {left, right})
  BY DEF insert_into_new_root, n
<1> HIDE DEF x, left
<1>9. Wrote(v, t, n, x)
  BY <1>1, <1>4, <1>7, WithOne
<1> HIDE DEF v
<1>10. Heap(w) /\ w.root = n /\ w.node = v.node
  BY <1>9, RootedElsewhere DEF Wrote
<1> HIDE DEF w
<1>11. Adopted(Adopt(w, n, {left, right}), w, n, {left, right})
  BY <1>4, <1>10, AdoptNodes
<1>12. Adopted(u, w, n, {left, right})
  BY <1>8, <1>11
<1> HIDE DEF u
<1>13. /\ Heap(u) /\ u.root = n /\ DOMAIN u.node = D \cup {n} /\ u.node[n] = x
       /\ \A m \in D : u.node[m] = IF m \in {left, right} THEN [t.node[m] EXCEPT !.parent = n] ELSE t.node[m]
  <2>1. DOMAIN v.node = D \cup {n} /\ v.node[n] = x /\ \A m \in D : v.node[m] = t.node[m]
    BY <1>4, <1>9 DEF Wrote
  <2>2. Heap(u) /\ u.root = w.root /\ DOMAIN u.node = DOMAIN w.node
    BY <1>12 DEF Adopted
  <2>3. \A m \in DOMAIN w.node : u.node[m] = IF m \in {left, right} THEN [w.node[m] EXCEPT !.parent = n] ELSE w.node[m]
    BY <1>12 DEF Adopted
  <2>4. n \notin {left, right}
    BY <1>1, <1>4
  <2>5. DOMAIN w.node = D \cup {n} /\ w.node[n] = x /\ \A m \in D : w.node[m] = t.node[m]
    BY <1>10, <2>1
  <2>6. u.node[n] = x
    BY <2>3, <2>4, <2>5
  <2>7. \A m \in D : u.node[m] = IF m \in {left, right} THEN [t.node[m] EXCEPT !.parent = n] ELSE t.node[m]
    BY <2>3, <2>5
  <2> QED BY <1>10, <2>2, <2>5, <2>6, <2>7
<1>14. ASSUME NEW m \in D
       PROVE  /\ SameContent(u.node[m], t.node[m])
              /\ u.node[m].parent = IF m \in {left, right} THEN n ELSE t.node[m].parent
              /\ h[m] = f[m] /\ m # n
  <2>1. t.node[m] \in NodeType
    BY <1>1, NodeFields
  <2>2. m # n /\ h[m] = f[m]
    BY <1>4
  <2>3. CASE m \in {left, right}
    <3>1. u.node[m] = [t.node[m] EXCEPT !.parent = n]
      BY <1>13, <2>3
    <3> QED BY <2>1, <2>2, <2>3, <3>1 DEF SameContent, NodeType
  <2>4. CASE m \notin {left, right}
    <3>1. u.node[m] = t.node[m]
      BY <1>13, <2>4
    <3> QED BY <2>2, <2>4, <3>1 DEF SameContent
  <2> QED BY <2>3, <2>4
<1>15. h[n] = top /\ h \in [D \cup {n} -> PlaceType]
  <2>1. top \in PlaceType
    BY <1>1, <1>5, BptAssumption DEF PlaceType
  <2>2. \A m \in D : f[m] \in PlaceType
    BY <1>3, PlaceFields
  <2> QED BY <2>1, <2>2
<1>16. top.ht = g[left].ht + 1 /\ top.lo = MinKey /\ top.hi = MaxKey + 1
  OBVIOUS
<1> HIDE DEF h, top
<1>17. Body(u, h, n)
  <2>1. Len(x.keys) = 1 /\ Len(x.pointers) = 2 /\ x.keys[1] = k /\ x.pointers[1] = left /\ x.pointers[2] = right
    BY <1>7
  <2>2. Bound(x, top, 0) = MinKey /\ Bound(x, top, 1) = k /\ Bound(x, top, 2) = MaxKey + 1
    BY <1>16, <2>1 DEF Bound
  <2>3. MinKey < k /\ k < MaxKey + 1 /\ MinKey \in Int /\ MaxKey \in Int
    BY <1>1, BptAssumption
  <2>4. Fenced(x, top)
    <3>1. \A i \in 0..(Len(x.keys) + 1) : i = 0 \/ i = 1 \/ i = 2
      BY <2>1
    <3>2. \A i, j \in 0..(Len(x.keys) + 1) : i < j => (i = 0 /\ j = 1) \/ (i = 0 /\ j = 2) \/ (i = 1 /\ j = 2)
      BY <3>1
    <3>3. MinKey < MaxKey + 1
      BY <1>1, <2>3
    <3> QED BY <2>1, <2>2, <2>3, <3>2, <3>3 DEF Fenced
  <2>5. ASSUME NEW i \in 1..Len(u.node[n].pointers) PROVE Hangs(u, h, n, i)
    <3>1. i = 1 \/ i = 2
      BY <1>13, <2>1
    <3>2. CASE i = 1
      <4>1. u.node[n].pointers[i] = left /\ u.node[left].parent = n /\ left \in DOMAIN u.node
        BY <1>1, <1>13, <1>14, <2>1, <3>2
      <4>2. h[left].ht = g[left].ht /\ h[left].lo = MinKey /\ h[left].hi = k
        BY <1>1, <1>3, <1>14
      <4> QED BY <1>13, <1>15, <1>16, <2>2, <3>2, <4>1, <4>2 DEF Hangs
    <3>3. CASE i = 2
      <4>1. u.node[n].pointers[i] = right /\ u.node[right].parent = n /\ right \in DOMAIN u.node
        BY <1>1, <1>13, <1>14, <2>1, <3>3
      <4>2. h[right].ht = g[left].ht /\ h[right].lo = k /\ h[right].hi = MaxKey + 1
        BY <1>1, <1>3, <1>14
      <4> QED BY <1>13, <1>15, <1>16, <2>2, <3>3, <4>1, <4>2 DEF Hangs
    <3> QED BY <3>1, <3>2, <3>3
  <2>6. h[n].ht # 0 /\ h[n].lo < h[n].hi
    BY <1>1, <1>5, <1>15, <1>16, <2>3
  <2>7. ~u.node[n].is_leaf /\ Fenced(u.node[n], h[n])
    BY <1>7, <1>13, <1>15, <2>4
  <2> QED BY <2>5, <2>6, <2>7 DEF Body
<1>18. ASSUME NEW m \in D PROVE Body(u, h, m)
  <2>1. SameContent(u.node[m], t.node[m])
    BY <1>14
  <2>2. ASSUME NEW e, NEW b, Body(t, e, m), e[m] = f[m], \A a \in D : a \notin {left, right} => e[a] = f[a],
               \A a \in D : e[a].lo = f[a].lo
        PROVE  Body(u, h, m)
    <3>1. h[m] = e[m]
      BY <1>14, <2>2
    <3>2. t.node[m].is_leaf => SameLink(t, e, u, h, m)
      BY <1>13, <1>14, <2>2 DEF SameLink, Body, Link, SameContent
    <3>3. ~t.node[m].is_leaf => SameChildren(t, e, u, h, m)
      <4>1. SUFFICES ASSUME ~t.node[m].is_leaf, NEW j \in 1..Len(t.node[m].pointers)
                     PROVE  LET c == t.node[m].pointers[j]
                            IN  c \in DOMAIN u.node /\ u.node[c].parent = m /\ h[c] = e[c]
        BY DEF SameChildren
      <4> DEFINE c == t.node[m].pointers[j]
      <4>2. c \in D /\ t.node[c].parent = m
        BY <2>2, <4>1 DEF Body, Hangs
      <4> HIDE DEF c
      <4>3. m # Null
        BY <1>1 DEF Heap
      <4>4. c \notin {left, right}
        BY <1>1, <4>2, <4>3
      <4>5. c \in DOMAIN u.node /\ u.node[c].parent = m /\ h[c] = e[c]
        BY <1>13, <1>14, <2>2, <4>2, <4>4
      <4> QED BY <4>5 DEF c
    <3> QED BY <2>1, <2>2, <3>1, <3>2, <3>3, SameBody
  <2>3. CASE m \in {left, right}
    <3>1. Body(t, f, m)
      BY <1>2, <2>3
    <3> QED BY <2>2, <3>1
  <2>4. CASE m \notin {left, right}
    <3>1. Body(t, g, m) /\ g[m] = f[m]
      BY <1>2, <1>3, <2>4
    <3>2. \A a \in D : (a \notin {left, right} => g[a] = f[a]) /\ g[a].lo = f[a].lo
      BY <1>3
    <3> QED BY <2>2, <3>1, <3>2
  <2> QED BY <2>3, <2>4
<1>19. ASSUME NEW m \in D PROVE Under(u, h, m)
  <2>1. h[m].ht < h[u.root].ht
    <3>1. h[m].ht = g[m].ht
      BY <1>3, <1>14
    <3>2. g[m].ht <= g[left].ht
      <4>1. CASE m \in {left, right}
        BY <1>1, <1>5, <4>1
      <4>2. CASE m \notin {left, right}
        BY <1>1, <1>2, <1>5, <4>2 DEF Under, left
      <4> QED BY <4>1, <4>2
    <3> QED BY <1>1, <1>5, <1>13, <1>15, <1>16, <3>1, <3>2
  <2>2. IsChild(u, m)
    <3>1. CASE m \in {left, right}
      <4>1. u.node[m].parent = n /\ n \in DOMAIN u.node /\ ~u.node[n].is_leaf
        BY <1>7, <1>13, <1>14, <3>1
      <4>2. Len(x.pointers) = 2 /\ x.pointers[1] = left /\ x.pointers[2] = right
        BY <1>7
      <4>3. \E i \in 1..Len(u.node[n].pointers) : u.node[n].pointers[i] = m
        <5>1. 1 \in 1..2 /\ 2 \in 1..2
          OBVIOUS
        <5> QED BY <1>13, <3>1, <4>2, <5>1
      <4> QED BY <4>1, <4>3 DEF IsChild
    <3>2. CASE m \notin {left, right}
      <4>1. IsChild(t, m)
        BY <1>2, <3>2 DEF Under
      <4> QED BY <1>13, <1>14, <3>2, <4>1 DEF IsChild, SameContent
    <3> QED BY <3>1, <3>2
  <2> QED BY <2>1, <2>2 DEF Under
<1>20. Shape(u, h)
  <2>1. Placed(u, h)
    BY <1>13, <1>15 DEF Placed
  <2>2. RootOK(u, h)
    BY <1>7, <1>13, <1>15, <1>16 DEF RootOK
  <2> QED BY <1>13, <1>17, <1>18, <1>19, <2>1, <2>2 DEF Shape
<1>21. /\ Len(u.node[n].keys) = 1 /\ ~u.node[n].is_leaf
       /\ \A m \in DOMAIN t.node : u.node[m].is_leaf = t.node[m].is_leaf /\ u.node[m].keys = t.node[m].keys
  <2>1. Len(x.keys) = 1 /\ ~x.is_leaf
    BY <1>7
  <2>2. \A m \in DOMAIN t.node : u.node[m].is_leaf = t.node[m].is_leaf /\ u.node[m].keys = t.node[m].keys
    BY <1>14 DEF SameContent
  <2> QED BY <1>13, <2>1, <2>2
<1>22. NewlyRooted(u, t, n)
  BY <1>4, <1>13, <1>20, <1>21 DEF IsTree, NewlyRooted
<1> QED BY <1>22 DEF u, n, left

-----------------------------------------------------------------------------
(* Splitting.                                                              *)

LEMMA CutIsHalf ==
  ASSUME NEW m \in Nat
  PROVE  CUT(m) \in Nat /\ (2 * CUT(m) = m \/ 2 * CUT(m) = m + 1)
<1>1. m = 2 * (m \div 2) + (m % 2) /\ m % 2 \in 0..1 /\ m \div 2 \in Nat
  OBVIOUS
<1> QED BY <1>1 DEF CUT

\* The sizes of the halves of a leaf and of an inner node.
LEMMA Halves ==
  /\ order \in Nat /\ order >= 3
  /\ CUT(order - 1) \in 1..(order - 1) /\ order - CUT(order - 1) >= CUT(order - 1)
  /\ CUT(order) \in 2..(order - 1) /\ order - CUT(order) >= CUT(order) - 1
<1>1. order \in Nat /\ order >= 3 /\ order - 1 \in Nat
  BY BptAssumption
<1>2. CUT(order - 1) \in Nat /\ (2 * CUT(order - 1) = order - 1 \/ 2 * CUT(order - 1) = (order - 1) + 1)
  BY <1>1, CutIsHalf
<1>3. CUT(order) \in Nat /\ (2 * CUT(order) = order \/ 2 * CUT(order) = order + 1)
  BY <1>1, CutIsHalf
<1> DEFINE a == CUT(order - 1)
           b == CUT(order)
<1>4. a \in Nat /\ (2 * a = order - 1 \/ 2 * a = (order - 1) + 1) /\ b \in Nat /\ (2 * b = order \/ 2 * b = order + 1)
  BY <1>2, <1>3
<1> HIDE DEF a, b
<1>5. a \in 1..(order - 1) /\ order - a >= a /\ b \in 2..(order - 1) /\ order - b >= b - 1
  BY <1>1, <1>4
<1> QED BY <1>1, <1>5 DEF a, b

\* The keys of a leaf up to the s-th, and those after it.
LeafInParts(n, s, a, b) ==
  /\ a.keys = SubSeq(n.keys, 1, s) /\ b.keys = SubSeq(n.keys, s + 1, Len(n.keys))
  /\ a.pointers = SubSeq(n.pointers, 1, s) /\ b.pointers = SubSeq(n.pointers, s + 1, Len(n.keys))

LeafParts(n, x, s, a, y, b, z) ==
  /\ LeafBody(a, y) /\ LeafBody(b, z)
  /\ Len(a.keys) = s /\ Len(b.keys) = Len(n.keys) - s
  /\ n.keys[s + 1] \in Int /\ x.lo < n.keys[s + 1] /\ n.keys[s + 1] < x.hi
  /\ \A v : HasKey(n, v) <=> (HasKey(a, v) \/ HasKey(b, v))

LEMMA LowerKeys ==
  ASSUME NEW n \in NodeType, NEW x \in PlaceType, LeafBody(n, x), NEW s \in Nat, 1 <= s, s < Len(n.keys),
         NEW a \in NodeType, NEW b \in NodeType, LeafInParts(n, s, a, b),
         NEW y \in PlaceType, y.lo = x.lo, y.hi = n.keys[s + 1],
         NEW z \in PlaceType, z.lo = n.keys[s + 1], z.hi = x.hi
  PROVE  LeafParts(n, x, s, a, y, b, z)
<1> DEFINE l == Len(n.keys)
           k == n.keys[s + 1]
<1>0. l \in Nat /\ s \in Nat /\ 1 <= s /\ s < l
  <2>1. n.keys \in Seq(Int)
    BY DEF NodeType
  <2> QED BY <2>1
<1>1. n.keys \in Seq(Int) /\ n.pointers \in Seq(Int) /\ l \in Nat /\ Len(n.pointers) = l
      /\ x.lo \in Int /\ x.hi \in Int /\ s < l
  BY DEF NodeType, LeafBody, PlaceType
<1>2. /\ \A j \in 1..l : n.keys[j] \in Int /\ n.pointers[j] = n.keys[j] /\ x.lo <= n.keys[j] /\ n.keys[j] < x.hi
      /\ \A p, q \in 1..l : p < q => n.keys[p] < n.keys[q]
  <2>1. \A j \in 1..l : n.pointers[j] = n.keys[j] /\ x.lo <= n.keys[j] /\ n.keys[j] < x.hi
    BY DEF LeafBody
  <2>2. \A p, q \in 1..l : p < q => n.keys[p] < n.keys[q]
    BY DEF LeafBody
  <2>3. \A j \in 1..l : n.keys[j] \in Int
    BY <1>1
  <2> QED BY <2>1, <2>2, <2>3
<1>3. Part(a.keys, n.keys, 1, s) /\ Part(a.pointers, n.pointers, 1, s)
  <2>1. 1 \in Nat /\ 1 <= 1 /\ 1 <= s + 1 /\ s <= Len(n.keys) /\ s <= Len(n.pointers)
    BY <1>0, <1>1
  <2>2. /\ Part(SubSeq(n.keys, 1, s), n.keys, 1, s)
        /\ Part(SubSeq(n.pointers, 1, s), n.pointers, 1, s)
    BY <1>1, <2>1, PartOf
  <2> QED BY <2>2 DEF LeafInParts
<1>4. Part(b.keys, n.keys, s + 1, l) /\ Part(b.pointers, n.pointers, s + 1, l)
  <2>1. s + 1 \in Nat /\ 1 <= s + 1 /\ s + 1 <= l + 1 /\ l <= Len(n.keys) /\ l <= Len(n.pointers)
    BY <1>0, <1>1
  <2>2. /\ Part(SubSeq(n.keys, s + 1, l), n.keys, s + 1, l)
        /\ Part(SubSeq(n.pointers, s + 1, l), n.pointers, s + 1, l)
    BY <1>1, <2>1, PartOf
  <2> QED BY <2>2 DEF LeafInParts
<1> HIDE DEF l
<1>5. /\ Len(a.keys) = s /\ Len(a.pointers) = s
      /\ \A j \in 1..s : a.keys[j] = n.keys[j] /\ a.pointers[j] = n.pointers[j] /\ j \in 1..l
  <2>1. Len(a.keys) = s /\ Len(a.pointers) = s
    BY <1>3 DEF Part
  <2>2. \A j \in 1..s : a.keys[j] = n.keys[(1 + j) - 1] /\ a.pointers[j] = n.pointers[(1 + j) - 1]
    BY <1>3 DEF Part
  <2>3. \A j \in 1..s : (1 + j) - 1 = j /\ j \in 1..l
    BY <1>1 DEF l
  <2> QED BY <2>1, <2>2, <2>3
<1>6. /\ Len(b.keys) = l - s /\ Len(b.pointers) = l - s
      /\ \A j \in 1..(l - s) : b.keys[j] = n.keys[s + j] /\ b.pointers[j] = n.pointers[s + j] /\ s + j \in 1..l
  <2>1. (l - (s + 1)) + 1 = l - s
    BY <1>0
  <2>2. Len(b.keys) = l - s /\ Len(b.pointers) = l - s
    BY <1>4, <2>1 DEF Part
  <2>3. \A j \in 1..(l - s) : b.keys[j] = n.keys[((s + 1) + j) - 1] /\ b.pointers[j] = n.pointers[((s + 1) + j) - 1]
    BY <1>4, <2>1 DEF Part
  <2>4. \A j \in 1..(l - s) : ((s + 1) + j) - 1 = s + j /\ s + j \in 1..l
    <3>1. SUFFICES ASSUME NEW j \in 1..(l - s) PROVE ((s + 1) + j) - 1 = s + j /\ s + j \in 1..l
      OBVIOUS
    <3>2. j \in Int /\ 1 <= j /\ j <= l - s
      BY <1>0
    <3>3. s + j \in Int /\ 1 <= s + j /\ s + j <= l
      BY <1>0, <3>2
    <3> QED BY <1>0, <3>2, <3>3
  <2> QED BY <2>2, <2>3, <2>4
<1>7. s + 1 \in 1..l /\ 1 \in 1..l /\ 1 < s + 1
  BY <1>0
<1>8. k \in Int /\ x.lo < k /\ k < x.hi
  <2>1. x.lo <= n.keys[1] /\ n.keys[1] < k /\ k < x.hi /\ k \in Int /\ n.keys[1] \in Int
    BY <1>2, <1>7
  <2> DEFINE e == n.keys[1]
  <2>2. x.lo \in Int /\ x.lo <= e /\ e < k /\ k < x.hi /\ k \in Int /\ e \in Int
    BY <1>1, <2>1
  <2> HIDE DEF k, e
  <2> QED BY <2>2
<1>9. LeafBody(a, y)
  <2>1. ASSUME NEW j \in 1..s PROVE a.pointers[j] = a.keys[j] /\ y.lo <= a.keys[j] /\ a.keys[j] < y.hi
    <3>1. j < s + 1
      BY <1>7
    <3> QED BY <1>2, <1>5, <1>7, <3>1
  <2>2. ASSUME NEW p \in 1..s, NEW q \in 1..s, p < q PROVE a.keys[p] < a.keys[q]
    BY <1>2, <1>5, <2>2
  <2> QED BY <1>5, <2>1, <2>2 DEF LeafBody
<1>10. LeafBody(b, z)
  <2>1. ASSUME NEW j \in 1..(l - s) PROVE b.pointers[j] = b.keys[j] /\ z.lo <= b.keys[j] /\ b.keys[j] < z.hi
    <3>1. s + j \in 1..l /\ b.keys[j] = n.keys[s + j] /\ b.pointers[j] = n.keys[s + j] /\ n.keys[s + j] < x.hi
      BY <1>2, <1>6
    <3>2. s + j = s + 1 \/ s + 1 < s + j
      BY <1>0
    <3>3. k <= n.keys[s + j]
      <4> DEFINE e == n.keys[s + j]
      <4>1. k = e \/ k < e
        BY <1>2, <1>7, <3>1, <3>2
      <4>2. k \in Int /\ e \in Int
        BY <1>2, <1>8, <3>1
      <4> HIDE DEF k, e
      <4>3. k <= e
        BY <4>1, <4>2
      <4> QED BY <4>3 DEF e
    <3> QED BY <3>1, <3>3
  <2>2. ASSUME NEW p \in 1..(l - s), NEW q \in 1..(l - s), p < q PROVE b.keys[p] < b.keys[q]
    <3>1. s + p < s + q
      BY <2>2
    <3> QED BY <1>2, <1>6, <3>1
  <2> QED BY <1>6, <2>1, <2>2 DEF LeafBody
<1>11. ASSUME NEW v PROVE HasKey(n, v) <=> (HasKey(a, v) \/ HasKey(b, v))
  <2>1. HasKey(n, v) <=> \E j \in 1..l : n.keys[j] = v
    BY DEF HasKey, l
  <2>2. HasKey(a, v) <=> \E j \in 1..s : a.keys[j] = v
    BY <1>5 DEF HasKey
  <2>3. HasKey(b, v) <=> \E j \in 1..(l - s) : b.keys[j] = v
    BY <1>6 DEF HasKey
  <2>4. \A j \in 1..l : (j \in 1..s /\ a.keys[j] = n.keys[j]) \/ (j - s \in 1..(l - s) /\ b.keys[j - s] = n.keys[j])
    <3>0. SUFFICES ASSUME NEW j \in 1..l PROVE (j \in 1..s /\ a.keys[j] = n.keys[j]) \/ (j - s \in 1..(l - s) /\ b.keys[j - s] = n.keys[j])
      OBVIOUS
    <3>1. CASE j <= s
      BY <1>5, <3>1
    <3>2. CASE ~(j <= s)
      <4>1. j - s \in 1..(l - s) /\ s + (j - s) = j
        BY <1>0, <3>2
      <4> QED BY <1>6, <4>1
    <3> QED BY <3>1, <3>2
  <2>5. \A j \in 1..s : a.keys[j] = n.keys[j] /\ j \in 1..l
    BY <1>5
  <2>6. \A j \in 1..(l - s) : b.keys[j] = n.keys[s + j] /\ s + j \in 1..l
    BY <1>6
  <2>7. HasKey(n, v) => HasKey(a, v) \/ HasKey(b, v)
    BY <2>1, <2>2, <2>3, <2>4
  <2>8. HasKey(a, v) => HasKey(n, v)
    BY <2>1, <2>2, <2>5
  <2>9. HasKey(b, v) => HasKey(n, v)
    BY <2>1, <2>3, <2>6
  <2> QED BY <2>7, <2>8, <2>9
<1> QED BY <1>5, <1>6, <1>8, <1>9, <1>10, <1>11 DEF l, k, LeafParts

\* Half of a leaf went to a new one.
LeafHalved(t, u, n, right, k) ==
  /\ \E h : Halved(u, h, n, right, k)
  /\ u.root = t.root /\ right \notin DOMAIN t.node /\ DOMAIN u.node = DOMAIN t.node \cup {right}
  /\ u.node[n].is_leaf /\ u.node[right].is_leaf /\ u.node[n].parent = t.node[n].parent
  /\ Len(u.node[n].keys) = CUT(order - 1) /\ Len(u.node[right].keys) = order - CUT(order - 1)
  /\ \A v : HasKey(t.node[n], v) <=> (HasKey(u.node[n], v) \/ HasKey(u.node[right], v))
  /\ \A m \in DOMAIN t.node : m # n => u.node[m] = t.node[m]

LEMMA LeafSplit ==
  ASSUME NEW t, NEW g, Shape(t, g), NEW n \in DOMAIN t.node, t.node[n].is_leaf, Len(t.node[n].keys) = order
  PROVE  LeafHalved(t, SplitLeaf(t, n), n, NewNode(t), t.node[n].keys[CUT(order - 1) + 1])
<1> DEFINE D == DOMAIN t.node
           s == CUT(order - 1)
           k == t.node[n].keys[s + 1]
           right == NewNode(t)
           b == [t.node[n] EXCEPT !.keys = SubSeq(@, s + 1, order), !.pointers = SubSeq(@, s + 1, order)]
           a == [t.node[n] EXCEPT !.keys = SubSeq(@, 1, s), !.pointers = SubSeq(@, 1, s), !.next = right]
           u == SplitLeaf(t, n)
           place == [ht |-> g[n].ht, lo |-> k, hi |-> g[n].hi]
           h == [m \in D \cup {right} |-> IF m = right THEN place ELSE g[m]]
           f == Until(h, n, k)
<1>1. /\ Placed(t, g) /\ Heap(t) /\ RootOK(t, g) /\ t.root \in D
      /\ t.node[n] \in NodeType /\ g[n] \in PlaceType /\ LeafBody(t.node[n], g[n]) /\ Link(t, g, n)
      /\ n \in Nat \ {Null} /\ g[n].ht = 0
  BY NodeFields, PlaceFields DEF Shape, Placed, RootOK, Body
<1>2. order \in Nat /\ order >= 3 /\ s \in Nat /\ 1 <= s /\ s < order /\ order - s >= s
  BY Halves
<1>3. right \in Nat \ {Null} /\ right \notin D /\ right # n
  BY <1>1, NewNodeIsNew
<1>4. u = With(With(t, right, b), n, a)
  BY DEF SplitLeaf
<1> HIDE DEF right, s
<1>5. /\ t.node[n].keys \in Seq(Int) /\ t.node[n].pointers \in Seq(Int)
      /\ Len(t.node[n].pointers) = order
  BY <1>1, NodeFields DEF LeafBody
<1>6. /\ a \in NodeType /\ a.is_leaf = t.node[n].is_leaf /\ a.parent = t.node[n].parent /\ a.next = right
      /\ a.keys = SubSeq(t.node[n].keys, 1, s) /\ a.pointers = SubSeq(t.node[n].pointers, 1, s)
  <2>1. SubSeq(t.node[n].keys, 1, s) \in Seq(Int) /\ SubSeq(t.node[n].pointers, 1, s) \in Seq(Int)
    BY <1>2, <1>5, PartOf DEF Part
  <2> QED BY <1>1, <1>3, <2>1 DEF NodeType
<1>7. /\ b \in NodeType /\ b.is_leaf = t.node[n].is_leaf /\ b.parent = t.node[n].parent /\ b.next = t.node[n].next
      /\ b.keys = SubSeq(t.node[n].keys, s + 1, order) /\ b.pointers = SubSeq(t.node[n].pointers, s + 1, order)
  <2>1. s + 1 \in Nat /\ 1 <= s + 1 /\ s + 1 <= order + 1
    BY <1>2
  <2>2. SubSeq(t.node[n].keys, s + 1, order) \in Seq(Int) /\ SubSeq(t.node[n].pointers, s + 1, order) \in Seq(Int)
    BY <1>2, <1>5, <2>1, PartOf DEF Part
  <2> QED BY <1>1, <2>2 DEF NodeType
<1> HIDE DEF a, b, u
<1>8. WroteTwo(u, t, right, b, n, a)
  BY <1>1, <1>3, <1>4, <1>6, <1>7, WithTwo
<1>9. /\ Heap(u) /\ u.root = t.root /\ DOMAIN u.node = D \cup {right} /\ u.node[n] = a /\ u.node[right] = b
      /\ \A m \in D : m # n => u.node[m] = t.node[m]
  <2>1. \A m \in D : m # right
    BY <1>3
  <2> QED BY <1>8, <2>1 DEF WroteTwo
<1>10. k \in Int /\ place \in PlaceType /\ place.lo = k /\ place.hi = g[n].hi /\ place.ht = g[n].ht
  <2>1. k \in Int
    BY <1>2, <1>5
  <2> QED BY <1>1, <2>1 DEF PlaceType
<1>11. /\ Placed(u, h) /\ h[right] = place /\ DOMAIN h = D \cup {right}
       /\ \A m \in D : h[m] = g[m] /\ m # right
  <2>1. \A m \in D : g[m] \in PlaceType
    BY <1>1, PlaceFields
  <2>2. h \in [D \cup {right} -> PlaceType]
    BY <1>10, <2>1
  <2>3. \A m \in D : h[m] = g[m] /\ m # right
    BY <1>3
  <2> QED BY <1>9, <2>2, <2>3 DEF Placed
<1> HIDE DEF h, place
<1>12. /\ Placed(u, f)
       /\ \A m \in D \cup {right} : /\ m # n => f[m] = h[m]
                                    /\ f[m].ht = h[m].ht /\ f[m].lo = h[m].lo
       /\ f[n].hi = k
  <2>1. n \in D \cup {right}
    OBVIOUS
  <2> QED BY <1>9, <1>10, <1>11, <2>1, UntilPlaced
<1> HIDE DEF f, k
<1>13. \A m \in D : u.node[m].is_leaf = t.node[m].is_leaf /\ u.node[m].parent = t.node[m].parent
  BY <1>6, <1>9
<1>14. /\ LeafBody(a, f[n]) /\ LeafBody(b, f[right]) /\ Len(a.keys) = s /\ Len(b.keys) = order - s
       /\ g[n].lo < k /\ k < g[n].hi
       /\ \A v : HasKey(t.node[n], v) <=> (HasKey(a, v) \/ HasKey(b, v))
  <2>1. f[n] \in PlaceType /\ f[right] \in PlaceType
    BY <1>9, <1>12, PlaceFields
  <2>2. f[n].lo = g[n].lo /\ f[n].hi = t.node[n].keys[s + 1]
    BY <1>11, <1>12 DEF k
  <2>3. f[right].lo = t.node[n].keys[s + 1] /\ f[right].hi = g[n].hi
    BY <1>3, <1>10, <1>11, <1>12 DEF k
  <2>4. b.keys = SubSeq(t.node[n].keys, s + 1, Len(t.node[n].keys)) /\ b.pointers = SubSeq(t.node[n].pointers, s + 1, Len(t.node[n].keys))
    BY <1>7
  <2>5. LeafInParts(t.node[n], s, a, b)
    BY <1>6, <2>4 DEF LeafInParts
  <2>6. LeafParts(t.node[n], g[n], s, a, f[n], b, f[right])
    BY <1>1, <1>2, <1>6, <1>7, <2>1, <2>2, <2>3, <2>5, LowerKeys
  <2> QED BY <2>6 DEF k, LeafParts
<1>15. Body(u, f, n)
  <2>1. Link(u, f, n)
    BY <1>3, <1>6, <1>7, <1>9, <1>10, <1>11, <1>12 DEF Link
  <2>2. f[n].lo < f[n].hi /\ f[n].ht = 0
    BY <1>1, <1>11, <1>12, <1>14
  <2> QED BY <1>6, <1>9, <1>14, <2>1, <2>2 DEF Body
<1>16. Body(u, f, right)
  <2>1. f[right] = place
    BY <1>3, <1>11, <1>12
  <2>2. Link(u, f, right)
    <3>1. CASE t.node[n].next = Null
      BY <1>1, <1>7, <1>9, <1>10, <2>1, <3>1 DEF Link
    <3>2. CASE t.node[n].next # Null
      <4> DEFINE m == t.node[n].next
      <4>1. m \in D /\ t.node[m].is_leaf /\ g[m].lo = g[n].hi
        BY <1>1, <3>2 DEF Link
      <4>2. m \in DOMAIN u.node /\ u.node[m].is_leaf /\ f[m].lo = g[n].hi
        BY <1>9, <1>11, <1>12, <1>13, <4>1
      <4> QED BY <1>7, <1>9, <1>10, <2>1, <3>2, <4>2 DEF Link
    <3> QED BY <3>1, <3>2
  <2>3. f[right].lo < f[right].hi /\ f[right].ht = 0
    BY <1>1, <1>10, <1>14, <2>1
  <2> QED BY <1>7, <1>9, <1>14, <2>2, <2>3 DEF Body
<1>17. ASSUME NEW m \in D, m # n PROVE Body(u, h, m)
  <2>1. Body(t, g, m)
    BY DEF Shape
  <2>2. SameContent(u.node[m], t.node[m]) /\ h[m] = g[m]
    BY <1>9, <1>11, <1>17 DEF SameContent
  <2>3. t.node[m].is_leaf => SameLink(t, g, u, h, m)
    BY <1>9, <1>11, <1>13, <2>1 DEF SameLink, Body, Link
  <2>4. ~t.node[m].is_leaf => SameChildren(t, g, u, h, m)
    BY <1>9, <1>11, <1>13, <2>1 DEF SameChildren, Body, Hangs
  <2> QED BY <2>1, <2>2, <2>3, <2>4, SameBody
<1>18. ASSUME NEW m \in D, m # t.root PROVE Under(u, h, m)
  <2>1. IsChild(t, m) /\ g[m].ht < g[t.root].ht
    BY <1>18 DEF Shape, Under
  <2> DEFINE q == t.node[m].parent
  <2>2. q \in D /\ ~t.node[q].is_leaf /\ \E j \in 1..Len(t.node[q].pointers) : t.node[q].pointers[j] = m
    BY <2>1 DEF IsChild
  <2>3. u.node[m].parent = q
    BY <1>13
  <2> HIDE DEF q
  <2>4. q # n
    BY <2>2
  <2>5. IsChild(u, m)
    BY <1>9, <2>2, <2>3, <2>4 DEF IsChild
  <2> QED BY <1>1, <1>9, <1>11, <2>1, <2>5 DEF Under
<1>19. RootOK(u, h)
  BY <1>1, <1>9, <1>11, <1>13 DEF RootOK
<1>20. Halved(u, h, n, right, k)
  <2>1. /\ n \in DOMAIN u.node /\ right \in DOMAIN u.node /\ n # right /\ right # u.root
        /\ h[n].lo < k /\ k < h[n].hi
        /\ h[right].ht = h[n].ht /\ h[right].lo = k /\ h[right].hi = h[n].hi
        /\ u.node[right].parent = u.node[n].parent
    BY <1>1, <1>3, <1>6, <1>7, <1>9, <1>10, <1>11, <1>14
  <2>2. \A m \in DOMAIN u.node : IF m \in {n, right} THEN Body(u, f, m) ELSE Body(u, h, m)
    BY <1>9, <1>15, <1>16, <1>17
  <2>3. \A m \in DOMAIN u.node : m # u.root /\ m # right => Under(u, h, m)
    BY <1>9, <1>18
  <2> QED BY <1>10, <1>11, <1>19, <2>1, <2>2, <2>3 DEF Halved, f
<1>21. LeafHalved(t, u, n, right, k)
  BY <1>3, <1>6, <1>7, <1>9, <1>14, <1>20 DEF LeafHalved, s
<1> QED BY <1>21 DEF u, right, k, s

\* The s-th key of an inner node divides its children.
NodeInParts(n, s, a, b) ==
  /\ a.keys = SubSeq(n.keys, 1, s - 1) /\ b.keys = SubSeq(n.keys, s + 1, Len(n.keys))
  /\ a.pointers = SubSeq(n.pointers, 1, s) /\ b.pointers = SubSeq(n.pointers, s + 1, Len(n.keys) + 1)

FenceParts(n, x, s, a, y, b, z) ==
  /\ Fenced(a, y) /\ Fenced(b, z)
  /\ Len(a.keys) = s - 1 /\ Len(b.keys) = Len(n.keys) - s
  /\ n.keys[s] \in Int /\ x.lo < n.keys[s] /\ n.keys[s] < x.hi
  /\ \A j \in 0..s : Bound(a, y, j) = Bound(n, x, j)
  /\ \A j \in 0..((Len(n.keys) + 1) - s) : Bound(b, z, j) = Bound(n, x, s + j)
  /\ \A j \in 1..s : a.pointers[j] = n.pointers[j]
  /\ \A j \in 1..((Len(n.keys) + 1) - s) : b.pointers[j] = n.pointers[s + j]

LEMMA LowerChildren ==
  ASSUME NEW n \in NodeType, NEW x \in PlaceType, Fenced(n, x), NEW s \in Nat, 1 <= s, s <= Len(n.keys),
         NEW a \in NodeType, NEW b \in NodeType, NodeInParts(n, s, a, b),
         NEW y \in PlaceType, y.lo = x.lo, y.hi = n.keys[s],
         NEW z \in PlaceType, z.lo = n.keys[s], z.hi = x.hi
  PROVE  FenceParts(n, x, s, a, y, b, z)
<1> DEFINE l == Len(n.keys)
           old(j) == Bound(n, x, j)
<1>1. n.keys \in Seq(Int) /\ n.pointers \in Seq(Int) /\ l \in Nat /\ Len(n.pointers) = l + 1 /\ s <= l
  BY DEF NodeType, Fenced
<1>2. \A p, q \in 0..(l + 1) : p < q => old(p) < old(q)
  BY DEF Fenced
<1>3. \A j \in 0..(l + 1) : old(j) \in Int
  BY BoundRange
<1>4. Part(a.keys, n.keys, 1, s - 1) /\ Part(a.pointers, n.pointers, 1, s)
  <2>1. 1 \in Nat /\ s - 1 \in Nat /\ 1 <= 1 /\ 1 <= (s - 1) + 1 /\ s - 1 <= l /\ 1 <= s + 1 /\ s <= l + 1
    <3>1. l \in Nat /\ s <= l
      BY <1>1
    <3> HIDE DEF l
    <3> QED BY <3>1
  <2>2. Part(SubSeq(n.keys, 1, s - 1), n.keys, 1, s - 1)
    BY <1>1, <2>1, PartOf
  <2>3. Part(SubSeq(n.pointers, 1, s), n.pointers, 1, s)
    BY <1>1, <2>1, PartOf
  <2> QED BY <2>2, <2>3 DEF NodeInParts
<1>5. Part(b.keys, n.keys, s + 1, l) /\ Part(b.pointers, n.pointers, s + 1, l + 1)
  <2>1. s + 1 \in Nat /\ 1 <= s + 1 /\ s + 1 <= l + 1 /\ l <= l /\ l + 1 \in Nat /\ s + 1 <= (l + 1) + 1 /\ l + 1 <= l + 1
    <3>1. l \in Nat /\ s <= l
      BY <1>1
    <3> HIDE DEF l
    <3> QED BY <3>1
  <2>2. Part(SubSeq(n.keys, s + 1, l), n.keys, s + 1, l)
    BY <1>1, <2>1, PartOf
  <2>3. Part(SubSeq(n.pointers, s + 1, l + 1), n.pointers, s + 1, l + 1)
    BY <1>1, <2>1, PartOf
  <2> QED BY <2>2, <2>3 DEF NodeInParts
<1>6. old(0) = x.lo /\ old(l + 1) = x.hi /\ \A j \in 1..l : old(j) = n.keys[j]
  <2>1. l + 1 # 0 /\ \A j \in 1..l : j # 0 /\ j # l + 1
    BY <1>1
  <2> QED BY <2>1 DEF Bound
<1> HIDE DEF l
<1>7. /\ Len(a.keys) = s - 1 /\ Len(a.pointers) = s
      /\ \A j \in 1..(s - 1) : a.keys[j] = n.keys[j] /\ j \in 1..l
      /\ \A j \in 1..s : a.pointers[j] = n.pointers[j]
  <2>1. Len(a.keys) = s - 1 /\ Len(a.pointers) = s
    BY <1>4 DEF Part
  <2>2. \A j \in 1..(s - 1) : a.keys[j] = n.keys[(1 + j) - 1]
    <3>1. ((s - 1) - 1) + 1 = s - 1
      OBVIOUS
    <3> QED BY <1>4, <3>1 DEF Part
  <2>3. \A j \in 1..s : a.pointers[j] = n.pointers[(1 + j) - 1]
    <3>1. (s - 1) + 1 = s
      OBVIOUS
    <3> QED BY <1>4, <3>1 DEF Part
  <2>4. \A j \in 1..s : (1 + j) - 1 = j
    OBVIOUS
  <2>5. \A j \in 1..(s - 1) : (1 + j) - 1 = j /\ j \in 1..l
    BY <1>1
  <2> QED BY <2>1, <2>2, <2>3, <2>4, <2>5
<1>8. /\ Len(b.keys) = l - s /\ Len(b.pointers) = (l + 1) - s
      /\ \A j \in 1..(l - s) : b.keys[j] = n.keys[s + j] /\ s + j \in 1..l
      /\ \A j \in 1..((l + 1) - s) : b.pointers[j] = n.pointers[s + j]
  <2>1. (l - (s + 1)) + 1 = l - s /\ ((l + 1) - (s + 1)) + 1 = (l + 1) - s
    BY <1>1
  <2>2. Len(b.keys) = l - s /\ Len(b.pointers) = (l + 1) - s
    BY <1>5, <2>1 DEF Part
  <2>3. \A j \in 1..(l - s) : b.keys[j] = n.keys[((s + 1) + j) - 1]
    BY <1>5, <2>1 DEF Part
  <2>4. \A j \in 1..((l + 1) - s) : b.pointers[j] = n.pointers[((s + 1) + j) - 1]
    BY <1>5, <2>1 DEF Part
  <2>5. \A j \in 1..((l + 1) - s) : ((s + 1) + j) - 1 = s + j
    OBVIOUS
  <2>6. \A j \in 1..(l - s) : ((s + 1) + j) - 1 = s + j /\ s + j \in 1..l
    BY <1>1
  <2> QED BY <2>2, <2>3, <2>4, <2>5, <2>6
<1>9. s \in 1..l /\ s \in 0..(l + 1) /\ 0 \in 0..(l + 1) /\ l + 1 \in 0..(l + 1) /\ 0 < s /\ s < l + 1
  BY <1>1
<1>10. n.keys[s] = old(s) /\ n.keys[s] \in Int /\ x.lo < n.keys[s] /\ n.keys[s] < x.hi
  BY <1>2, <1>3, <1>6, <1>9
<1>11. ASSUME NEW j \in 0..s PROVE Bound(a, y, j) = old(j) /\ j \in 0..(l + 1)
  <2>1. Bound(a, y, j) = IF j = 0 THEN x.lo ELSE IF j = s THEN n.keys[s] ELSE a.keys[j]
    <3>1. Len(a.keys) + 1 = s
      BY <1>7
    <3> QED BY <3>1 DEF Bound
  <2>2. j \in 0..(l + 1)
    BY <1>1
  <2>3. CASE j = 0
    BY <1>6, <2>1, <2>2, <2>3
  <2>4. CASE j = s
    BY <1>9, <1>10, <2>1, <2>2, <2>4
  <2>5. CASE j # 0 /\ j # s
    <3>1. j \in 1..(s - 1)
      BY <2>5
    <3> QED BY <1>6, <1>7, <2>1, <2>2, <2>5, <3>1
  <2> QED BY <2>3, <2>4, <2>5
<1>12. ASSUME NEW j \in 0..((l + 1) - s) PROVE Bound(b, z, j) = old(s + j) /\ s + j \in 0..(l + 1)
  <2>1. Bound(b, z, j) = IF j = 0 THEN n.keys[s] ELSE IF j = (l + 1) - s THEN x.hi ELSE b.keys[j]
    <3>1. Len(b.keys) + 1 = (l + 1) - s
      BY <1>1, <1>8
    <3> QED BY <3>1 DEF Bound
  <2>2. s + j \in 0..(l + 1)
    BY <1>1
  <2>3. CASE j = 0
    <3>1. s + j = s
      BY <2>3
    <3> QED BY <1>10, <2>1, <2>2, <2>3, <3>1
  <2>4. CASE j = (l + 1) - s
    <3>1. s \in Nat /\ l \in Nat /\ s <= l
      BY <1>1
    <3>2. j # 0 /\ s + j = l + 1
      BY <2>4, <3>1
    <3> QED BY <1>6, <2>1, <2>2, <2>4, <3>2
  <2>5. CASE j # 0 /\ j # (l + 1) - s
    <3>1. j \in Nat /\ j <= (l + 1) - s /\ s \in Nat /\ l \in Nat
      BY <1>1
    <3> HIDE DEF l
    <3>2. j \in 1..(l - s)
      BY <2>5, <3>1
    <3> QED BY <1>6, <1>8, <2>1, <2>2, <2>5, <3>2
  <2> QED BY <2>3, <2>4, <2>5
<1> HIDE DEF old
<1>13. Fenced(a, y)
  <2>1. Len(a.keys) + 1 = s /\ Len(a.pointers) = Len(a.keys) + 1
    BY <1>7
  <2>2. ASSUME NEW p \in 0..s, NEW q \in 0..s, p < q PROVE Bound(a, y, p) < Bound(a, y, q)
    BY <1>2, <1>11, <2>2
  <2> QED BY <2>1, <2>2 DEF Fenced
<1>14. Fenced(b, z)
  <2>1. Len(b.keys) + 1 = (l + 1) - s /\ Len(b.pointers) = Len(b.keys) + 1
    <3>1. Len(b.keys) = l - s /\ Len(b.pointers) = (l + 1) - s /\ l \in Nat /\ s \in Nat
      BY <1>1, <1>8
    <3> HIDE DEF l
    <3> QED BY <3>1
  <2>2. ASSUME NEW p \in 0..((l + 1) - s), NEW q \in 0..((l + 1) - s), p < q PROVE Bound(b, z, p) < Bound(b, z, q)
    <3>1. s + p < s + q
      BY <2>2
    <3> QED BY <1>2, <1>12, <3>1
  <2> QED BY <2>1, <2>2 DEF Fenced
<1> QED BY <1>7, <1>8, <1>10, <1>11, <1>12, <1>13, <1>14 DEF FenceParts, l, old

\* Half of an inner node went to a new one.
NodeHalved(t, u, n, right, k) ==
  /\ \E h : Halved(u, h, n, right, k)
  /\ u.root = t.root /\ right \notin DOMAIN t.node /\ DOMAIN u.node = DOMAIN t.node \cup {right}
  /\ ~u.node[n].is_leaf /\ ~u.node[right].is_leaf /\ u.node[n].parent = t.node[n].parent
  /\ Len(u.node[n].keys) = CUT(order) - 1 /\ Len(u.node[right].keys) = order - CUT(order)
  /\ \A m \in DOMAIN t.node : m # n => SameContent(u.node[m], t.node[m])

LEMMA NodeSplit ==
  ASSUME NEW t, NEW g, Shape(t, g), NEW n \in DOMAIN t.node, ~t.node[n].is_leaf, Len(t.node[n].keys) = order
  PROVE  NodeHalved(t, SplitNode(t, n), n, NewNode(t), t.node[n].keys[CUT(order)])
<1> DEFINE D == DOMAIN t.node
           s == CUT(order)
           k == t.node[n].keys[s]
           right == NewNode(t)
           moved == SubSeq(t.node[n].pointers, s + 1, order + 1)
           b == [t.node[n] EXCEPT !.keys = SubSeq(@, s + 1, order), !.pointers = moved]
           a == [t.node[n] EXCEPT !.keys = SubSeq(@, 1, s - 1), !.pointers = SubSeq(@, 1, s)]
           w == With(With(t, right, b), n, a)
           u == SplitNode(t, n)
           place == [ht |-> g[n].ht, lo |-> k, hi |-> g[n].hi]
           h == [m \in D \cup {right} |-> IF m = right THEN place ELSE g[m]]
           f == Until(h, n, k)
           c(j) == t.node[n].pointers[j]
           old(j) == Bound(t.node[n], g[n], j)
<1>1. /\ Placed(t, g) /\ Heap(t) /\ RootOK(t, g) /\ t.root \in D
      /\ t.node[n] \in NodeType /\ g[n] \in PlaceType /\ Fenced(t.node[n], g[n])
      /\ n \in Nat \ {Null} /\ g[n].ht # 0
  BY NodeFields, PlaceFields DEF Shape, Placed, RootOK, Body
<1>2. order \in Nat /\ order >= 3 /\ s \in Nat /\ 2 <= s /\ s < order /\ order - s >= s - 1
  BY Halves
<1>3. right \in Nat \ {Null} /\ right \notin D /\ right # n
  BY <1>1, NewNodeIsNew
<1>4. u = Adopt(w, right, ToSet(moved))
  BY DEF SplitNode
<1> HIDE DEF right, s
<1>5. /\ t.node[n].keys \in Seq(Int) /\ t.node[n].pointers \in Seq(Int)
      /\ Len(t.node[n].pointers) = order + 1
  BY <1>1, NodeFields DEF Fenced
<1>6. /\ a \in NodeType /\ a.is_leaf = t.node[n].is_leaf /\ a.parent = t.node[n].parent /\ a.next = t.node[n].next
      /\ a.keys = SubSeq(t.node[n].keys, 1, s - 1) /\ a.pointers = SubSeq(t.node[n].pointers, 1, s)
  <2>1. 1 \in Nat /\ s - 1 \in Nat /\ 1 <= 1 /\ 1 <= (s - 1) + 1 /\ s - 1 <= order /\ 1 <= s + 1 /\ s <= order + 1
    BY <1>2
  <2>2. SubSeq(t.node[n].keys, 1, s - 1) \in Seq(Int) /\ SubSeq(t.node[n].pointers, 1, s) \in Seq(Int)
    BY <1>2, <1>5, <2>1, PartOf DEF Part
  <2> QED BY <1>1, <2>2 DEF NodeType
<1>7. /\ moved \in Seq(Int) /\ Len(moved) = (order + 1) - s /\ \A j \in 1..((order + 1) - s) : moved[j] = c(s + j)
  <2>1. s + 1 \in Nat /\ order + 1 \in Nat /\ 1 <= s + 1 /\ s + 1 <= (order + 1) + 1
    BY <1>2
  <2>2. Part(moved, t.node[n].pointers, s + 1, order + 1)
    BY <1>2, <1>5, <2>1, PartOf
  <2>3. ((order + 1) - (s + 1)) + 1 = (order + 1) - s /\ \A j \in 1..((order + 1) - s) : ((s + 1) + j) - 1 = s + j
    BY <1>2
  <2> HIDE DEF moved
  <2> QED BY <2>2, <2>3 DEF Part
<1>8. /\ b \in NodeType /\ b.is_leaf = t.node[n].is_leaf /\ b.parent = t.node[n].parent /\ b.next = t.node[n].next
      /\ b.keys = SubSeq(t.node[n].keys, s + 1, order) /\ b.pointers = moved
  <2>1. s + 1 \in Nat /\ 1 <= s + 1 /\ s + 1 <= order + 1
    BY <1>2
  <2>2. Part(SubSeq(t.node[n].keys, s + 1, order), t.node[n].keys, s + 1, order)
    <3>1. Len(t.node[n].keys) = order
      OBVIOUS
    <3> QED BY <1>2, <1>5, <2>1, <3>1, PartOf
  <2>3. SubSeq(t.node[n].keys, s + 1, order) \in Seq(Int)
    BY <2>2 DEF Part
  <2> HIDE DEF moved
  <2> QED BY <1>1, <1>7, <2>3 DEF NodeType
<1>9. b.pointers = SubSeq(t.node[n].pointers, s + 1, order + 1)
  BY <1>8
<1> HIDE DEF a, b, u, moved
<1>10. WroteTwo(w, t, right, b, n, a)
  BY <1>1, <1>3, <1>6, <1>8, WithTwo
<1> HIDE DEF w
<1>11. Adopted(u, w, right, ToSet(moved))
  BY <1>3, <1>4, <1>10, AdoptNodes DEF WroteTwo
<1>12. ASSUME NEW j \in 1..(order + 1)
       PROVE  /\ c(j) \in D /\ t.node[c(j)].parent = n /\ g[n].ht = g[c(j)].ht + 1
              /\ g[c(j)].lo = old(j - 1) /\ g[c(j)].hi = old(j) /\ c(j) # n /\ c(j) # right
  <2>1. /\ c(j) \in D /\ t.node[c(j)].parent = n /\ g[n].ht = g[c(j)].ht + 1
        /\ g[c(j)].lo = old(j - 1) /\ g[c(j)].hi = old(j)
    BY <1>5, Children
  <2>2. g[c(j)].ht \in Nat
    BY <1>1, <2>1, PlaceFields
  <2>3. c(j) # n
    BY <2>1, <2>2
  <2>4. c(j) # right
    BY <1>3, <2>1
  <2> QED BY <2>1, <2>3, <2>4
<1>13. \A m : m \in ToSet(moved) <=> \E j \in (s + 1)..(order + 1) : m = c(j)
  <2>1. \A m : m \in ToSet(moved) <=> \E j \in 1..((order + 1) - s) : m = moved[j]
    <3>1. DOMAIN moved = 1..((order + 1) - s)
      BY <1>7
    <3> QED BY <3>1 DEF ToSet
  <2>2. \A j \in (s + 1)..(order + 1) : j - s \in 1..((order + 1) - s) /\ s + (j - s) = j
    BY <1>2
  <2>3. \A j \in 1..((order + 1) - s) : s + j \in (s + 1)..(order + 1)
    BY <1>2
  <2>4. ASSUME NEW m, m \in ToSet(moved) PROVE \E j \in (s + 1)..(order + 1) : m = c(j)
    <3>1. PICK j \in 1..((order + 1) - s) : m = moved[j]
      BY <2>1, <2>4
    <3> QED BY <1>7, <2>3, <3>1
  <2>5. ASSUME NEW m, NEW j \in (s + 1)..(order + 1), m = c(j) PROVE m \in ToSet(moved)
    <3>1. moved[j - s] = c(j)
      BY <1>7, <2>2
    <3> QED BY <2>1, <2>2, <2>5, <3>1
  <2> HIDE DEF c
  <2> QED BY <2>4, <2>5
<1>14. \A m \in ToSet(moved) : m \in D /\ m # n /\ m # right /\ t.node[m].parent = n
  <2>1. \A j \in (s + 1)..(order + 1) : j \in 1..(order + 1)
    BY <1>2
  <2> QED BY <1>12, <1>13, <2>1
<1>15. \A j \in 1..s : c(j) \notin ToSet(moved) /\ j \in 1..(order + 1)
  <2>1. ASSUME NEW j \in 1..s PROVE j \in 1..(order + 1)
    BY <1>2
  <2>2. ASSUME NEW j \in 1..s, NEW i \in (s + 1)..(order + 1), c(j) = c(i) PROVE FALSE
    <3>1. i \in 1..(order + 1) /\ i # j
      BY <1>2
    <3>2. Body(t, g, n)
      BY DEF Shape
    <3> QED BY <1>1, <1>5, <2>1, <2>2, <3>1, <3>2, DistinctChildren
  <2> QED BY <1>13, <2>1, <2>2
<1>16. /\ Heap(u) /\ u.root = t.root /\ DOMAIN u.node = D \cup {right} /\ u.node[n] = a /\ u.node[right] = b
       /\ \A m \in D : m # n => u.node[m] = IF m \in ToSet(moved) THEN [t.node[m] EXCEPT !.parent = right] ELSE t.node[m]
  <2>1. /\ Heap(w) /\ w.root = t.root /\ DOMAIN w.node = D \cup {right} /\ w.node[n] = a /\ w.node[right] = b
        /\ \A m \in D : m # n => w.node[m] = t.node[m]
    <3>1. \A m \in D : m # right
      BY <1>3
    <3> QED BY <1>10, <3>1 DEF WroteTwo
  <2>2. /\ Heap(u) /\ u.root = w.root /\ DOMAIN u.node = DOMAIN w.node
        /\ \A m \in DOMAIN w.node : u.node[m] = IF m \in ToSet(moved) THEN [w.node[m] EXCEPT !.parent = right] ELSE w.node[m]
    BY <1>11 DEF Adopted
  <2>3. n \notin ToSet(moved) /\ right \notin ToSet(moved)
    BY <1>14
  <2> QED BY <2>1, <2>2, <2>3
<1>17. ASSUME NEW m \in D, m # n
       PROVE  /\ SameContent(u.node[m], t.node[m])
              /\ u.node[m].parent = IF m \in ToSet(moved) THEN right ELSE t.node[m].parent
  <2>1. t.node[m] \in NodeType
    BY <1>1, NodeFields
  <2>2. CASE m \in ToSet(moved)
    <3>1. u.node[m] = [t.node[m] EXCEPT !.parent = right]
      BY <1>16, <1>17, <2>2
    <3> QED BY <2>1, <2>2, <3>1 DEF SameContent, NodeType
  <2>3. CASE m \notin ToSet(moved)
    <3>1. u.node[m] = t.node[m]
      BY <1>16, <1>17, <2>3
    <3> QED BY <2>3, <3>1 DEF SameContent
  <2> QED BY <2>2, <2>3
<1>18. k \in Int /\ place \in PlaceType /\ place.lo = k /\ place.hi = g[n].hi /\ place.ht = g[n].ht
  <2>1. k \in Int
    BY <1>2, <1>5
  <2> QED BY <1>1, <2>1 DEF PlaceType
<1>19. /\ Placed(u, h) /\ h[right] = place /\ DOMAIN h = D \cup {right}
       /\ \A m \in D : h[m] = g[m] /\ m # right
  <2>1. \A m \in D : g[m] \in PlaceType
    BY <1>1, PlaceFields
  <2>2. h \in [D \cup {right} -> PlaceType]
    BY <1>18, <2>1
  <2>3. \A m \in D : h[m] = g[m] /\ m # right
    BY <1>3
  <2> QED BY <1>16, <2>2, <2>3 DEF Placed
<1> HIDE DEF h, place
<1>20. /\ Placed(u, f)
       /\ \A m \in D \cup {right} : /\ m # n => f[m] = h[m]
                                    /\ f[m].ht = h[m].ht /\ f[m].lo = h[m].lo
       /\ f[n].hi = k
  <2>1. n \in D \cup {right}
    OBVIOUS
  <2> QED BY <1>16, <1>18, <1>19, <2>1, UntilPlaced
<1> HIDE DEF f, k
<1>21. FenceParts(t.node[n], g[n], s, a, f[n], b, f[right])
  <2>1. f[n] \in PlaceType /\ f[right] \in PlaceType
    BY <1>16, <1>20, PlaceFields
  <2>2. f[n].lo = g[n].lo /\ f[n].hi = t.node[n].keys[s]
    BY <1>19, <1>20 DEF k
  <2>3. f[right].lo = t.node[n].keys[s] /\ f[right].hi = g[n].hi
    BY <1>3, <1>18, <1>19, <1>20 DEF k
  <2>4. /\ b.keys = SubSeq(t.node[n].keys, s + 1, Len(t.node[n].keys))
        /\ b.pointers = SubSeq(t.node[n].pointers, s + 1, Len(t.node[n].keys) + 1)
    BY <1>8, <1>9
  <2>5. 1 <= s /\ s <= Len(t.node[n].keys)
    BY <1>2
  <2>6. NodeInParts(t.node[n], s, a, b)
    BY <1>6, <2>4 DEF NodeInParts
  <2> QED BY <1>1, <1>2, <1>6, <1>8, <2>1, <2>2, <2>3, <2>5, <2>6, LowerChildren
<1>22. /\ Fenced(a, f[n]) /\ Fenced(b, f[right]) /\ Len(a.keys) = s - 1 /\ Len(b.keys) = order - s
       /\ g[n].lo < k /\ k < g[n].hi
       /\ \A j \in 0..s : Bound(a, f[n], j) = old(j)
       /\ \A j \in 0..((order + 1) - s) : Bound(b, f[right], j) = old(s + j)
       /\ \A j \in 1..s : a.pointers[j] = c(j)
       /\ \A j \in 1..((order + 1) - s) : b.pointers[j] = c(s + j)
  BY <1>21 DEF FenceParts, k
<1>23. /\ \A j \in 1..s : j \in 0..s /\ j - 1 \in 0..s
       /\ \A j \in 1..((order + 1) - s) : /\ j \in 0..((order + 1) - s) /\ j - 1 \in 0..((order + 1) - s)
                                          /\ s + j \in 1..(order + 1) /\ s + j \in (s + 1)..(order + 1)
                                          /\ s + (j - 1) = (s + j) - 1
  <2>1. ASSUME NEW j \in 1..s PROVE j \in 0..s /\ j - 1 \in 0..s
    BY <1>2
  <2>2. ASSUME NEW j \in 1..((order + 1) - s)
        PROVE  /\ j \in 0..((order + 1) - s) /\ j - 1 \in 0..((order + 1) - s)
               /\ s + j \in 1..(order + 1) /\ s + j \in (s + 1)..(order + 1)
               /\ s + (j - 1) = (s + j) - 1
    BY <1>2
  <2> QED BY <2>1, <2>2
<1>24. f[n].ht = g[n].ht /\ f[right] = place /\ \A j \in 1..(order + 1) : f[c(j)] = g[c(j)]
  BY <1>3, <1>12, <1>19, <1>20
<1> HIDE DEF c, old
<1>25. Body(u, f, n)
  <2>1. ASSUME NEW j \in 1..Len(a.pointers) PROVE Hangs(u, f, n, j)
    <3>1. j \in 1..s
      <4>1. Len(a.pointers) = s
        BY <1>2, <1>22 DEF Fenced
      <4> QED BY <4>1
    <3>2. a.pointers[j] = c(j) /\ c(j) \notin ToSet(moved) /\ j \in 1..(order + 1)
      BY <1>15, <1>22, <3>1
    <3>3. u.node[c(j)].parent = n /\ c(j) \in DOMAIN u.node
      BY <1>12, <1>16, <1>17, <3>2
    <3>4. Bound(a, f[n], j) = old(j) /\ Bound(a, f[n], j - 1) = old(j - 1)
      BY <1>22, <1>23, <3>1
    <3> QED BY <1>12, <1>16, <1>24, <3>2, <3>3, <3>4 DEF Hangs
  <2>2. f[n].lo < f[n].hi /\ f[n].ht # 0 /\ ~a.is_leaf
    BY <1>1, <1>6, <1>19, <1>20, <1>22, <1>24
  <2> QED BY <1>16, <1>22, <2>1, <2>2 DEF Body
<1>26. Body(u, f, right)
  <2>1. ASSUME NEW j \in 1..Len(b.pointers) PROVE Hangs(u, f, right, j)
    <3>1. j \in 1..((order + 1) - s)
      <4>1. Len(b.pointers) = (order + 1) - s
        BY <1>7, <1>8
      <4> QED BY <4>1
    <3> DEFINE i == s + j
    <3>2. i \in 1..(order + 1) /\ i \in (s + 1)..(order + 1) /\ s + (j - 1) = i - 1
      BY <1>23, <3>1
    <3>3. b.pointers[j] = c(i)
      BY <1>22, <3>1
    <3>4. Bound(b, f[right], j) = old(i) /\ Bound(b, f[right], j - 1) = old(s + (j - 1))
      BY <1>22, <1>23, <3>1
    <3> HIDE DEF i
    <3>5. c(i) \in ToSet(moved)
      BY <1>13, <3>2
    <3>6. u.node[c(i)].parent = right /\ c(i) \in DOMAIN u.node
      BY <1>12, <1>16, <1>17, <3>2, <3>5
    <3>7. f[right].ht = f[c(i)].ht + 1
      BY <1>12, <1>18, <1>24, <3>2
    <3> QED BY <1>12, <1>16, <1>24, <3>2, <3>3, <3>4, <3>6, <3>7 DEF Hangs
  <2>2. f[right].lo < f[right].hi /\ f[right].ht # 0 /\ ~b.is_leaf
    BY <1>1, <1>8, <1>18, <1>22, <1>24
  <2> QED BY <1>16, <1>22, <2>1, <2>2 DEF Body
<1>27. ASSUME NEW m \in D, m # n PROVE Body(u, h, m)
  <2>1. Body(t, g, m)
    BY DEF Shape
  <2>2. SameContent(u.node[m], t.node[m]) /\ h[m] = g[m]
    BY <1>17, <1>19, <1>27
  <2>3. t.node[m].is_leaf => SameLink(t, g, u, h, m)
    <3>1. SUFFICES ASSUME t.node[m].is_leaf, t.node[m].next # Null
                   PROVE  LET e == t.node[m].next
                          IN  e \in DOMAIN u.node /\ u.node[e].is_leaf /\ h[e].lo = g[e].lo
      BY DEF SameLink
    <3> DEFINE e == t.node[m].next
    <3>2. e \in D /\ t.node[e].is_leaf /\ e # n
      BY <2>1, <3>1 DEF Body, Link
    <3> HIDE DEF e
    <3>3. e \in DOMAIN u.node /\ u.node[e].is_leaf /\ h[e].lo = g[e].lo
      BY <1>16, <1>17, <1>19, <3>2 DEF SameContent
    <3> QED BY <3>3 DEF e
  <2>4. ~t.node[m].is_leaf => SameChildren(t, g, u, h, m)
    <3>1. SUFFICES ASSUME ~t.node[m].is_leaf, NEW j \in 1..Len(t.node[m].pointers)
                   PROVE  LET e == t.node[m].pointers[j]
                          IN  e \in DOMAIN u.node /\ u.node[e].parent = m /\ h[e] = g[e]
      BY DEF SameChildren
    <3> DEFINE e == t.node[m].pointers[j]
    <3>2. e \in D /\ t.node[e].parent = m
      BY <2>1, <3>1 DEF Body, Hangs
    <3> HIDE DEF e
    <3>3. e \notin ToSet(moved)
      BY <1>14, <1>27, <3>2
    <3>4. u.node[e].parent = m
      BY <1>6, <1>16, <1>17, <3>2, <3>3
    <3>5. e \in DOMAIN u.node /\ u.node[e].parent = m /\ h[e] = g[e]
      BY <1>16, <1>19, <3>2, <3>4
    <3> QED BY <3>5 DEF e
  <2> QED BY <2>1, <2>2, <2>3, <2>4, SameBody
<1>28. ASSUME NEW m \in D, m # t.root PROVE Under(u, h, m)
  <2>1. IsChild(t, m) /\ g[m].ht < g[t.root].ht
    BY <1>28 DEF Shape, Under
  <2> DEFINE q == t.node[m].parent
  <2>2. q \in D /\ ~t.node[q].is_leaf /\ \E j \in 1..Len(t.node[q].pointers) : t.node[q].pointers[j] = m
    BY <2>1 DEF IsChild
  <2>3. m \notin ToSet(moved) => u.node[m].parent = q
    BY <1>6, <1>16, <1>17
  <2> HIDE DEF q
  <2>4. IsChild(u, m)
    <3>1. CASE q # n
      <4>1. m \notin ToSet(moved)
        BY <1>14, <3>1 DEF q
      <4>2. q \in DOMAIN u.node /\ ~u.node[q].is_leaf /\ u.node[q].pointers = t.node[q].pointers
        BY <1>16, <1>17, <2>2, <3>1 DEF SameContent
      <4> QED BY <2>2, <2>3, <4>1, <4>2 DEF IsChild
    <3>2. CASE q = n
      <4>1. PICK j \in 1..(order + 1) : c(j) = m
        BY <1>5, <2>2, <3>2 DEF c
      <4>2. m # n
        BY <1>12, <4>1
      <4>3. CASE j <= s
        <5>1. j \in 1..s
          BY <4>3
        <5>2. m \notin ToSet(moved) /\ a.pointers[j] = m
          BY <1>15, <1>22, <4>1, <5>1
        <5>3. Len(a.pointers) = s
          BY <1>2, <1>22 DEF Fenced
        <5> QED BY <1>6, <1>16, <2>2, <2>3, <3>2, <5>1, <5>2, <5>3 DEF IsChild
      <4>4. CASE ~(j <= s)
        <5>1. j \in (s + 1)..(order + 1) /\ j - s \in 1..((order + 1) - s) /\ s + (j - s) = j
          BY <1>2, <4>4
        <5>2. m \in ToSet(moved)
          BY <1>13, <4>1, <5>1
        <5>3. b.pointers[j - s] = m
          BY <1>22, <4>1, <5>1
        <5>4. u.node[m].parent = right
          BY <1>17, <4>2, <5>2
        <5>5. Len(b.pointers) = (order + 1) - s
          BY <1>7, <1>8
        <5>6. right \in DOMAIN u.node /\ ~u.node[right].is_leaf
          BY <1>8, <1>16
        <5> QED BY <1>16, <5>1, <5>3, <5>4, <5>5, <5>6 DEF IsChild
      <4> QED BY <4>3, <4>4
    <3> QED BY <3>1, <3>2
  <2> QED BY <1>1, <1>16, <1>19, <2>1, <2>4 DEF Under
<1>29. RootOK(u, h)
  <2>1. t.root \notin ToSet(moved)
    BY <1>1, <1>14 DEF RootOK
  <2>2. u.node[t.root].parent = Null
    BY <1>1, <1>6, <1>16, <1>17, <2>1 DEF RootOK
  <2> QED BY <1>1, <1>16, <1>19, <2>2 DEF RootOK
<1>30. Halved(u, h, n, right, k)
  <2>1. /\ n \in DOMAIN u.node /\ right \in DOMAIN u.node /\ n # right /\ right # u.root
        /\ h[n].lo < k /\ k < h[n].hi
        /\ h[right].ht = h[n].ht /\ h[right].lo = k /\ h[right].hi = h[n].hi
        /\ u.node[right].parent = u.node[n].parent
    BY <1>1, <1>3, <1>6, <1>8, <1>16, <1>18, <1>19, <1>22
  <2>2. \A m \in DOMAIN u.node : IF m \in {n, right} THEN Body(u, f, m) ELSE Body(u, h, m)
    BY <1>16, <1>25, <1>26, <1>27
  <2>3. \A m \in DOMAIN u.node : m # u.root /\ m # right => Under(u, h, m)
    BY <1>16, <1>28
  <2> QED BY <1>18, <1>19, <1>29, <2>1, <2>2, <2>3 DEF Halved, f
<1>31. NodeHalved(t, u, n, right, k)
  <2>1. ~u.node[n].is_leaf /\ ~u.node[right].is_leaf /\ u.node[n].parent = t.node[n].parent
    BY <1>6, <1>8, <1>16
  <2>2. Len(u.node[n].keys) = CUT(order) - 1 /\ Len(u.node[right].keys) = order - CUT(order)
    BY <1>16, <1>22 DEF s
  <2> QED BY <1>3, <1>16, <1>17, <1>30, <2>1, <2>2 DEF NodeHalved
<1> QED BY <1>31 DEF u, right, k, s

-----------------------------------------------------------------------------
(* Merging two neighbours.                                                 *)

\* A key and the child after it taken out join the ranges they divided.
FenceOut(r, n, x, i) ==
  /\ r \in NodeType /\ r.is_leaf = n.is_leaf /\ r.parent = n.parent /\ r.next = n.next
  /\ Fenced(r, x) /\ Len(r.keys) = Len(n.keys) - 1
  /\ \A j \in 0..Len(n.keys) : Bound(r, x, j) = IF j < i THEN Bound(n, x, j) ELSE Bound(n, x, j + 1)
  /\ \A j \in 1..Len(n.keys) : r.pointers[j] = IF j <= i THEN n.pointers[j] ELSE n.pointers[j + 1]

LEMMA FenceRemoved ==
  ASSUME NEW n \in NodeType, NEW x \in PlaceType, Fenced(n, x), NEW i \in 1..Len(n.keys)
  PROVE  FenceOut([n EXCEPT !.keys = RemoveAt(@, i), !.pointers = RemoveAt(@, i + 1)], n, x, i)
<1> DEFINE s == n.keys
           l == Len(s)
           a == RemoveAt(s, i)
           b == RemoveAt(n.pointers, i + 1)
           r == [n EXCEPT !.keys = a, !.pointers = b]
<1>1. s \in Seq(Int) /\ n.pointers \in Seq(Int) /\ l \in Nat /\ Len(n.pointers) = l + 1
      /\ x.lo \in Int /\ x.hi \in Int
  BY DEF NodeType, PlaceType, Fenced
<1>2. Removed(a, s, i)
  BY RemovedAt, <1>1
<1>3. Removed(b, n.pointers, i + 1)
  <2>1. i + 1 \in 1..Len(n.pointers)
    BY <1>1
  <2> QED BY <1>1, <2>1, RemovedAt
<1> HIDE DEF a, b
<1>4. /\ a \in Seq(Int) /\ Len(a) = l - 1
      /\ \A j \in 1..(l - 1) : a[j] = IF j < i THEN s[j] ELSE s[j + 1]
  BY <1>2 DEF Removed
<1>5. /\ b \in Seq(Int) /\ Len(b) = l
      /\ \A j \in 1..l : b[j] = IF j <= i THEN n.pointers[j] ELSE n.pointers[j + 1]
  <2>1. \A j \in 1..(Len(n.pointers) - 1) : b[j] = IF j < i + 1 THEN n.pointers[j] ELSE n.pointers[j + 1]
    BY <1>3 DEF Removed
  <2>2. b \in Seq(Int) /\ Len(b) = Len(n.pointers) - 1
    BY <1>3 DEF Removed
  <2>3. Len(n.pointers) - 1 = l
    BY <1>1
  <2>4. \A j \in 1..l : j < i + 1 <=> j <= i
    <3> HIDE DEF l
    <3> QED OBVIOUS
  <2> QED BY <2>1, <2>2, <2>3, <2>4
<1>6. r \in NodeType /\ r.keys = a /\ r.pointers = b /\ r.is_leaf = n.is_leaf /\ r.parent = n.parent /\ r.next = n.next
  BY <1>4, <1>5 DEF NodeType
<1> HIDE DEF r
<1> DEFINE old(j) == Bound(n, x, j)
           new(j) == Bound(r, x, j)
<1>7. ASSUME NEW j \in 0..l
      PROVE  new(j) = IF j < i THEN old(j) ELSE old(j + 1)
  <2>1. new(j) = IF j = 0 THEN x.lo ELSE IF j = l THEN x.hi ELSE a[j]
    <3>1. r.keys = a /\ Len(r.keys) + 1 = l
      <4> HIDE DEF l
      <4> QED BY <1>1, <1>4, <1>6
    <3> QED BY <3>1 DEF Bound
  <2>2. i \in 1..l
    OBVIOUS
  <2>3. CASE j = 0
    <3>1. j < i /\ old(j) = x.lo
      BY <2>2, <2>3 DEF Bound
    <3> QED BY <2>1, <2>3, <3>1
  <2>4. CASE j = l
    <3>1. ~(j < i) /\ j # 0 /\ l + 1 # 0
      <4>1. l \in Nat
        BY <1>1
      <4> HIDE DEF l
      <4> QED BY <4>1, <2>2, <2>4
    <3>2. old(j + 1) = x.hi
      BY <2>4, <3>1 DEF Bound
    <3> QED BY <2>1, <2>4, <3>1, <3>2
  <2>5. CASE j # 0 /\ j # l
    <3>1. j \in 1..(l - 1)
      <4> HIDE DEF l
      <4> QED BY <1>1, <2>5
    <3>2. new(j) = IF j < i THEN s[j] ELSE s[j + 1]
      BY <1>4, <2>1, <2>5, <3>1
    <3>3. old(j) = s[j] /\ old(j + 1) = s[j + 1]
      <4>1. j # 0 /\ j # l + 1 /\ j + 1 # 0 /\ j + 1 # l + 1
        <5> HIDE DEF l
        <5> QED BY <1>1, <3>1
      <4> QED BY <4>1 DEF Bound
    <3> HIDE DEF old, new
    <3> QED BY <3>2, <3>3
  <2> QED BY <2>3, <2>4, <2>5
<1>8. \A p, q \in 0..(l + 1) : p < q => old(p) < old(q)
  BY DEF Fenced
<1> HIDE DEF old, new
<1> DEFINE from(j) == IF j < i THEN j ELSE j + 1
<1>9. ASSUME NEW p \in 0..l, NEW q \in 0..l, p < q PROVE new(p) < new(q)
  <2>1. from(p) \in 0..(l + 1) /\ from(q) \in 0..(l + 1) /\ from(p) < from(q)
    <3> HIDE DEF l
    <3> QED BY <1>1, <1>9
  <2>2. new(p) = old(from(p)) /\ new(q) = old(from(q))
    BY <1>7
  <2> HIDE DEF from
  <2> QED BY <1>8, <2>1, <2>2
<1>10. Fenced(r, x)
  <2>1. \A p, q \in 0..(Len(r.keys) + 1) : p < q => Bound(r, x, p) < Bound(r, x, q)
    <3>1. Len(r.keys) + 1 = l
      <4> HIDE DEF l
      <4> QED BY <1>1, <1>4, <1>6
    <3> QED BY <1>9, <3>1 DEF new
  <2>2. Len(r.pointers) = Len(r.keys) + 1
    <3> HIDE DEF l
    <3> QED BY <1>1, <1>4, <1>5, <1>6
  <2> QED BY <2>1, <2>2 DEF Fenced
<1>11. Len(r.keys) = Len(n.keys) - 1
  BY <1>4, <1>6
<1>12. FenceOut(r, n, x, i)
  BY <1>5, <1>6, <1>7, <1>10, <1>11 DEF FenceOut, old, new
<1> QED BY <1>12 DEF r, a, b

\* The key before a child, and the child, are found where they are.
LEMMA EntryFound ==
  ASSUME NEW t, NEW g, Shape(t, g), NEW p \in DOMAIN t.node, ~t.node[p].is_leaf,
         NEW i \in 1..Len(t.node[p].keys)
  PROVE  /\ Position(t.node[p].keys, t.node[p].keys[i]) = i
         /\ i \in 1..Len(t.node[p].pointers) /\ Position(t.node[p].pointers, t.node[p].pointers[i]) = i
         /\ i + 1 \in 1..Len(t.node[p].pointers) /\ Position(t.node[p].pointers, t.node[p].pointers[i + 1]) = i + 1
         /\ t.node[p].keys[i] = Bound(t.node[p], g[p], i) /\ t.node[p].keys[i] \in Int
<1>1. /\ t.node[p] \in NodeType /\ t.node[p].keys \in Seq(Int) /\ t.node[p].pointers \in Seq(Int)
      /\ g[p] \in PlaceType /\ Placed(t, g) /\ Body(t, g, p)
      /\ Len(t.node[p].keys) \in Nat /\ Len(t.node[p].pointers) = Len(t.node[p].keys) + 1 /\ Fenced(t.node[p], g[p])
  BY HasChildren, NodeFields, PlaceFields DEF Shape, Placed
<1> DEFINE l == Len(t.node[p].keys)
           b(j) == Bound(t.node[p], g[p], j)
<1>2. \A j \in 1..l : t.node[p].keys[j] = b(j) /\ j \in 0..(l + 1)
  <2>1. l \in Nat
    BY <1>1
  <2>2. \A j \in 1..l : j # 0 /\ j # l + 1 /\ j \in 0..(l + 1)
    <3> HIDE DEF l
    <3> QED BY <2>1
  <2> QED BY <2>2 DEF Bound
<1>3. \A x, y \in 0..(l + 1) : x < y => b(x) < b(y)
  BY <1>1 DEF Fenced
<1>4. \A j \in 0..(l + 1) : b(j) \in Int
  BY <1>1, BoundRange
<1> HIDE DEF b
<1>5. \A j \in 1..l : t.node[p].keys[j] = t.node[p].keys[i] => j = i
  <2>1. SUFFICES ASSUME NEW j \in 1..l, j # i, t.node[p].keys[j] = t.node[p].keys[i] PROVE FALSE
    OBVIOUS
  <2>2. j < i \/ i < j
    BY <2>1
  <2>3. b(j) < b(i) \/ b(i) < b(j)
    BY <1>2, <1>3, <2>2
  <2> QED BY <1>2, <1>4, <2>1, <2>3
<1>6. Position(t.node[p].keys, t.node[p].keys[i]) = i
  BY <1>1, <1>5, PositionOf
<1>7. i \in 1..Len(t.node[p].pointers) /\ i + 1 \in 1..Len(t.node[p].pointers)
  BY <1>1
<1>8. ASSUME NEW e \in 1..Len(t.node[p].pointers)
      PROVE  Position(t.node[p].pointers, t.node[p].pointers[e]) = e
  <2>1. \A j \in 1..Len(t.node[p].pointers) : t.node[p].pointers[j] = t.node[p].pointers[e] => j = e
    BY <1>1, DistinctChildren
  <2> QED BY <1>1, <2>1, PositionOf
<1> QED BY <1>2, <1>4, <1>6, <1>7, <1>8 DEF b

\* The node right is gone, its content in x, the node left; y is their parent p.
Folded(u, t, left, x, p, y, right, moved) ==
  /\ Heap(u) /\ u.root = t.root /\ DOMAIN u.node = DOMAIN t.node \ {right}
  /\ u.node[left] = x /\ u.node[p] = y
  /\ \A m \in DOMAIN t.node \ {left, p, right} :
       /\ SameContent(u.node[m], t.node[m])
       /\ u.node[m].parent = IF m \in moved THEN left ELSE t.node[m].parent

\* The range of left takes in that of right.
Over(g, left, right) ==
  [m \in DOMAIN g \ {right} |-> IF m = left THEN [ht |-> g[m].ht, lo |-> g[m].lo, hi |-> g[right].hi] ELSE g[m]]

LEMMA OverPlaced ==
  ASSUME NEW t, NEW g, Placed(t, g), NEW u, Heap(u), NEW left \in DOMAIN t.node, NEW right \in DOMAIN t.node,
         left # right, DOMAIN u.node = DOMAIN t.node \ {right}
  PROVE  /\ Placed(u, Over(g, left, right))
         /\ \A m \in DOMAIN u.node :
              /\ m # left => Over(g, left, right)[m] = g[m]
              /\ Over(g, left, right)[m].ht = g[m].ht /\ Over(g, left, right)[m].lo = g[m].lo
         /\ Over(g, left, right)[left].hi = g[right].hi
<1> DEFINE D == DOMAIN u.node
           place == [ht |-> g[left].ht, lo |-> g[left].lo, hi |-> g[right].hi]
           h == Over(g, left, right)
<1>1. h = [m \in D |-> IF m = left THEN place ELSE g[m]]
  <2>1. DOMAIN g = DOMAIN t.node
    BY DEF Placed
  <2> QED BY <2>1 DEF Over
<1>2. place \in PlaceType /\ place.ht = g[left].ht /\ place.lo = g[left].lo /\ place.hi = g[right].hi
  BY PlaceFields DEF PlaceType
<1>3. \A m \in D : g[m] \in PlaceType
  BY PlaceFields
<1> HIDE DEF place, h
<1>4. /\ h \in [D -> PlaceType] /\ left \in D /\ h[left] = place
      /\ \A m \in D : m # left => h[m] = g[m]
  BY <1>1, <1>2, <1>3
<1>5. \A m \in D : h[m].ht = g[m].ht /\ h[m].lo = g[m].lo
  BY <1>2, <1>4
<1> QED BY <1>2, <1>4, <1>5 DEF Placed, h

\* A tree with two neighbours made one is a tree.
Folding(t, g, u, left, x, p, y, right, moved, i) ==
  /\ p \in DOMAIN t.node /\ ~t.node[p].is_leaf /\ i \in 1..Len(t.node[p].keys)
  /\ t.node[p].pointers[i] = left /\ t.node[p].pointers[i + 1] = right
  /\ FenceOut(y, t.node[p], g[p], i)
  /\ x.is_leaf = t.node[left].is_leaf /\ x.parent = p
  /\ moved = IF t.node[left].is_leaf THEN {} ELSE ToSet(t.node[right].pointers)
  /\ ~t.node[left].is_leaf => x.pointers = t.node[left].pointers \o t.node[right].pointers
  /\ Folded(u, t, left, x, p, y, right, moved)

\* The i-th child of p and the next one, with the key k between them.
Beside(t, g, p, i, left, right, k) ==
  /\ left \in DOMAIN t.node /\ right \in DOMAIN t.node /\ left # right /\ left # p /\ right # p
  /\ left # t.root /\ right # t.root
  /\ t.node[left].parent = p /\ t.node[right].parent = p
  /\ g[p].ht = g[left].ht + 1 /\ g[right].ht = g[left].ht /\ t.node[right].is_leaf = t.node[left].is_leaf
  /\ k \in Int /\ g[left].hi = k /\ g[right].lo = k
  /\ g[left].lo = Bound(t.node[p], g[p], i - 1) /\ g[right].hi = Bound(t.node[p], g[p], i + 1)
  /\ g[left].lo < k /\ k < g[right].hi

LEMMA Neighbours ==
  ASSUME NEW t, NEW g, Shape(t, g), NEW p \in DOMAIN t.node, ~t.node[p].is_leaf, NEW i \in 1..Len(t.node[p].keys)
  PROVE  Beside(t, g, p, i, t.node[p].pointers[i], t.node[p].pointers[i + 1], t.node[p].keys[i])
<1> DEFINE left == t.node[p].pointers[i]
           right == t.node[p].pointers[i + 1]
           k == t.node[p].keys[i]
<1>1. /\ i \in 1..Len(t.node[p].pointers) /\ i + 1 \in 1..Len(t.node[p].pointers)
      /\ k = Bound(t.node[p], g[p], i) /\ k \in Int
  BY EntryFound
<1>2. /\ left \in DOMAIN t.node /\ t.node[left].parent = p /\ g[p].ht = g[left].ht + 1
      /\ g[left].lo = Bound(t.node[p], g[p], i - 1) /\ g[left].hi = Bound(t.node[p], g[p], i)
  <2>1. Hangs(t, g, p, i)
    BY <1>1 DEF Shape, Body
  <2> QED BY <2>1 DEF Hangs
<1>3. /\ right \in DOMAIN t.node /\ t.node[right].parent = p /\ g[p].ht = g[right].ht + 1
      /\ g[right].lo = Bound(t.node[p], g[p], (i + 1) - 1) /\ g[right].hi = Bound(t.node[p], g[p], i + 1)
  <2>1. Hangs(t, g, p, i + 1)
    BY <1>1 DEF Shape, Body
  <2> QED BY <2>1 DEF Hangs
<1>4. (i + 1) - 1 = i /\ i # i + 1
  OBVIOUS
<1>5. Placed(t, g) /\ Body(t, g, p) /\ RootOK(t, g) /\ Body(t, g, left) /\ Body(t, g, right)
  BY <1>2, <1>3 DEF Shape
<1>6. left # right
  BY <1>1, <1>4, <1>5, DistinctChildren
<1>7. g[left].ht \in Nat /\ g[right].ht \in Nat /\ g[p].ht \in Nat
  BY <1>2, <1>3, <1>5, PlaceFields
<1> HIDE DEF left, right, k
<1>8. g[right].ht = g[left].ht /\ left # p /\ right # p
  <2>1. g[p].ht = g[left].ht + 1 /\ g[p].ht = g[right].ht + 1
    BY <1>2, <1>3
  <2> QED BY <1>7, <2>1
<1>9. t.node[right].is_leaf = t.node[left].is_leaf
  <2>1. t.node[right].is_leaf = (g[right].ht = 0) /\ t.node[left].is_leaf = (g[left].ht = 0)
    BY <1>2, <1>3, Heights
  <2> QED BY <1>8, <2>1
<1>10. left # t.root /\ right # t.root
  <2>1. p # Null
    BY NodeFields DEF Shape, Placed
  <2> QED BY <1>2, <1>3, <1>5, <2>1 DEF RootOK
<1>11. g[left].lo < k /\ k < g[right].hi
  BY <1>1, <1>2, <1>3, <1>4, <1>5 DEF Body
<1>12. g[right].lo = k
  BY <1>1, <1>3, <1>4
<1> QED BY <1>1, <1>2, <1>3, <1>6, <1>8, <1>9, <1>10, <1>11, <1>12 DEF Beside, left, right, k

LEMMA FoldedIsTree ==
  ASSUME NEW t, NEW g, Shape(t, g), NEW u, NEW left, NEW x, NEW p, NEW y, NEW right, NEW moved, NEW i,
         Folding(t, g, u, left, x, p, y, right, moved, i), Body(u, Over(g, left, right), left)
  PROVE  Shape(u, Over(g, left, right))
<1> DEFINE D == DOMAIN t.node
           h == Over(g, left, right)
           l == Len(t.node[p].keys)
           c(j) == t.node[p].pointers[j]
           d(j) == y.pointers[j]
           old(j) == Bound(t.node[p], g[p], j)
           new(j) == Bound(y, g[p], j)
<1>1. /\ p \in D /\ ~t.node[p].is_leaf /\ i \in 1..l /\ c(i) = left /\ c(i + 1) = right
      /\ FenceOut(y, t.node[p], g[p], i)
      /\ x.is_leaf = t.node[left].is_leaf /\ x.parent = p
      /\ moved = IF t.node[left].is_leaf THEN {} ELSE ToSet(t.node[right].pointers)
      /\ ~t.node[left].is_leaf => x.pointers = t.node[left].pointers \o t.node[right].pointers
      /\ Folded(u, t, left, x, p, y, right, moved)
  BY DEF Folding
<1>2. /\ left \in D /\ right \in D /\ left # right /\ left # p /\ right # p
      /\ left # t.root /\ right # t.root /\ t.node[left].parent = p /\ t.node[right].parent = p
      /\ g[p].ht = g[left].ht + 1 /\ g[right].ht = g[left].ht /\ t.node[right].is_leaf = t.node[left].is_leaf
      /\ g[left].hi = g[right].lo /\ g[left].lo = old(i - 1) /\ g[right].hi = old(i + 1)
  <2>1. Beside(t, g, p, i, left, right, t.node[p].keys[i])
    BY <1>1, Neighbours
  <2> QED BY <2>1 DEF Beside
<1>3. /\ Heap(u) /\ u.root = t.root /\ DOMAIN u.node = D \ {right} /\ u.node[left] = x /\ u.node[p] = y
      /\ \A m \in D \ {left, p, right} :
           /\ SameContent(u.node[m], t.node[m])
           /\ u.node[m].parent = IF m \in moved THEN left ELSE t.node[m].parent
  BY <1>1 DEF Folded
<1>4. /\ Placed(t, g) /\ Heap(t) /\ RootOK(t, g) /\ t.node[p] \in NodeType /\ g[p] \in PlaceType
      /\ l \in Nat /\ Len(t.node[p].pointers) = l + 1 /\ Fenced(t.node[p], g[p])
  BY <1>1, HasChildren, NodeFields, PlaceFields DEF Shape, Placed
<1>5. /\ Placed(u, h)
      /\ \A m \in D \ {right} : /\ m # left => h[m] = g[m]
                                /\ h[m].ht = g[m].ht /\ h[m].lo = g[m].lo
      /\ h[left].hi = g[right].hi
  BY <1>2, <1>3, <1>4, OverPlaced
<1>6. /\ y.is_leaf = t.node[p].is_leaf /\ y.parent = t.node[p].parent /\ Fenced(y, g[p])
      /\ Len(y.pointers) = l
      /\ \A j \in 0..l : new(j) = IF j < i THEN old(j) ELSE old(j + 1)
      /\ \A j \in 1..l : d(j) = IF j <= i THEN c(j) ELSE c(j + 1)
  <2>1. Len(y.keys) = l - 1 /\ Len(y.pointers) = Len(y.keys) + 1
    BY <1>1 DEF FenceOut, Fenced
  <2>2. Len(y.pointers) = l
    <3> HIDE DEF l
    <3> QED BY <1>4, <2>1
  <2> QED BY <1>1, <2>2 DEF FenceOut
<1> HIDE DEF h, l, c, d, old, new
\* the nodes that are moved hung below right
<1>7. \A m \in moved : m \in D \ {left, p, right} /\ t.node[m].parent = right /\ ~t.node[left].is_leaf
                       /\ \E j \in 1..Len(t.node[right].pointers) : t.node[right].pointers[j] = m
  <2>1. SUFFICES ASSUME NEW m \in moved PROVE m \in D \ {left, p, right} /\ t.node[m].parent = right /\ ~t.node[left].is_leaf
                                              /\ \E j \in 1..Len(t.node[right].pointers) : t.node[right].pointers[j] = m
    OBVIOUS
  <2>2. ~t.node[left].is_leaf /\ m \in ToSet(t.node[right].pointers)
    BY <1>1
  <2>3. ~t.node[right].is_leaf
    BY <1>2, <2>2
  <2>4. PICK j \in 1..Len(t.node[right].pointers) : t.node[right].pointers[j] = m
    <3>1. t.node[right].pointers \in Seq(Int)
      BY <1>2, <1>4, NodeFields
    <3> QED BY <2>2, <3>1 DEF ToSet
  <2>5. m \in D /\ t.node[m].parent = right /\ g[right].ht = g[m].ht + 1
    <3>1. Hangs(t, g, right, j)
      BY <1>2, <2>3 DEF Shape, Body
    <3> QED BY <2>4, <3>1 DEF Hangs
  <2>6. m # left /\ m # p /\ m # right
    <3>1. g[m].ht \in Nat /\ g[left].ht \in Nat
      BY <1>2, <1>4, <2>5, PlaceFields
    <3> QED BY <1>2, <2>5, <3>1
  <2> QED BY <2>2, <2>4, <2>5, <2>6
<1>8. \A m \in D \ {right} : u.node[m].is_leaf = t.node[m].is_leaf
  <2>1. SUFFICES ASSUME NEW m \in D \ {right} PROVE u.node[m].is_leaf = t.node[m].is_leaf
    OBVIOUS
  <2>2. CASE m = left
    BY <1>1, <1>3, <2>2, Zenon
  <2>3. CASE m = p
    BY <1>3, <1>6, <2>3, Zenon
  <2>4. CASE m # left /\ m # p
    BY <1>3, <2>4 DEF SameContent
  <2> QED BY <2>2, <2>3, <2>4
<1>9. \A m \in D \ {right} : m \notin moved => u.node[m].parent = t.node[m].parent
  <2>1. SUFFICES ASSUME NEW m \in D \ {right}, m \notin moved PROVE u.node[m].parent = t.node[m].parent
    OBVIOUS
  <2>2. CASE m = left
    BY <1>1, <1>2, <1>3, <2>2
  <2>3. CASE m = p
    BY <1>3, <1>6, <2>3
  <2>4. CASE m # left /\ m # p
    BY <1>3, <2>1, <2>4
  <2> QED BY <2>2, <2>3, <2>4
<1>10. \A j \in 1..(l + 1) : /\ c(j) \in D /\ t.node[c(j)].parent = p /\ c(j) \notin moved
                             /\ g[p].ht = g[c(j)].ht + 1 /\ g[c(j)].lo = old(j - 1) /\ g[c(j)].hi = old(j)
                             /\ (c(j) = left => j = i) /\ (c(j) = right => j = i + 1)
  <2>1. SUFFICES ASSUME NEW j \in 1..(l + 1)
                 PROVE  /\ c(j) \in D /\ t.node[c(j)].parent = p /\ c(j) \notin moved
                        /\ g[p].ht = g[c(j)].ht + 1 /\ g[c(j)].lo = old(j - 1) /\ g[c(j)].hi = old(j)
                        /\ (c(j) = left => j = i) /\ (c(j) = right => j = i + 1)
    OBVIOUS
  <2>2. j \in 1..Len(t.node[p].pointers) /\ i \in 1..Len(t.node[p].pointers) /\ i + 1 \in 1..Len(t.node[p].pointers)
    BY <1>1, <1>4
  <2>3. /\ c(j) \in D /\ t.node[c(j)].parent = p
        /\ g[p].ht = g[c(j)].ht + 1 /\ g[c(j)].lo = old(j - 1) /\ g[c(j)].hi = old(j)
    <3>1. Hangs(t, g, p, j)
      BY <1>1, <2>2 DEF Shape, Body
    <3> QED BY <3>1 DEF Hangs, c, old
  <2>4. Body(t, g, p)
    BY <1>1 DEF Shape
  <2>5. (c(j) = left => j = i) /\ (c(j) = right => j = i + 1)
    BY <1>1, <1>4, <2>2, <2>4, DistinctChildren DEF c
  <2> QED BY <1>2, <1>7, <2>3, <2>5
<1>11. Body(u, h, p)
  <2>1. ASSUME NEW j \in 1..l
        PROVE  /\ d(j) \in D \ {right} /\ u.node[d(j)].parent = p /\ g[p].ht = h[d(j)].ht + 1
               /\ h[d(j)].lo = new(j - 1) /\ h[d(j)].hi = new(j)
    <3>1. j \in 0..l /\ j - 1 \in 0..l
      BY <1>4
    <3>2. CASE j < i
      <4>1. j \in 1..(l + 1) /\ j # i /\ j # i + 1 /\ j <= i /\ j - 1 < i
        BY <1>1, <1>4, <3>2
      <4>2. d(j) = c(j) /\ new(j) = old(j) /\ new(j - 1) = old(j - 1)
        BY <1>6, <3>1, <3>2, <4>1
      <4>3. c(j) \in D \ {right} /\ c(j) # left
        BY <1>10, <4>1
      <4> QED BY <1>5, <1>9, <1>10, <4>1, <4>2, <4>3
    <3>3. CASE j = i
      <4>1. j \in 1..(l + 1) /\ j <= i /\ j - 1 < i /\ ~(j < i)
        BY <1>1, <1>4, <3>3
      <4>2. d(j) = left /\ new(j) = old(i + 1) /\ new(j - 1) = old(i - 1)
        BY <1>1, <1>6, <3>1, <3>3, <4>1
      <4>3. left \in D \ {right} /\ u.node[left].parent = p
        BY <1>1, <1>2, <1>3
      <4> QED BY <1>2, <1>5, <4>2, <4>3
    <3>4. CASE i < j
      <4>1. j + 1 \in 1..(l + 1) /\ j + 1 # i /\ j + 1 # i + 1 /\ ~(j <= i) /\ ~(j - 1 < i) /\ ~(j < i)
            /\ (j - 1) + 1 = (j + 1) - 1
        BY <1>1, <1>4, <3>4
      <4>2. d(j) = c(j + 1) /\ new(j) = old(j + 1) /\ new(j - 1) = old((j + 1) - 1)
        BY <1>6, <3>1, <4>1
      <4>3. c(j + 1) \in D \ {right} /\ c(j + 1) # left
        BY <1>10, <4>1
      <4> QED BY <1>5, <1>9, <1>10, <4>1, <4>2, <4>3
    <3>5. j < i \/ j = i \/ i < j
      BY <1>1, <1>4
    <3> QED BY <3>2, <3>3, <3>4, <3>5
  <2>2. h[p] = g[p] /\ p \in D \ {right}
    BY <1>1, <1>2, <1>5
  <2>3. ASSUME NEW j \in 1..Len(u.node[p].pointers) PROVE Hangs(u, h, p, j)
    <3>1. j \in 1..l
      BY <1>3, <1>6
    <3> QED BY <1>3, <2>1, <2>2, <3>1 DEF Hangs, d, new
  <2>4. Fenced(u.node[p], h[p]) /\ h[p].ht # 0 /\ h[p].lo < h[p].hi /\ ~u.node[p].is_leaf
    <3>1. Body(t, g, p)
      BY <1>1 DEF Shape
    <3> QED BY <1>1, <1>3, <1>6, <1>8, <2>2, <3>1 DEF Body
  <2> QED BY <2>3, <2>4 DEF Body
<1>12. ASSUME NEW m \in D \ {right} PROVE Body(u, h, m)
  <2>1. CASE m = left
    BY <2>1 DEF h
  <2>2. CASE m = p
    BY <1>11, <2>2
  <2>3. CASE m # left /\ m # p
    <3>1. Body(t, g, m) /\ h[m] = g[m] /\ SameContent(u.node[m], t.node[m])
      BY <1>3, <1>5, <2>3 DEF Shape
    <3>2. t.node[m].is_leaf => SameLink(t, g, u, h, m)
      <4>1. SUFFICES ASSUME t.node[m].is_leaf, t.node[m].next # Null
                     PROVE  LET e == t.node[m].next
                            IN  e \in DOMAIN u.node /\ u.node[e].is_leaf /\ h[e].lo = g[e].lo
        BY DEF SameLink
      <4> DEFINE e == t.node[m].next
      <4>2. e \in D /\ t.node[e].is_leaf /\ g[e].lo = g[m].hi
        BY <4>1, LinkOf
      <4>3. e # right
        <5>1. SUFFICES ASSUME e = right PROVE FALSE
          OBVIOUS
        <5>2. t.node[left].is_leaf /\ g[m].hi = g[left].hi
          BY <1>2, <4>2, <5>1
        <5>3. m = left
          BY <1>2, <4>1, <5>2, OneLink
        <5> QED BY <2>3, <5>3
      <4> HIDE DEF e
      <4>4. e \in DOMAIN u.node /\ u.node[e].is_leaf /\ h[e].lo = g[e].lo
        BY <1>3, <1>5, <1>8, <4>2, <4>3
      <4> QED BY <4>4 DEF e
    <3>3. ~t.node[m].is_leaf => SameChildren(t, g, u, h, m)
      <4>1. SUFFICES ASSUME ~t.node[m].is_leaf, NEW j \in 1..Len(t.node[m].pointers)
                     PROVE  LET e == t.node[m].pointers[j]
                            IN  e \in DOMAIN u.node /\ u.node[e].parent = m /\ h[e] = g[e]
        BY DEF SameChildren
      <4> DEFINE e == t.node[m].pointers[j]
      <4>2. e \in D /\ t.node[e].parent = m
        BY <4>1, Children
      <4> HIDE DEF e
      <4>3. e # left /\ e # right /\ e \notin moved
        BY <1>2, <1>7, <2>3, <4>2
      <4>4. e \in DOMAIN u.node /\ u.node[e].parent = m /\ h[e] = g[e]
        BY <1>3, <1>5, <1>9, <4>2, <4>3
      <4> QED BY <4>4 DEF e
    <3> QED BY <3>1, <3>2, <3>3, SameBody
  <2> QED BY <2>1, <2>2, <2>3
<1>13. ASSUME NEW m \in D \ {right}, m # u.root PROVE Under(u, h, m)
  <2>1. IsChild(t, m) /\ g[m].ht < g[t.root].ht
    BY <1>3, <1>13 DEF Shape, Under
  <2>2. h[m].ht < h[u.root].ht
    <3>1. t.root \in D \ {right}
      BY <1>2, <1>4 DEF RootOK
    <3> QED BY <1>3, <1>5, <2>1, <3>1
  <2> DEFINE q == t.node[m].parent
  <2>3. q \in D /\ ~t.node[q].is_leaf /\ \E j \in 1..Len(t.node[q].pointers) : t.node[q].pointers[j] = m
    BY <2>1 DEF IsChild
  <2>4. m \notin moved => u.node[m].parent = q
    BY <1>9
  <2>5. m \in moved => q = right
    BY <1>7
  <2> HIDE DEF q
  <2>6. ~t.node[left].is_leaf => Joined(x.pointers, t.node[left].pointers, t.node[right].pointers)
                                 /\ Len(t.node[left].pointers) \in Nat /\ Len(t.node[right].pointers) \in Nat
    <3>1. /\ t.node[left].pointers \in Seq(Int) /\ t.node[right].pointers \in Seq(Int)
          /\ Len(t.node[left].pointers) \in Nat /\ Len(t.node[right].pointers) \in Nat
      BY <1>2, <1>4, NodeFields
    <3> QED BY <1>1, <3>1, JoinedOf
  <2>7. CASE q = right
    <3>1. ~t.node[left].is_leaf
      BY <1>2, <2>3, <2>7
    <3>2. PICK j \in 1..Len(t.node[right].pointers) : t.node[right].pointers[j] = m
      BY <2>3, <2>7
    <3>3. m \in moved
      <4>1. t.node[right].pointers \in Seq(Int)
        BY <1>2, <1>4, NodeFields
      <4> QED BY <1>1, <3>1, <3>2, <4>1 DEF ToSet
    <3> DEFINE a == Len(t.node[left].pointers)
               b == Len(t.node[right].pointers)
    <3>4. Len(x.pointers) = a + b /\ a \in Nat /\ b \in Nat
          /\ \A e \in 1..(a + b) : x.pointers[e] = IF e <= a THEN t.node[left].pointers[e] ELSE t.node[right].pointers[e - a]
      BY <2>6, <3>1 DEF Joined
    <3>5. a + j \in 1..(a + b) /\ ~(a + j <= a) /\ (a + j) - a = j
      <4> HIDE DEF a
      <4> QED BY <3>4
    <3>6. x.pointers[a + j] = m /\ a + j \in 1..Len(x.pointers)
      BY <3>2, <3>4, <3>5
    <3> HIDE DEF a
    <3>7. u.node[m].parent = left
      BY <1>3, <1>7, <3>3
    <3> QED BY <1>2, <1>3, <1>8, <2>2, <3>1, <3>6, <3>7 DEF IsChild, Under
  <2>8. CASE q = left
    <3>1. ~t.node[left].is_leaf /\ m \notin moved
      BY <1>2, <2>3, <2>5, <2>8
    <3>2. PICK j \in 1..Len(t.node[left].pointers) : t.node[left].pointers[j] = m
      BY <2>3, <2>8
    <3> DEFINE a == Len(t.node[left].pointers)
               b == Len(t.node[right].pointers)
    <3>3. Len(x.pointers) = a + b /\ a \in Nat /\ b \in Nat
          /\ \A e \in 1..(a + b) : x.pointers[e] = IF e <= a THEN t.node[left].pointers[e] ELSE t.node[right].pointers[e - a]
      BY <2>6, <3>1 DEF Joined
    <3>4. j \in 1..(a + b) /\ j <= a
      <4> HIDE DEF b
      <4> QED BY <3>3
    <3>5. x.pointers[j] = m /\ j \in 1..Len(x.pointers)
      BY <3>2, <3>3, <3>4
    <3>6. u.node[m].parent = left
      BY <2>4, <2>8, <3>1
    <3> QED BY <1>2, <1>3, <1>8, <2>2, <3>1, <3>5, <3>6 DEF IsChild, Under
  <2>9. CASE q = p
    <3>1. m \notin moved /\ u.node[m].parent = p
      BY <1>2, <2>4, <2>5, <2>9
    <3>2. PICK j \in 1..(l + 1) : c(j) = m
      BY <1>4, <2>3, <2>9 DEF c
    <3>3. j # i + 1
      BY <1>1, <1>13, <3>2
    <3>4. \E e \in 1..l : d(e) = m
      <4>1. CASE j <= i
        <5>1. j \in 1..l
          BY <1>1, <1>4, <4>1
        <5>2. d(j) = m
          BY <1>6, <3>2, <4>1, <5>1
        <5> QED BY <5>1, <5>2
      <4>2. CASE i + 1 < j
        <5>1. j - 1 \in 1..l /\ ~(j - 1 <= i) /\ (j - 1) + 1 = j
          BY <1>1, <1>4, <4>2
        <5>2. d(j - 1) = m
          BY <1>6, <3>2, <5>1
        <5> QED BY <5>1, <5>2
      <4> QED BY <1>1, <1>4, <3>3, <4>1, <4>2
    <3>5. \E e \in 1..Len(u.node[p].pointers) : u.node[p].pointers[e] = m
      BY <1>3, <1>6, <3>4 DEF d
    <3> QED BY <1>1, <1>2, <1>3, <1>8, <2>2, <3>1, <3>5 DEF IsChild, Under
  <2>10. CASE q # right /\ q # left /\ q # p
    <3>1. m \notin moved /\ u.node[m].parent = q
      BY <2>4, <2>5, <2>10
    <3>2. u.node[q].pointers = t.node[q].pointers /\ q \in DOMAIN u.node
      BY <1>3, <2>3, <2>10 DEF SameContent
    <3> QED BY <1>3, <1>8, <2>2, <2>3, <3>1, <3>2 DEF IsChild, Under
  <2> QED BY <2>7, <2>8, <2>9, <2>10
<1>14. RootOK(u, h)
  <2>1. t.root \in D \ {right} /\ t.root # left /\ t.node[t.root].parent = Null
    BY <1>2, <1>4 DEF RootOK
  <2>2. t.root \notin moved
    <3>1. right # Null
      BY <1>2, <1>4, NodeFields
    <3> QED BY <1>7, <2>1, <3>1
  <2> QED BY <1>3, <1>4, <1>5, <1>9, <2>1, <2>2 DEF RootOK
<1> QED BY <1>3, <1>5, <1>12, <1>13, <1>14 DEF Shape, h

\* The content of two leaves in one.
LeavesInOne(r, w, a, b) ==
  /\ LeafBody(r, w) /\ Len(r.keys) = Len(a.keys) + Len(b.keys)
  /\ \A v : HasKey(r, v) <=> (HasKey(a, v) \/ HasKey(b, v))

LEMMA LeavesJoined ==
  ASSUME NEW a \in NodeType, NEW y \in PlaceType, LeafBody(a, y), y.lo < y.hi,
         NEW b \in NodeType, NEW z \in PlaceType, LeafBody(b, z), z.lo < z.hi, y.hi = z.lo,
         NEW r \in NodeType, r.keys = a.keys \o b.keys, r.pointers = a.pointers \o b.pointers,
         NEW w \in PlaceType, w.lo = y.lo, w.hi = z.hi
  PROVE  LeavesInOne(r, w, a, b)
<1> DEFINE l == Len(a.keys)
           m == Len(b.keys)
<1>1. /\ a.keys \in Seq(Int) /\ a.pointers \in Seq(Int) /\ b.keys \in Seq(Int) /\ b.pointers \in Seq(Int)
      /\ l \in Nat /\ m \in Nat /\ Len(a.pointers) = l /\ Len(b.pointers) = m
  BY DEF NodeType, LeafBody
<1>2. y.lo \in Int /\ y.hi \in Int /\ z.lo \in Int /\ z.hi \in Int
  BY DEF PlaceType
<1>3. Joined(r.keys, a.keys, b.keys) /\ Joined(r.pointers, a.pointers, b.pointers)
  BY <1>1, JoinedOf
<1>4. /\ Len(r.keys) = l + m /\ Len(r.pointers) = l + m
      /\ \A j \in 1..(l + m) : /\ r.keys[j] = IF j <= l THEN a.keys[j] ELSE b.keys[j - l]
                               /\ r.pointers[j] = IF j <= l THEN a.pointers[j] ELSE b.pointers[j - l]
  BY <1>1, <1>3 DEF Joined
<1>5. /\ \A j \in 1..l : a.keys[j] \in Int /\ a.pointers[j] = a.keys[j] /\ y.lo <= a.keys[j] /\ a.keys[j] < y.hi
      /\ \A i, j \in 1..l : i < j => a.keys[i] < a.keys[j]
  <2>1. \A j \in 1..l : a.keys[j] \in Int
    BY <1>1
  <2> QED BY <2>1 DEF LeafBody
<1>6. /\ \A j \in 1..m : b.keys[j] \in Int /\ b.pointers[j] = b.keys[j] /\ z.lo <= b.keys[j] /\ b.keys[j] < z.hi
      /\ \A i, j \in 1..m : i < j => b.keys[i] < b.keys[j]
  <2>1. \A j \in 1..m : b.keys[j] \in Int
    BY <1>1
  <2> QED BY <2>1 DEF LeafBody
<1>7. Len(r.keys) = Len(a.keys) + Len(b.keys)
  BY <1>4
<1> HIDE DEF l, m
<1>8. \A j \in 1..(l + m) : (j \in 1..l /\ j <= l) \/ (~(j <= l) /\ j - l \in 1..m)
  BY <1>1
<1>9. ASSUME NEW j \in 1..(l + m)
      PROVE  r.pointers[j] = r.keys[j] /\ w.lo <= r.keys[j] /\ r.keys[j] < w.hi /\ r.keys[j] \in Int
  <2>1. CASE j \in 1..l /\ j <= l
    <3> DEFINE e == a.keys[j]
    <3>1. r.keys[j] = e /\ r.pointers[j] = e /\ e \in Int /\ y.lo <= e /\ e < y.hi
      BY <1>4, <1>5, <2>1
    <3> HIDE DEF e
    <3> QED BY <1>2, <3>1
  <2>2. CASE ~(j <= l) /\ j - l \in 1..m
    <3> DEFINE e == b.keys[j - l]
    <3>1. r.keys[j] = e /\ r.pointers[j] = e /\ e \in Int /\ z.lo <= e /\ e < z.hi
      BY <1>4, <1>6, <2>2
    <3> HIDE DEF e
    <3> QED BY <1>2, <3>1
  <2> QED BY <1>8, <2>1, <2>2
<1>10. ASSUME NEW p \in 1..(l + m), NEW q \in 1..(l + m), p < q PROVE r.keys[p] < r.keys[q]
  <2>1. CASE q <= l
    <3>1. p <= l /\ p \in 1..l /\ q \in 1..l
      BY <1>1, <1>10, <2>1
    <3> QED BY <1>4, <1>5, <1>10, <2>1, <3>1
  <2>2. CASE ~(p <= l)
    <3>1. ~(q <= l) /\ p - l \in 1..m /\ q - l \in 1..m /\ p - l < q - l
      BY <1>1, <1>10, <2>2
    <3> QED BY <1>4, <1>6, <2>2, <3>1
  <2>3. CASE p <= l /\ ~(q <= l)
    <3>1. p \in 1..l /\ q - l \in 1..m
      BY <1>1, <2>3
    <3> DEFINE e == a.keys[p]
               f == b.keys[q - l]
    <3>2. e \in Int /\ f \in Int /\ e < y.hi /\ z.lo <= f /\ r.keys[p] = e /\ r.keys[q] = f
      BY <1>4, <1>5, <1>6, <2>3, <3>1
    <3> HIDE DEF e, f
    <3> QED BY <1>2, <3>2
  <2> QED BY <2>1, <2>2, <2>3
<1>11. LeafBody(r, w)
  BY <1>4, <1>9, <1>10 DEF LeafBody
<1>12. ASSUME NEW v PROVE HasKey(r, v) <=> (HasKey(a, v) \/ HasKey(b, v))
  <2>1. (HasKey(r, v) <=> \E j \in 1..(l + m) : r.keys[j] = v) /\ (HasKey(a, v) <=> \E j \in 1..l : a.keys[j] = v)
        /\ (HasKey(b, v) <=> \E j \in 1..m : b.keys[j] = v)
    BY <1>4 DEF HasKey, l, m
  <2>2. \A j \in 1..l : j \in 1..(l + m) /\ j <= l
    BY <1>1
  <2>3. \A j \in 1..m : l + j \in 1..(l + m) /\ ~(l + j <= l) /\ (l + j) - l = j
    BY <1>1
  <2>4. \A j \in 1..l : r.keys[j] = a.keys[j]
    BY <1>4, <2>2
  <2>5. \A j \in 1..m : r.keys[l + j] = b.keys[j]
    BY <1>4, <2>3
  <2>6. HasKey(r, v) => HasKey(a, v) \/ HasKey(b, v)
    <3>1. SUFFICES ASSUME NEW j \in 1..(l + m), r.keys[j] = v PROVE HasKey(a, v) \/ HasKey(b, v)
      BY <2>1
    <3>2. CASE j \in 1..l /\ j <= l
      BY <1>4, <2>1, <3>1, <3>2
    <3>3. CASE ~(j <= l) /\ j - l \in 1..m
      BY <1>4, <2>1, <3>1, <3>3
    <3> QED BY <1>8, <3>2, <3>3
  <2>7. HasKey(a, v) => HasKey(r, v)
    BY <2>1, <2>2, <2>4
  <2>8. HasKey(b, v) => HasKey(r, v)
    BY <2>1, <2>3, <2>5
  <2> QED BY <2>6, <2>7, <2>8
<1> QED BY <1>7, <1>11, <1>12 DEF LeavesInOne

\* The children of two inner nodes in one, with the key that divided them.
FencesInOne(r, w, a, y, b, z) ==
  /\ Fenced(r, w) /\ Len(r.keys) = (Len(a.keys) + Len(b.keys)) + 1
  /\ \A j \in 0..((Len(a.keys) + Len(b.keys)) + 2) :
       Bound(r, w, j) = IF j <= Len(a.keys) + 1 THEN Bound(a, y, j) ELSE Bound(b, z, j - (Len(a.keys) + 1))
  /\ Bound(b, z, 0) = Bound(a, y, Len(a.keys) + 1)
  /\ \A j \in 1..((Len(a.keys) + Len(b.keys)) + 2) :
       r.pointers[j] = IF j <= Len(a.keys) + 1 THEN a.pointers[j] ELSE b.pointers[j - (Len(a.keys) + 1)]

OneAfterOther(r, a, k, b) == r.keys = a.keys \o <<k>> \o b.keys /\ r.pointers = a.pointers \o b.pointers

LEMMA FencesJoined ==
  ASSUME NEW a \in NodeType, NEW y \in PlaceType, Fenced(a, y), NEW b \in NodeType, NEW z \in PlaceType, Fenced(b, z),
         NEW k \in Int, y.hi = k, z.lo = k,
         NEW r \in NodeType, OneAfterOther(r, a, k, b),
         NEW w \in PlaceType, w.lo = y.lo, w.hi = z.hi
  PROVE  FencesInOne(r, w, a, y, b, z)
<1> DEFINE l == Len(a.keys)
           m == Len(b.keys)
           c == a.keys \o <<k>>
           below(j) == Bound(a, y, j)
           above(j) == Bound(b, z, j)
           new(j) == Bound(r, w, j)
<1>1. /\ a.keys \in Seq(Int) /\ a.pointers \in Seq(Int) /\ b.keys \in Seq(Int) /\ b.pointers \in Seq(Int)
      /\ l \in Nat /\ m \in Nat /\ Len(a.pointers) = l + 1 /\ Len(b.pointers) = m + 1
  <2>1. a.keys \in Seq(Int) /\ a.pointers \in Seq(Int) /\ b.keys \in Seq(Int) /\ b.pointers \in Seq(Int)
    BY DEF NodeType
  <2>2. l \in Nat /\ m \in Nat
    BY <2>1
  <2>3. Len(a.pointers) = l + 1 /\ Len(b.pointers) = m + 1
    BY DEF Fenced
  <2> QED BY <2>1, <2>2, <2>3
<1>2. /\ c \in Seq(Int) /\ Len(c) = l + 1
      /\ \A j \in 1..(l + 1) : c[j] = IF j <= l THEN a.keys[j] ELSE k
  <2>1. <<k>> \in Seq(Int) /\ Len(<<k>>) = 1 /\ <<k>>[1] = k
    OBVIOUS
  <2>2. Joined(c, a.keys, <<k>>)
    BY <1>1, <2>1, JoinedOf
  <2>3. \A j \in 1..(l + 1) : j <= l \/ j - l = 1
    BY <1>1
  <2> HIDE DEF c
  <2> QED BY <2>1, <2>2, <2>3 DEF Joined
<1>3. r.keys = c \o b.keys /\ r.pointers = a.pointers \o b.pointers
  BY DEF OneAfterOther
<1> HIDE DEF c
<1>4. Joined(r.keys, c, b.keys) /\ Joined(r.pointers, a.pointers, b.pointers)
  BY <1>1, <1>2, <1>3, JoinedOf
<1>5. /\ Len(r.keys) = (l + 1) + m
      /\ \A j \in 1..((l + 1) + m) : r.keys[j] = IF j <= l + 1 THEN c[j] ELSE b.keys[j - (l + 1)]
  BY <1>2, <1>4 DEF Joined
<1>6. /\ Len(r.pointers) = (l + 1) + (m + 1)
      /\ \A j \in 1..((l + 1) + (m + 1)) : r.pointers[j] = IF j <= l + 1 THEN a.pointers[j] ELSE b.pointers[j - (l + 1)]
  BY <1>1, <1>4 DEF Joined
<1>7. /\ below(0) = y.lo /\ below(l + 1) = k
      /\ \A j \in 1..l : below(j) = a.keys[j]
  <2>1. l + 1 # 0 /\ \A j \in 1..l : j # 0 /\ j # l + 1
    BY <1>1
  <2> QED BY <2>1 DEF Bound
<1>8. /\ above(0) = k /\ above(m + 1) = z.hi
      /\ \A j \in 1..m : above(j) = b.keys[j]
  <2>1. m + 1 # 0 /\ \A j \in 1..m : j # 0 /\ j # m + 1
    BY <1>1
  <2> QED BY <2>1 DEF Bound
<1>9. /\ \A p, q \in 0..(l + 1) : p < q => below(p) < below(q)
      /\ \A p, q \in 0..(m + 1) : p < q => above(p) < above(q)
  BY DEF Fenced
<1>10. /\ \A p \in 0..(l + 1) : below(p) \in Int /\ below(p) <= k
       /\ \A p \in 0..(m + 1) : above(p) \in Int /\ k <= above(p)
  BY BoundRange
<1>11. /\ l \in Nat /\ m \in Nat /\ Len(r.keys) = (l + 1) + m
  BY <1>1, <1>5
<1> HIDE DEF l, m, below, above
<1>16. (l + 1) + m = (l + m) + 1 /\ (l + 1) + (m + 1) = (l + m) + 2 /\ Len(r.keys) + 1 = (l + m) + 2
  <2> DEFINE e == Len(r.keys)
  <2>1. l \in Nat /\ m \in Nat /\ e = (l + 1) + m
    BY <1>11
  <2> HIDE DEF e
  <2>2. (l + 1) + m = (l + m) + 1 /\ (l + 1) + (m + 1) = (l + m) + 2 /\ e + 1 = (l + m) + 2
    BY <2>1
  <2> QED BY <2>2 DEF e
<1>12. ASSUME NEW j \in 0..((l + m) + 2)
       PROVE  new(j) = IF j <= l + 1 THEN below(j) ELSE above(j - (l + 1))
  <2>1. new(j) = IF j = 0 THEN y.lo ELSE IF j = (l + m) + 2 THEN z.hi ELSE r.keys[j]
    <3> QED BY <1>16 DEF Bound
  <2>2. CASE j = 0
    <3>1. j <= l + 1
      BY <1>1, <2>2
    <3> QED BY <1>7, <2>1, <2>2, <3>1
  <2>3. CASE j = (l + m) + 2
    <3>1. ~(j <= l + 1) /\ j # 0 /\ j - (l + 1) = m + 1
      BY <1>1, <2>3
    <3> QED BY <1>8, <2>1, <2>3, <3>1
  <2>4. CASE j # 0 /\ j # (l + m) + 2
    <3>1. j \in 1..((l + 1) + m)
      BY <1>1, <2>4
    <3>2. new(j) = IF j <= l + 1 THEN c[j] ELSE b.keys[j - (l + 1)]
      BY <1>5, <2>1, <2>4, <3>1
    <3>3. CASE j <= l
      <4>1. j \in 1..l /\ j <= l + 1 /\ j \in 1..(l + 1)
        BY <1>1, <3>1, <3>3
      <4> QED BY <1>2, <1>7, <3>2, <3>3, <4>1
    <3>4. CASE j = l + 1
      <4>1. ~(j <= l) /\ j <= l + 1 /\ j \in 1..(l + 1)
        BY <1>1, <3>4
      <4> QED BY <1>2, <1>7, <3>2, <3>4, <4>1
    <3>5. CASE l + 1 < j
      <4>1. ~(j <= l + 1) /\ j - (l + 1) \in 1..m
        BY <1>1, <3>1, <3>5
      <4> QED BY <1>8, <3>2, <4>1
    <3> QED BY <1>1, <3>3, <3>4, <3>5
  <2> QED BY <2>2, <2>3, <2>4
<1>13. ASSUME NEW p \in 0..((l + m) + 2), NEW q \in 0..((l + m) + 2), p < q PROVE new(p) < new(q)
  <2> HIDE DEF new
  <2>1. CASE q <= l + 1
    <3>1. p <= l + 1 /\ p \in 0..(l + 1) /\ q \in 0..(l + 1)
      BY <1>1, <1>13, <2>1
    <3> QED BY <1>9, <1>12, <1>13, <2>1, <3>1
  <2>2. CASE ~(p <= l + 1)
    <3>1. ~(q <= l + 1) /\ p - (l + 1) \in 0..(m + 1) /\ q - (l + 1) \in 0..(m + 1) /\ p - (l + 1) < q - (l + 1)
      BY <1>1, <1>13, <2>2
    <3> QED BY <1>9, <1>12, <2>2, <3>1
  <2>3. CASE p <= l + 1 /\ ~(q <= l + 1)
    <3>1. p \in 0..(l + 1) /\ q - (l + 1) \in 0..(m + 1) /\ 0 < q - (l + 1) /\ 0 \in 0..(m + 1)
      BY <1>1, <2>3
    <3> DEFINE e == below(p)
               f == above(q - (l + 1))
    <3>2. e \in Int /\ f \in Int /\ e <= k /\ k < f /\ new(p) = e /\ new(q) = f
      BY <1>8, <1>9, <1>10, <1>12, <2>3, <3>1
    <3> HIDE DEF e, f
    <3> QED BY <3>2
  <2> QED BY <2>1, <2>2, <2>3
<1>14. Fenced(r, w)
  <2>1. Len(r.keys) + 1 = (l + m) + 2 /\ Len(r.pointers) = Len(r.keys) + 1
    BY <1>6, <1>16
  <2> QED BY <1>13, <2>1 DEF Fenced
<1>15. above(0) = below(l + 1)
  BY <1>7, <1>8
<1> QED BY <1>5, <1>6, <1>12, <1>14, <1>15, <1>16 DEF FencesInOne, l, m, below, above

\* The content of right was put into left, and its children below left.
InOne(v, t, left, x, moved) ==
  /\ Heap(v) /\ v.root = t.root /\ DOMAIN v.node = DOMAIN t.node
  /\ v.node[left] = x
  /\ \A m \in DOMAIN t.node \ {left} :
       /\ SameContent(v.node[m], t.node[m])
       /\ v.node[m].parent = IF m \in moved THEN left ELSE t.node[m].parent
       /\ m \notin moved => v.node[m] = t.node[m]

OneLeaf(v, t, left, right, x) ==
  /\ InOne(v, t, left, x, {})
  /\ x \in NodeType /\ x.is_leaf = t.node[left].is_leaf /\ x.parent = t.node[left].parent
  /\ x.next = t.node[right].next
  /\ x.keys = t.node[left].keys \o t.node[right].keys
  /\ x.pointers = t.node[left].pointers \o t.node[right].pointers

OneNode(v, t, left, right, k, x, moved) ==
  /\ InOne(v, t, left, x, moved)
  /\ x \in NodeType /\ x.is_leaf = t.node[left].is_leaf /\ x.parent = t.node[left].parent
  /\ x.keys = t.node[left].keys \o <<k>> \o t.node[right].keys
  /\ x.pointers = t.node[left].pointers \o t.node[right].pointers

LEMMA LeafInOne ==
  ASSUME NEW t, Heap(t), NEW left \in DOMAIN t.node, NEW right \in DOMAIN t.node, NEW k, t.node[left].is_leaf
  PROVE  LET x == [t.node[left] EXCEPT !.keys = @ \o t.node[right].keys, !.pointers = @ \o t.node[right].pointers,
                                       !.next = t.node[right].next]
         IN  OneLeaf(Coalesced(t, left, right, k), t, left, right, x)
<1> DEFINE a == t.node[left].keys \o t.node[right].keys
           b == t.node[left].pointers \o t.node[right].pointers
           x == [t.node[left] EXCEPT !.keys = a, !.pointers = b, !.next = t.node[right].next]
<1>1. a \in Seq(Int) /\ b \in Seq(Int)
  BY NodeFields, JoinElements
<1> HIDE DEF a, b
<1>2. /\ x \in NodeType /\ x.is_leaf = t.node[left].is_leaf /\ x.parent = t.node[left].parent
      /\ x.next = t.node[right].next /\ x.keys = a /\ x.pointers = b
  <2>1. t.node[left] \in NodeType /\ t.node[right].next \in Nat
    BY NodeFields
  <2> QED BY <1>1, <2>1 DEF NodeType
<1>3. Coalesced(t, left, right, k) = With(t, left, x)
  BY DEF Coalesced, a, b
<1> HIDE DEF x
<1>4. left \in Nat \ {Null}
  BY NodeFields
<1>5. Wrote(With(t, left, x), t, left, x)
  BY <1>2, <1>4, WithOne
<1>6. InOne(With(t, left, x), t, left, x, {})
  BY <1>5 DEF Wrote, InOne, SameContent
<1> QED BY <1>2, <1>3, <1>6 DEF OneLeaf, x, a, b

LEMMA NodeInOne ==
  ASSUME NEW t, Heap(t), NEW left \in DOMAIN t.node, NEW right \in DOMAIN t.node, NEW k \in Int, ~t.node[left].is_leaf,
         NEW moved, moved = ToSet(t.node[right].pointers), left \notin moved
  PROVE  LET x == [t.node[left] EXCEPT !.keys = @ \o <<k>> \o t.node[right].keys,
                                       !.pointers = @ \o t.node[right].pointers]
         IN  OneNode(Coalesced(t, left, right, k), t, left, right, k, x, moved)
<1> DEFINE a == t.node[left].keys \o <<k>> \o t.node[right].keys
           b == t.node[left].pointers \o t.node[right].pointers
           x == [t.node[left] EXCEPT !.keys = a, !.pointers = b]
<1>1. a \in Seq(Int) /\ b \in Seq(Int)
  <2>1. /\ t.node[left].keys \in Seq(Int) /\ t.node[right].keys \in Seq(Int) /\ <<k>> \in Seq(Int)
        /\ t.node[left].pointers \in Seq(Int) /\ t.node[right].pointers \in Seq(Int)
    BY NodeFields
  <2>2. t.node[left].keys \o <<k>> \in Seq(Int) /\ b \in Seq(Int)
    BY <2>1, JoinElements
  <2> QED BY <2>1, <2>2, JoinElements
<1>2. Coalesced(t, left, right, k) = Adopt(With(t, left, x), left, moved)
  BY DEF Coalesced
<1> HIDE DEF a, b
<1>3. /\ x \in NodeType /\ x.is_leaf = t.node[left].is_leaf /\ x.parent = t.node[left].parent
      /\ x.keys = a /\ x.pointers = b
  <2>1. t.node[left] \in NodeType
    BY NodeFields
  <2> QED BY <1>1, <2>1 DEF NodeType
<1> HIDE DEF x
<1> DEFINE w == With(t, left, x)
           v == Adopt(w, left, moved)
<1>4. left \in Nat \ {Null}
  BY NodeFields
<1>5. Wrote(w, t, left, x)
  BY <1>3, <1>4, WithOne
<1> HIDE DEF w
<1>6. Adopted(v, w, left, moved)
  BY <1>4, <1>5, AdoptNodes DEF Wrote
<1> HIDE DEF v
<1>7. /\ Heap(v) /\ v.root = t.root /\ DOMAIN v.node = DOMAIN t.node /\ v.node[left] = x
      /\ \A m \in DOMAIN t.node \ {left} :
           v.node[m] = IF m \in moved THEN [t.node[m] EXCEPT !.parent = left] ELSE t.node[m]
  <2>1. /\ Heap(w) /\ w.root = t.root /\ DOMAIN w.node = DOMAIN t.node /\ w.node[left] = x
        /\ \A m \in DOMAIN t.node \ {left} : w.node[m] = t.node[m]
    BY <1>5 DEF Wrote
  <2> QED BY <1>6, <2>1 DEF Adopted
<1>8. ASSUME NEW m \in DOMAIN t.node \ {left}
      PROVE  /\ SameContent(v.node[m], t.node[m])
             /\ v.node[m].parent = IF m \in moved THEN left ELSE t.node[m].parent
             /\ m \notin moved => v.node[m] = t.node[m]
  <2>1. t.node[m] \in NodeType
    BY NodeFields
  <2>2. CASE m \in moved
    <3>1. v.node[m] = [t.node[m] EXCEPT !.parent = left]
      BY <1>7, <2>2
    <3> QED BY <2>1, <2>2, <3>1 DEF SameContent, NodeType
  <2>3. CASE m \notin moved
    <3>1. v.node[m] = t.node[m]
      BY <1>7, <2>3
    <3> QED BY <2>3, <3>1 DEF SameContent
  <2> QED BY <2>2, <2>3
<1>9. InOne(v, t, left, x, moved)
  BY <1>7, <1>8 DEF InOne
<1> QED BY <1>2, <1>3, <1>9 DEF OneNode, v, w, x, a, b

\* Then the entry of right is taken out of their parent, and right is freed.
LEMMA EntryAndNodeRemoved ==
  ASSUME NEW t, NEW g, Shape(t, g), NEW p \in DOMAIN t.node, ~t.node[p].is_leaf, NEW i \in 1..Len(t.node[p].keys),
         NEW left, NEW right, t.node[p].pointers[i] = left, t.node[p].pointers[i + 1] = right,
         NEW x, NEW moved, NEW v, InOne(v, t, left, x, moved), p \notin moved, x.parent = p,
         x.is_leaf = t.node[left].is_leaf,
         moved = IF t.node[left].is_leaf THEN {} ELSE ToSet(t.node[right].pointers),
         ~t.node[left].is_leaf => x.pointers = t.node[left].pointers \o t.node[right].pointers
  PROVE  LET y == [t.node[p] EXCEPT !.keys = RemoveAt(@, i), !.pointers = RemoveAt(@, i + 1)]
             u == Freed(remove_entry_from_node(v, p, t.node[p].keys[i], right), right)
         IN  Folding(t, g, u, left, x, p, y, right, moved, i)
<1> DEFINE y == [t.node[p] EXCEPT !.keys = RemoveAt(@, i), !.pointers = RemoveAt(@, i + 1)]
           w == remove_entry_from_node(v, p, t.node[p].keys[i], right)
           u == Freed(w, right)
<1>1. /\ left \in DOMAIN t.node /\ right \in DOMAIN t.node /\ left # right /\ left # p /\ right # p
  <2>1. Beside(t, g, p, i, left, right, t.node[p].keys[i])
    BY Neighbours
  <2> QED BY <2>1 DEF Beside
<1>2. /\ Heap(v) /\ v.root = t.root /\ DOMAIN v.node = DOMAIN t.node
      /\ v.node[left] = x
      /\ \A m \in DOMAIN t.node \ {left} :
           /\ SameContent(v.node[m], t.node[m])
           /\ v.node[m].parent = IF m \in moved THEN left ELSE t.node[m].parent
      /\ v.node[p] = t.node[p]
  BY <1>1 DEF InOne
<1>3. Position(t.node[p].keys, t.node[p].keys[i]) = i /\ Position(t.node[p].pointers, right) = i + 1
  BY EntryFound
<1>4. w = With(v, p, y)
  BY <1>2, <1>3 DEF remove_entry_from_node
<1>5. FenceOut(y, t.node[p], g[p], i)
  <2>1. t.node[p] \in NodeType /\ g[p] \in PlaceType /\ Fenced(t.node[p], g[p])
    BY HasChildren, NodeFields, PlaceFields DEF Shape, Placed
  <2> QED BY <2>1, FenceRemoved
<1> HIDE DEF y
<1>6. Wrote(w, v, p, y)
  <2>1. p \in Nat \ {Null}
    BY NodeFields DEF Shape, Placed
  <2>2. y \in NodeType
    BY <1>5 DEF FenceOut
  <2> HIDE DEF w
  <2> QED BY <1>2, <1>4, <2>1, <2>2, WithOne
<1> HIDE DEF w
<1>7. WithoutNode(u, w, right)
  BY <1>6, FreedNode DEF Wrote
<1> HIDE DEF u
<1>8. Folded(u, t, left, x, p, y, right, moved)
  <2>1. /\ Heap(w) /\ w.root = t.root /\ DOMAIN w.node = DOMAIN t.node /\ w.node[p] = y
        /\ \A n \in DOMAIN t.node : n # p => w.node[n] = v.node[n]
    BY <1>2, <1>6 DEF Wrote
  <2>2. /\ Heap(u) /\ u.root = t.root /\ DOMAIN u.node = DOMAIN t.node \ {right}
        /\ \A n \in DOMAIN t.node \ {right} : u.node[n] = w.node[n]
    BY <1>7, <2>1 DEF WithoutNode
  <2>3. u.node[left] = x /\ u.node[p] = y
    BY <1>1, <1>2, <2>1, <2>2
  <2>4. \A m \in DOMAIN t.node \ {left, p, right} : u.node[m] = v.node[m]
    BY <2>1, <2>2
  <2> QED BY <1>2, <2>2, <2>3, <2>4 DEF Folded
<1>9. Folding(t, g, u, left, x, p, y, right, moved, i)
  BY <1>5, <1>8 DEF Folding
<1> QED BY <1>9 DEF u, w, y

LeafMerged(u, t, g, left, right, x) ==
  /\ Body(u, Over(g, left, right), left) /\ Len(x.keys) = Len(t.node[left].keys) + Len(t.node[right].keys)
  /\ \A v : HasKey(x, v) <=> (HasKey(t.node[left], v) \/ HasKey(t.node[right], v))

NodeMerged(u, t, g, left, right, x) ==
  /\ Body(u, Over(g, left, right), left)
  /\ Len(x.keys) = (Len(t.node[left].keys) + Len(t.node[right].keys)) + 1

LEMMA MergedLeaf ==
  ASSUME NEW t, NEW g, Shape(t, g), NEW u, NEW left, NEW x \in NodeType, NEW p, NEW y, NEW right, NEW moved, NEW i,
         Folding(t, g, u, left, x, p, y, right, moved, i), t.node[left].is_leaf,
         x.keys = t.node[left].keys \o t.node[right].keys, x.pointers = t.node[left].pointers \o t.node[right].pointers,
         x.next = t.node[right].next
  PROVE  LeafMerged(u, t, g, left, right, x)
<1> DEFINE D == DOMAIN t.node
           h == Over(g, left, right)
           a == t.node[left]
           b == t.node[right]
<1>1. /\ p \in D /\ ~t.node[p].is_leaf /\ i \in 1..Len(t.node[p].keys)
      /\ t.node[p].pointers[i] = left /\ t.node[p].pointers[i + 1] = right
      /\ Folded(u, t, left, x, p, y, right, moved) /\ x.is_leaf = a.is_leaf /\ y.is_leaf = t.node[p].is_leaf
  BY DEF Folding, FenceOut
<1>2. /\ left \in D /\ right \in D /\ left # right /\ b.is_leaf /\ g[left].hi = g[right].lo
  <2>1. /\ left \in D /\ right \in D /\ left # right /\ g[left].hi = g[right].lo
        /\ t.node[right].is_leaf = t.node[left].is_leaf
    <3>1. Beside(t, g, p, i, left, right, t.node[p].keys[i])
      BY <1>1, Neighbours
    <3> QED BY <3>1 DEF Beside
  <2> QED BY <2>1, Zenon
<1>3. /\ Heap(u) /\ DOMAIN u.node = D \ {right} /\ u.node[left] = x /\ u.node[p] = y
      /\ \A m \in D \ {left, p, right} : SameContent(u.node[m], t.node[m])
  BY <1>1 DEF Folded
<1>4. Placed(t, g) /\ a \in NodeType /\ b \in NodeType /\ g[left] \in PlaceType /\ g[right] \in PlaceType
  BY <1>2, NodeFields, PlaceFields DEF Shape, Placed
<1>5. /\ Placed(u, h)
      /\ \A m \in D \ {right} : h[m].ht = g[m].ht /\ h[m].lo = g[m].lo
      /\ h[left].hi = g[right].hi
  BY <1>2, <1>3, <1>4, OverPlaced
<1> HIDE DEF h
<1>6. /\ LeafBody(a, g[left]) /\ g[left].lo < g[left].hi /\ g[left].ht = 0
      /\ LeafBody(b, g[right]) /\ g[right].lo < g[right].hi /\ Link(t, g, right)
  BY <1>2 DEF Shape, Body
<1>7. h[left] \in PlaceType /\ h[left].lo = g[left].lo
  BY <1>2, <1>3, <1>5, PlaceFields
<1>8. LeavesInOne(x, h[left], a, b)
  <2>1. x.keys = a.keys \o b.keys /\ x.pointers = a.pointers \o b.pointers
    OBVIOUS
  <2> HIDE DEF a, b
  <2> QED BY <1>2, <1>4, <1>5, <1>6, <1>7, <2>1, LeavesJoined
<1>9. Link(u, h, left)
  <2>1. u.node[left].next = b.next
    BY <1>3
  <2>2. CASE b.next = Null
    BY <1>5, <1>6, <2>1, <2>2 DEF Link
  <2>3. CASE b.next # Null
    <3> DEFINE e == b.next
    <3>1. e \in D /\ t.node[e].is_leaf /\ g[e].lo = g[right].hi
      BY <1>6, <2>3 DEF Link
    <3> HIDE DEF e
    <3>2. e # right
      <4>1. g[right].lo \in Int /\ g[right].hi \in Int
        BY <1>4 DEF PlaceType
      <4> QED BY <1>6, <3>1, <4>1
    <3>3. e # p
      BY <1>1, <3>1
    <3>4. u.node[e].is_leaf
      BY <1>1, <1>3, <3>1, <3>2, <3>3 DEF SameContent
    <3>5. e \in DOMAIN u.node /\ u.node[e].is_leaf /\ h[e].lo = h[left].hi
      BY <1>3, <1>5, <3>1, <3>2, <3>4
    <3> QED BY <2>1, <2>3, <3>5 DEF Link, e
  <2> QED BY <2>2, <2>3
<1>10. h[left].lo < h[left].hi /\ h[left].ht = 0
  <2>1. g[left].lo \in Int /\ g[left].hi \in Int /\ g[right].lo \in Int /\ g[right].hi \in Int
    BY <1>4 DEF PlaceType
  <2> QED BY <1>2, <1>5, <1>6, <2>1
<1>11. Body(u, h, left)
  BY <1>1, <1>3, <1>8, <1>9, <1>10 DEF Body, LeavesInOne
<1> QED BY <1>8, <1>11 DEF LeafMerged, LeavesInOne, h

LEMMA MergedNode ==
  ASSUME NEW t, NEW g, Shape(t, g), NEW u, NEW left, NEW x \in NodeType, NEW p, NEW y, NEW right, NEW moved, NEW i,
         Folding(t, g, u, left, x, p, y, right, moved, i), ~t.node[left].is_leaf,
         OneAfterOther(x, t.node[left], t.node[p].keys[i], t.node[right])
  PROVE  NodeMerged(u, t, g, left, right, x)
<1> DEFINE D == DOMAIN t.node
           h == Over(g, left, right)
           a == t.node[left]
           b == t.node[right]
           k == t.node[p].keys[i]
           l == Len(a.keys)
           e == Len(b.keys)
<1>1. /\ p \in D /\ ~t.node[p].is_leaf /\ i \in 1..Len(t.node[p].keys)
      /\ t.node[p].pointers[i] = left /\ t.node[p].pointers[i + 1] = right
      /\ Folded(u, t, left, x, p, y, right, moved) /\ x.is_leaf = a.is_leaf /\ x.parent = p
      /\ moved = IF a.is_leaf THEN {} ELSE ToSet(b.pointers)
  BY DEF Folding
<1>2. /\ left \in D /\ right \in D /\ left # right /\ ~b.is_leaf /\ k \in Int /\ g[left].hi = k /\ g[right].lo = k
      /\ g[p].ht = g[left].ht + 1 /\ g[right].ht = g[left].ht /\ left # p /\ right # p
  <2>1. /\ left \in D /\ right \in D /\ left # right /\ k \in Int /\ g[left].hi = k /\ g[right].lo = k
        /\ g[p].ht = g[left].ht + 1 /\ g[right].ht = g[left].ht /\ left # p /\ right # p
        /\ t.node[right].is_leaf = t.node[left].is_leaf
    <3>1. Beside(t, g, p, i, left, right, t.node[p].keys[i])
      BY <1>1, Neighbours
    <3> QED BY <3>1 DEF Beside
  <2>2. ~b.is_leaf
    BY <2>1, Zenon
  <2> QED BY <2>1, <2>2
<1>3. /\ Heap(u) /\ DOMAIN u.node = D \ {right} /\ u.node[left] = x
      /\ \A m \in D \ {left, p, right} : u.node[m].parent = IF m \in moved THEN left ELSE t.node[m].parent
  BY <1>1 DEF Folded
<1>4. Placed(t, g) /\ a \in NodeType /\ b \in NodeType /\ g[left] \in PlaceType /\ g[right] \in PlaceType
  BY <1>2, NodeFields, PlaceFields DEF Shape, Placed
<1>5. /\ Placed(u, h)
      /\ \A m \in D \ {right} : /\ m # left => h[m] = g[m]
                                /\ h[m].ht = g[m].ht /\ h[m].lo = g[m].lo
      /\ h[left].hi = g[right].hi
  BY <1>2, <1>3, <1>4, OverPlaced
<1> HIDE DEF h
<1>6. /\ Fenced(a, g[left]) /\ g[left].lo < g[left].hi /\ g[left].ht # 0
      /\ Fenced(b, g[right]) /\ g[right].lo < g[right].hi
  BY <1>2 DEF Shape, Body
<1>7. h[left] \in PlaceType /\ h[left].lo = g[left].lo
  BY <1>2, <1>3, <1>5, PlaceFields
<1>8. FencesInOne(x, h[left], a, g[left], b, g[right])
  <2>1. OneAfterOther(x, a, k, b)
    OBVIOUS
  <2> HIDE DEF a, b, k
  <2> QED BY <1>2, <1>4, <1>5, <1>6, <1>7, <2>1, FencesJoined
<1> DEFINE new(j) == Bound(x, h[left], j)
           lower(j) == Bound(a, g[left], j)
           upper(j) == Bound(b, g[right], j)
<1>9. /\ Fenced(x, h[left]) /\ Len(x.keys) = (l + e) + 1
      /\ \A j \in 0..((l + e) + 2) : new(j) = IF j <= l + 1 THEN lower(j) ELSE upper(j - (l + 1))
      /\ upper(0) = lower(l + 1)
      /\ \A j \in 1..((l + e) + 2) : x.pointers[j] = IF j <= l + 1 THEN a.pointers[j] ELSE b.pointers[j - (l + 1)]
  BY <1>8 DEF FencesInOne
<1>10. /\ l \in Nat /\ e \in Nat /\ Len(a.pointers) = l + 1 /\ Len(b.pointers) = e + 1
       /\ DOMAIN b.pointers = 1..(e + 1)
  <2>1. Len(a.pointers) = l + 1 /\ Len(b.pointers) = e + 1
    BY <1>6 DEF Fenced
  <2>2. a.keys \in Seq(Int) /\ b.keys \in Seq(Int) /\ b.pointers \in Seq(Int)
    BY <1>4 DEF NodeType
  <2>3. l \in Nat /\ e \in Nat /\ DOMAIN b.pointers = 1..Len(b.pointers)
    <3> HIDE DEF a, b
    <3> QED BY <2>2
  <2> HIDE DEF l, e
  <2> QED BY <2>1, <2>3
<1>11. \A j \in 1..(l + 1) :
          LET m == a.pointers[j]
          IN  /\ m \in D /\ t.node[m].parent = left /\ g[left].ht = g[m].ht + 1
              /\ g[m].lo = lower(j - 1) /\ g[m].hi = lower(j)
  <2>1. ASSUME NEW j \in 1..Len(t.node[left].pointers)
        PROVE  LET m == t.node[left].pointers[j]
               IN  /\ m \in D /\ t.node[m].parent = left /\ g[left].ht = g[m].ht + 1
                   /\ g[m].lo = lower(j - 1) /\ g[m].hi = lower(j)
    <3>1. Hangs(t, g, left, j)
      BY <1>2 DEF Shape, Body
    <3> QED BY <3>1 DEF Hangs
  <2> QED BY <1>10, <2>1
<1>12. \A j \in 1..(e + 1) :
          LET m == b.pointers[j]
          IN  /\ m \in D /\ t.node[m].parent = right /\ g[right].ht = g[m].ht + 1
              /\ g[m].lo = upper(j - 1) /\ g[m].hi = upper(j)
  <2>1. ASSUME NEW j \in 1..Len(t.node[right].pointers)
        PROVE  LET m == t.node[right].pointers[j]
               IN  /\ m \in D /\ t.node[m].parent = right /\ g[right].ht = g[m].ht + 1
                   /\ g[m].lo = upper(j - 1) /\ g[m].hi = upper(j)
    <3>1. Hangs(t, g, right, j)
      BY <1>2 DEF Shape, Body
    <3> QED BY <3>1 DEF Hangs
  <2> QED BY <1>10, <2>1
<1>13. \A m \in moved : m \in D /\ t.node[m].parent = right
  <2>1. SUFFICES ASSUME NEW m \in moved PROVE m \in D /\ t.node[m].parent = right
    OBVIOUS
  <2>2. PICK j \in 1..(e + 1) : b.pointers[j] = m
    BY <1>1, <1>10 DEF ToSet
  <2> QED BY <1>12, <2>2
<1>14. \A j \in 1..(e + 1) : b.pointers[j] \in moved
  BY <1>1, <1>10 DEF ToSet
<1>15. \A m \in D : g[left].ht = g[m].ht + 1 => m \notin {left, p, right}
  <2>1. g[left].ht \in Nat
    BY <1>2, <1>4, PlaceFields
  <2> QED BY <1>2, <2>1
<1> HIDE DEF l, e, new, lower, upper
<1>16. ASSUME NEW j \in 1..Len(x.pointers) PROVE Hangs(u, h, left, j)
  <2>1. j \in 1..((l + e) + 2) /\ j \in 0..((l + e) + 2) /\ j - 1 \in 0..((l + e) + 2)
    <3>1. Len(x.pointers) = Len(x.keys) + 1
      BY <1>9 DEF Fenced
    <3>2. Len(x.keys) = (l + e) + 1
      BY <1>9
    <3> DEFINE c == Len(x.keys)
               d == Len(x.pointers)
    <3>3. d = c + 1 /\ c = (l + e) + 1 /\ l \in Nat /\ e \in Nat /\ j \in 1..d
      BY <1>10, <3>1, <3>2
    <3> HIDE DEF c, d
    <3> QED BY <3>3
  <2>2. \E m : /\ x.pointers[j] = m /\ m \in D \ {left, p, right} /\ u.node[m].parent = left
               /\ g[left].ht = g[m].ht + 1 /\ g[m].lo = new(j - 1) /\ g[m].hi = new(j)
    <3>1. CASE j <= l + 1
      <4> DEFINE m == a.pointers[j]
      <4>1. j \in 1..(l + 1) /\ j - 1 <= l + 1
        BY <1>10, <2>1, <3>1
      <4>2. x.pointers[j] = m /\ new(j) = lower(j) /\ new(j - 1) = lower(j - 1)
        BY <1>9, <2>1, <3>1, <4>1
      <4>3. /\ m \in D /\ t.node[m].parent = left /\ g[left].ht = g[m].ht + 1
            /\ g[m].lo = lower(j - 1) /\ g[m].hi = lower(j)
        BY <1>11, <4>1
      <4> HIDE DEF m
      <4>4. m \notin {left, p, right} /\ m \notin moved
        BY <1>2, <1>13, <1>15, <4>3
      <4>5. u.node[m].parent = left
        BY <1>3, <4>3, <4>4
      <4> QED BY <4>2, <4>3, <4>4, <4>5
    <3>2. CASE ~(j <= l + 1)
      <4> DEFINE c == j - (l + 1)
                 m == b.pointers[c]
      <4>0. l \in Nat /\ e \in Nat
        BY <1>10
      <4>1. c \in 1..(e + 1) /\ ((j - 1 = l + 1 /\ c - 1 = 0) \/ (~(j - 1 <= l + 1) /\ (j - 1) - (l + 1) = c - 1))
        BY <4>0, <2>1, <3>2
      <4>2. x.pointers[j] = m /\ new(j) = upper(c)
        BY <1>9, <2>1, <3>2
      <4>3. new(j - 1) = upper(c - 1)
        <5>1. new(j - 1) = IF j - 1 <= l + 1 THEN lower(j - 1) ELSE upper((j - 1) - (l + 1))
          BY <1>9, <2>1
        <5>2. j - 1 = l + 1 => j - 1 <= l + 1
          BY <4>0
        <5> HIDE DEF c
        <5> QED BY <1>9, <4>1, <5>1, <5>2
      <4> HIDE DEF c
      <4>4. /\ m \in D /\ t.node[m].parent = right /\ g[right].ht = g[m].ht + 1
            /\ g[m].lo = upper(c - 1) /\ g[m].hi = upper(c) /\ m \in moved
        BY <1>12, <1>14, <4>1
      <4> HIDE DEF m
      <4>5. m \notin {left, p, right}
        BY <1>2, <1>15, <4>4
      <4>6. u.node[m].parent = left
        BY <1>3, <4>4, <4>5
      <4> QED BY <1>2, <4>2, <4>3, <4>4, <4>5, <4>6
    <3> QED BY <3>1, <3>2
  <2>3. PICK m : /\ x.pointers[j] = m /\ m \in D \ {left, p, right} /\ u.node[m].parent = left
                 /\ g[left].ht = g[m].ht + 1 /\ g[m].lo = new(j - 1) /\ g[m].hi = new(j)
    BY <2>2
  <2>4. h[m] = g[m] /\ h[left].ht = g[left].ht /\ m \in DOMAIN u.node
    BY <1>2, <1>3, <1>5, <2>3
  <2> QED BY <1>3, <2>3, <2>4 DEF Hangs, new
<1>17. h[left].lo < h[left].hi /\ h[left].ht # 0
  <2> DEFINE x0 == g[left].lo
             x1 == g[right].hi
  <2>1. x0 \in Int /\ x1 \in Int /\ k \in Int
    BY <1>2, <1>4 DEF PlaceType
  <2>2. x0 < k /\ k < x1
    BY <1>2, <1>6
  <2>3. h[left].lo = x0 /\ h[left].hi = x1 /\ h[left].ht = g[left].ht /\ g[left].ht # 0
    BY <1>2, <1>5, <1>6
  <2> HIDE DEF x0, x1, k
  <2>4. x0 < x1
    BY <2>1, <2>2
  <2> QED BY <2>3, <2>4
<1>18. Body(u, h, left)
  BY <1>1, <1>3, <1>9, <1>16, <1>17 DEF Body
<1> QED BY <1>9, <1>18 DEF NodeMerged, h, l, e

\* The keys of a tree are those of its leaves.
LEMMA SameKeys ==
  ASSUME NEW t, Heap(t), NEW u, Heap(u),
         \A v : (\E m \in DOMAIN u.node : Holds(u, m, v)) <=> (\E m \in DOMAIN t.node : Holds(t, m, v))
  PROVE  KeysOf(u) = KeysOf(t)
<1>1. \A v : v \in KeysOf(u) <=> (\E m \in DOMAIN u.node : Holds(u, m, v))
  BY KeyHeld
<1>2. \A v : v \in KeysOf(t) <=> (\E m \in DOMAIN t.node : Holds(t, m, v))
  BY KeyHeld
<1> QED BY <1>1, <1>2

\* The node right is gone, and the keys and children of both are in left.
Merged(u, t, p, left, right) ==
  /\ IsTree(u) /\ u.root = t.root /\ DOMAIN u.node = DOMAIN t.node \ {right}
  /\ p \in DOMAIN u.node /\ left \in DOMAIN u.node /\ left # p /\ right # p
  /\ ~u.node[p].is_leaf /\ u.node[left].is_leaf = t.node[left].is_leaf
  /\ Len(u.node[p].keys) = Len(t.node[p].keys) - 1
  /\ Len(u.node[left].keys) = (Len(t.node[left].keys) + Len(t.node[right].keys)) + (IF t.node[left].is_leaf THEN 0 ELSE 1)
  /\ \A m \in DOMAIN t.node \ {left, p, right} : SameContent(u.node[m], t.node[m])
  /\ KeysOf(u) = KeysOf(t)

\* What FoldedIsTree leaves.
LEMMA FoldedIsMerged ==
  ASSUME NEW t, NEW g, Shape(t, g), NEW u, NEW left, NEW x, NEW p, NEW y, NEW right, NEW moved, NEW i,
         Folding(t, g, u, left, x, p, y, right, moved, i), Body(u, Over(g, left, right), left),
         Len(x.keys) = (Len(t.node[left].keys) + Len(t.node[right].keys)) + (IF t.node[left].is_leaf THEN 0 ELSE 1),
         t.node[left].is_leaf => \A v : HasKey(x, v) <=> (HasKey(t.node[left], v) \/ HasKey(t.node[right], v))
  PROVE  Merged(u, t, p, left, right)
<1>1. IsTree(u)
  BY FoldedIsTree DEF IsTree
<1>2. /\ p \in DOMAIN t.node /\ ~t.node[p].is_leaf /\ i \in 1..Len(t.node[p].keys)
      /\ t.node[p].pointers[i] = left /\ t.node[p].pointers[i + 1] = right
      /\ Folded(u, t, left, x, p, y, right, moved) /\ x.is_leaf = t.node[left].is_leaf
      /\ y.is_leaf = t.node[p].is_leaf /\ Len(y.keys) = Len(t.node[p].keys) - 1
  BY DEF Folding, FenceOut
<1>3. /\ left \in DOMAIN t.node /\ right \in DOMAIN t.node /\ left # right /\ left # p /\ right # p
      /\ t.node[right].is_leaf = t.node[left].is_leaf
  <2>1. Beside(t, g, p, i, left, right, t.node[p].keys[i])
    BY <1>2, Neighbours
  <2> QED BY <2>1 DEF Beside
<1>4. /\ Heap(u) /\ u.root = t.root /\ DOMAIN u.node = DOMAIN t.node \ {right}
      /\ u.node[left] = x /\ u.node[p] = y
      /\ \A m \in DOMAIN t.node \ {left, p, right} : SameContent(u.node[m], t.node[m])
  BY <1>2 DEF Folded
<1>5. Heap(t)
  BY DEF Shape, Placed
<1>6. ~u.node[p].is_leaf /\ u.node[left].is_leaf = t.node[left].is_leaf
  BY <1>2, <1>4, Zenon
<1>7. \A m \in DOMAIN t.node \ {left, p, right} : \A v : Holds(u, m, v) <=> Holds(t, m, v)
  BY <1>4 DEF Holds, HasKey, SameContent
<1>8. \A v : ~Holds(u, p, v) /\ ~Holds(t, p, v)
  BY <1>2, <1>6 DEF Holds
<1>9. \A v : Holds(u, left, v) <=> (Holds(t, left, v) \/ Holds(t, right, v))
  <2>1. CASE t.node[left].is_leaf
    <3>1. t.node[right].is_leaf /\ u.node[left].is_leaf
      BY <1>3, <1>6, <2>1, Zenon
    <3> QED BY <1>4, <2>1, <3>1 DEF Holds
  <2>2. CASE ~t.node[left].is_leaf
    <3>1. ~t.node[right].is_leaf /\ ~u.node[left].is_leaf
      BY <1>3, <1>6, <2>2, Zenon
    <3> QED BY <2>2, <3>1 DEF Holds
  <2> QED BY <2>1, <2>2
<1>10. KeysOf(u) = KeysOf(t)
  <2>1. ASSUME NEW v, NEW m \in DOMAIN u.node, Holds(u, m, v) PROVE \E n \in DOMAIN t.node : Holds(t, n, v)
    BY <1>3, <1>4, <1>7, <1>8, <1>9, <2>1
  <2>2. ASSUME NEW v, NEW m \in DOMAIN t.node, Holds(t, m, v) PROVE \E n \in DOMAIN u.node : Holds(u, n, v)
    <3>1. left \in DOMAIN u.node
      BY <1>3, <1>4
    <3>2. CASE m \in {left, right}
      BY <1>9, <2>2, <3>1, <3>2
    <3>3. CASE m \notin {left, right}
      BY <1>4, <1>7, <1>8, <2>2, <3>3
    <3> QED BY <3>2, <3>3
  <2> QED BY <1>4, <1>5, <2>1, <2>2, SameKeys
<1> QED BY <1>1, <1>2, <1>3, <1>4, <1>6, <1>10 DEF Merged

LEMMA CoalescedIsMerged ==
  ASSUME NEW t, NEW g, Shape(t, g), NEW p \in DOMAIN t.node, ~t.node[p].is_leaf, NEW i \in 1..Len(t.node[p].keys),
         NEW left, NEW right, NEW k, t.node[p].pointers[i] = left, t.node[p].pointers[i + 1] = right, t.node[p].keys[i] = k
  PROVE  Merged(Freed(remove_entry_from_node(Coalesced(t, left, right, k), p, k, right), right), t, p, left, right)
<1> DEFINE v == Coalesced(t, left, right, k)
           u == Freed(remove_entry_from_node(v, p, k, right), right)
           y == [t.node[p] EXCEPT !.keys = RemoveAt(@, i), !.pointers = RemoveAt(@, i + 1)]
<1>1. /\ left \in DOMAIN t.node /\ right \in DOMAIN t.node /\ left # right /\ left # p /\ right # p
      /\ t.node[left].parent = p /\ t.node[right].parent = p
      /\ g[p].ht = g[left].ht + 1 /\ g[right].ht = g[left].ht /\ k \in Int
      /\ t.node[right].is_leaf = t.node[left].is_leaf
  <2>1. Beside(t, g, p, i, left, right, k)
    BY Neighbours
  <2> QED BY <2>1 DEF Beside
<1>2. Heap(t)
  BY DEF Shape, Placed
<1> HIDE DEF v, y
<1>3. ASSUME t.node[left].is_leaf PROVE Merged(u, t, p, left, right)
  <2> DEFINE x == [t.node[left] EXCEPT !.keys = @ \o t.node[right].keys, !.pointers = @ \o t.node[right].pointers,
                                       !.next = t.node[right].next]
  <2>1. /\ InOne(v, t, left, x, {})
        /\ x \in NodeType /\ x.is_leaf = t.node[left].is_leaf /\ x.parent = t.node[left].parent
        /\ x.next = t.node[right].next
        /\ x.keys = t.node[left].keys \o t.node[right].keys
        /\ x.pointers = t.node[left].pointers \o t.node[right].pointers
    <3>1. OneLeaf(v, t, left, right, x)
      BY <1>1, <1>2, <1>3, LeafInOne DEF v
    <3> HIDE DEF x
    <3> QED BY <3>1 DEF OneLeaf
  <2> HIDE DEF x
  <2>2. Folding(t, g, u, left, x, p, y, right, {}, i)
    <3>1. p \notin {} /\ x.parent = p
      BY <1>1, <2>1
    <3> HIDE DEF u
    <3>2. Folding(t, g, Freed(remove_entry_from_node(v, p, t.node[p].keys[i], right), right), left, x, p, y, right, {}, i)
      BY <1>3, <2>1, <3>1, EntryAndNodeRemoved DEF y
    <3> QED BY <3>2 DEF u
  <2> HIDE DEF u
  <2>3. /\ Body(u, Over(g, left, right), left) /\ Len(x.keys) = Len(t.node[left].keys) + Len(t.node[right].keys)
        /\ \A e : HasKey(x, e) <=> (HasKey(t.node[left], e) \/ HasKey(t.node[right], e))
    <3>1. LeafMerged(u, t, g, left, right, x)
      BY <1>3, <2>1, <2>2, MergedLeaf
    <3> QED BY <3>1 DEF LeafMerged
  <2>4. Len(x.keys) = (Len(t.node[left].keys) + Len(t.node[right].keys)) + (IF t.node[left].is_leaf THEN 0 ELSE 1)
    <3>1. Len(t.node[left].keys) \in Nat /\ Len(t.node[right].keys) \in Nat
      BY <1>1, <1>2, NodeFields
    <3> QED BY <1>3, <2>3, <3>1
  <2> QED BY <2>2, <2>3, <2>4, FoldedIsMerged
<1>4. ASSUME ~t.node[left].is_leaf PROVE Merged(u, t, p, left, right)
  <2> DEFINE x == [t.node[left] EXCEPT !.keys = @ \o <<k>> \o t.node[right].keys,
                                       !.pointers = @ \o t.node[right].pointers]
             moved == ToSet(t.node[right].pointers)
  <2>1. \A m \in moved : m \in DOMAIN t.node /\ g[right].ht = g[m].ht + 1
    <3>1. SUFFICES ASSUME NEW m \in moved PROVE m \in DOMAIN t.node /\ g[right].ht = g[m].ht + 1
      OBVIOUS
    <3>2. ~t.node[right].is_leaf
      BY <1>1, <1>4, Zenon
    <3>3. PICK j \in 1..Len(t.node[right].pointers) : t.node[right].pointers[j] = m
      <4>1. t.node[right].pointers \in Seq(Int)
        BY <1>1, <1>2, NodeFields
      <4> QED BY <3>1, <4>1 DEF ToSet
    <3>4. Hangs(t, g, right, j)
      BY <1>1, <3>2 DEF Shape, Body
    <3> QED BY <3>3, <3>4 DEF Hangs
  <2>2. left \notin moved /\ p \notin moved
    <3>1. g[left].ht \in Nat
      BY <1>1, PlaceFields DEF Shape
    <3> HIDE DEF moved
    <3> QED BY <1>1, <2>1, <3>1
  <2>3. /\ InOne(v, t, left, x, moved)
        /\ x \in NodeType /\ x.is_leaf = t.node[left].is_leaf /\ x.parent = t.node[left].parent
        /\ x.keys = t.node[left].keys \o <<k>> \o t.node[right].keys
        /\ x.pointers = t.node[left].pointers \o t.node[right].pointers
    <3>1. OneNode(v, t, left, right, k, x, moved)
      BY <1>1, <1>2, <1>4, <2>2, NodeInOne DEF v
    <3> HIDE DEF x
    <3> QED BY <3>1 DEF OneNode
  <2> HIDE DEF x
  <2>4. Folding(t, g, u, left, x, p, y, right, moved, i)
    <3>1. x.parent = p
      BY <1>1, <2>3
    <3>2. moved = IF t.node[left].is_leaf THEN {} ELSE ToSet(t.node[right].pointers)
      BY <1>4
    <3> HIDE DEF u, moved
    <3>3. Folding(t, g, Freed(remove_entry_from_node(v, p, t.node[p].keys[i], right), right), left, x, p, y, right, moved, i)
      BY <1>4, <2>2, <2>3, <3>1, <3>2, EntryAndNodeRemoved DEF y
    <3> QED BY <3>3 DEF u
  <2> HIDE DEF u, moved
  <2>5. /\ Body(u, Over(g, left, right), left)
        /\ Len(x.keys) = (Len(t.node[left].keys) + Len(t.node[right].keys)) + 1
    <3>1. OneAfterOther(x, t.node[left], t.node[p].keys[i], t.node[right])
      BY <2>3 DEF OneAfterOther
    <3>2. NodeMerged(u, t, g, left, right, x)
      BY <1>4, <2>3, <2>4, <3>1, MergedNode
    <3> QED BY <3>2 DEF NodeMerged
  <2>6. Len(x.keys) = (Len(t.node[left].keys) + Len(t.node[right].keys)) + (IF t.node[left].is_leaf THEN 0 ELSE 1)
    BY <1>4, <2>5
  <2> QED BY <1>4, <2>4, <2>5, <2>6, FoldedIsMerged
<1> QED BY <1>3, <1>4 DEF u, v

-----------------------------------------------------------------------------
(* A root that has no key left.                                            *)

LEMMA LastLeafFreed ==
  ASSUME NEW t, IsTree(t), t.node[t.root].is_leaf, t.node[t.root].keys = <<>>
  PROVE  LET u == adjust_root(t) IN u.root = Null /\ u.node = <<>> /\ KeysOf(t) = {}
<1> PICK g : Shape(t, g)
  BY DEF IsTree
<1>1. Heap(t) /\ t.root \in DOMAIN t.node
  BY DEF Shape, Placed, RootOK
<1>2. \A n \in DOMAIN t.node : n = t.root
  <2>1. SUFFICES ASSUME NEW n \in DOMAIN t.node PROVE n = t.root
    OBVIOUS
  <2>2. /\ g[n].ht \in Nat /\ g[t.root].ht \in Nat /\ g[n].ht <= g[t.root].ht
        /\ (g[n].ht = g[t.root].ht) = (n = t.root)
    BY Heights
  <2>3. g[t.root].ht = 0
    BY <1>1 DEF Shape, Body
  <2> QED BY <2>2, <2>3
<1>3. KeysOf(t) = {}
  <2>1. \A v : v \notin KeysOf(t)
    <3>1. SUFFICES ASSUME NEW v, v \in KeysOf(t) PROVE FALSE
      OBVIOUS
    <3>2. PICK n \in DOMAIN t.node : Holds(t, n, v)
      BY <1>1, <3>1, KeyHeld
    <3>3. Len(t.node[n].keys) = 0
      BY <1>2
    <3> QED BY <3>2, <3>3 DEF Holds, HasKey
  <2> QED BY <2>1
<1>4. adjust_root(t) = [Freed(t, t.root) EXCEPT !.root = Null]
  BY DEF adjust_root
<1>5. WithoutNode(Freed(t, t.root), t, t.root)
  BY <1>1, FreedNode
<1> DEFINE w == Freed(t, t.root)
<1> HIDE DEF w
<1>6. Heap(w) /\ DOMAIN w.node = {}
  BY <1>2, <1>5 DEF WithoutNode, w
<1>7. w.node = <<>>
  BY <1>6 DEF Heap
<1>8. [w EXCEPT !.root = Null].root = Null /\ [w EXCEPT !.root = Null].node = <<>>
  BY <1>6, <1>7, RootedElsewhere
<1> QED BY <1>3, <1>4, <1>8 DEF w

\* The root is gone, and its only child c is the root.
Lowered(u, t, c) ==
  /\ IsTree(u) /\ u.root = c /\ c \in DOMAIN u.node /\ c # t.root /\ DOMAIN u.node = DOMAIN t.node \ {t.root}
  /\ \A m \in DOMAIN u.node : SameContent(u.node[m], t.node[m])
  /\ KeysOf(u) = KeysOf(t)

LEMMA RootLowered ==
  ASSUME NEW t, IsTree(t), ~t.node[t.root].is_leaf, t.node[t.root].keys = <<>>
  PROVE  Lowered(adjust_root(t), t, t.node[t.root].pointers[1])
<1> PICK g : Shape(t, g)
  BY DEF IsTree
<1> DEFINE r == t.root
           c == t.node[r].pointers[1]
           D == DOMAIN t.node
           v == Adopt(t, Null, {c})
           w == Freed(v, r)
           u == [w EXCEPT !.root = c]
           h == [m \in D \ {r} |-> g[m]]
<1>1. Placed(t, g) /\ Heap(t) /\ RootOK(t, g) /\ r \in D /\ t.node[r].parent = Null
  BY DEF Shape, Placed, RootOK
<1>2. Len(t.node[r].keys) = 0
  OBVIOUS
<1>3. Len(t.node[r].pointers) = 1 /\ Fenced(t.node[r], g[r]) /\ 1 \in 1..Len(t.node[r].pointers)
  <2>1. /\ Len(t.node[r].pointers) = Len(t.node[r].keys) + 1
        /\ 1 \in 1..Len(t.node[r].pointers) /\ Fenced(t.node[r], g[r])
    BY <1>1, HasChildren
  <2>2. Len(t.node[r].keys) + 1 = 1
    BY <1>2
  <2> QED BY <2>1, <2>2
<1>4. /\ c \in D /\ t.node[c].parent = r /\ g[r].ht = g[c].ht + 1 /\ g[c].lo = g[r].lo /\ g[c].hi = g[r].hi
  <2>1. Hangs(t, g, r, 1)
    BY <1>1, <1>3 DEF Shape, Body
  <2>2. Bound(t.node[r], g[r], 0) = g[r].lo /\ Bound(t.node[r], g[r], 1) = g[r].hi
    BY <1>2 DEF Bound
  <2> QED BY <2>1, <2>2 DEF Hangs
<1>5. r # Null /\ c # r
  <2>1. g[c].ht \in Nat
    BY <1>1, <1>4, PlaceFields
  <2>2. r # Null
    BY <1>1, NodeFields
  <2> QED BY <1>4, <2>1, <2>2
<1>6. adjust_root(t) = u
  BY DEF adjust_root
<1> HIDE DEF r, c
<1>7. Adopted(v, t, Null, {c})
  BY <1>1, AdoptNodes DEF Null
<1> HIDE DEF v
<1>8. WithoutNode(w, v, r)
  BY <1>7, FreedNode DEF Adopted
<1> HIDE DEF w
<1>9. Heap(u) /\ u.root = c /\ u.node = w.node
  BY <1>8, RootedElsewhere DEF WithoutNode
<1> HIDE DEF u
<1>10. /\ DOMAIN u.node = D \ {r}
       /\ \A m \in D \ {r} : u.node[m] = IF m = c THEN [t.node[m] EXCEPT !.parent = Null] ELSE t.node[m]
  <2>1. /\ DOMAIN v.node = D /\ \A m \in D : v.node[m] = IF m = c THEN [t.node[m] EXCEPT !.parent = Null] ELSE t.node[m]
    BY <1>7 DEF Adopted
  <2> QED BY <1>8, <1>9, <2>1 DEF WithoutNode
<1>11. ASSUME NEW m \in D \ {r}
       PROVE  /\ SameContent(u.node[m], t.node[m])
              /\ u.node[m].parent = IF m = c THEN Null ELSE t.node[m].parent
  <2>1. t.node[m] \in NodeType
    BY <1>1, NodeFields
  <2>2. CASE m = c
    <3>1. u.node[m] = [t.node[m] EXCEPT !.parent = Null]
      BY <1>10, <2>2
    <3> QED BY <2>1, <2>2, <3>1 DEF SameContent, NodeType
  <2>3. CASE m # c
    <3>1. u.node[m] = t.node[m]
      BY <1>10, <2>3
    <3> QED BY <2>3, <3>1 DEF SameContent
  <2> QED BY <2>2, <2>3
<1>12. \A m \in D : t.node[m].parent = r /\ m # r => m = c
  <2>1. SUFFICES ASSUME NEW m \in D, t.node[m].parent = r, m # r PROVE m = c
    OBVIOUS
  <2>2. \E i \in 1..Len(t.node[r].pointers) : t.node[r].pointers[i] = m
    BY <2>1 DEF Shape, Under, IsChild, r
  <2> QED BY <1>3, <2>2 DEF c
<1>13. Placed(u, h) /\ \A m \in D \ {r} : h[m] = g[m]
  <2>1. h \in [D \ {r} -> PlaceType]
    BY <1>1, PlaceFields
  <2> QED BY <1>9, <1>10, <2>1 DEF Placed
<1> HIDE DEF h
<1>14. RootOK(u, h)
  BY <1>1, <1>4, <1>5, <1>9, <1>10, <1>11, <1>13 DEF RootOK, r
<1>15. ASSUME NEW m \in D \ {r} PROVE Body(u, h, m)
  <2>1. Body(t, g, m) /\ h[m] = g[m] /\ SameContent(u.node[m], t.node[m])
    BY <1>11, <1>13 DEF Shape
  <2>2. t.node[m].is_leaf => SameLink(t, g, u, h, m)
    <3>1. SUFFICES ASSUME t.node[m].is_leaf, t.node[m].next # Null
                   PROVE  LET e == t.node[m].next
                          IN  e \in DOMAIN u.node /\ u.node[e].is_leaf /\ h[e].lo = g[e].lo
      BY DEF SameLink
    <3> DEFINE e == t.node[m].next
    <3>2. e \in D /\ t.node[e].is_leaf
      BY <3>1, LinkOf
    <3> HIDE DEF e
    <3>3. e # r
      BY <3>2 DEF r
    <3>4. e \in DOMAIN u.node /\ u.node[e].is_leaf /\ h[e].lo = g[e].lo
      BY <1>10, <1>11, <1>13, <3>2, <3>3 DEF SameContent
    <3> QED BY <3>4 DEF e
  <2>3. ~t.node[m].is_leaf => SameChildren(t, g, u, h, m)
    <3>1. SUFFICES ASSUME ~t.node[m].is_leaf, NEW j \in 1..Len(t.node[m].pointers)
                   PROVE  LET e == t.node[m].pointers[j]
                          IN  e \in DOMAIN u.node /\ u.node[e].parent = m /\ h[e] = g[e]
      BY DEF SameChildren
    <3> DEFINE e == t.node[m].pointers[j]
    <3>2. e \in D /\ t.node[e].parent = m
      BY <3>1, Children
    <3> HIDE DEF e
    <3>3. e # c /\ e # r
      <4>1. m # Null
        BY <1>1, NodeFields
      <4> QED BY <1>1, <1>4, <1>15, <3>2, <4>1
    <3>4. e \in DOMAIN u.node /\ u.node[e].parent = m /\ h[e] = g[e]
      BY <1>10, <1>11, <1>13, <3>2, <3>3
    <3> QED BY <3>4 DEF e
  <2> QED BY <2>1, <2>2, <2>3, SameBody
<1>16. ASSUME NEW m \in D \ {r}, m # u.root PROVE Under(u, h, m)
  <2>1. IsChild(t, m)
    BY <1>16 DEF Shape, Under, r
  <2> DEFINE q == t.node[m].parent
  <2>2. q \in D /\ ~t.node[q].is_leaf /\ (\E j \in 1..Len(t.node[q].pointers) : t.node[q].pointers[j] = m) /\ g[q].ht = g[m].ht + 1
    BY <1>16, Above DEF r
  <2>3. u.node[m].parent = q /\ q # r
    BY <1>9, <1>11, <1>12, <1>16
  <2> HIDE DEF q
  <2>4. IsChild(u, m)
    BY <1>10, <1>11, <2>2, <2>3 DEF IsChild, SameContent
  <2>5. g[m].ht < g[c].ht
    <3>1. /\ g[q].ht \in Nat /\ g[r].ht \in Nat /\ g[q].ht <= g[r].ht /\ (g[q].ht = g[r].ht) = (q = r)
      BY <2>2, Heights DEF r
    <3>2. g[m].ht \in Nat /\ g[c].ht \in Nat
      BY <1>1, <1>4, PlaceFields
    <3> QED BY <1>4, <2>2, <2>3, <3>1, <3>2
  <2> QED BY <1>4, <1>5, <1>9, <1>13, <2>4, <2>5 DEF Under
<1>17. Shape(u, h)
  BY <1>10, <1>13, <1>14, <1>15, <1>16 DEF Shape
<1>18. KeysOf(u) = KeysOf(t)
  <2>1. \A m \in D \ {r} : \A e : Holds(u, m, e) <=> Holds(t, m, e)
    BY <1>11 DEF Holds, HasKey, SameContent
  <2>2. \A e : ~Holds(t, r, e)
    BY DEF Holds, r
  <2> QED BY <1>1, <1>9, <1>10, <2>1, <2>2, SameKeys
<1>19. Lowered(u, t, c)
  BY <1>4, <1>5, <1>9, <1>10, <1>11, <1>17, <1>18 DEF Lowered, IsTree, r
<1> QED BY <1>6, <1>19 DEF c, r
=============================================================================
