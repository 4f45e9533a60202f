--------------------------- MODULE PoliciesProofs ---------------------------
(***************************************************************************)
(* Proofs about Policies for any pool, division of it, queue and blocks:   *)
(* each of the three replacement policies does what the cache relies on.   *)
(***************************************************************************)
EXTENDS Policies, FiniteSetTheorems, SequenceTheorems, WellFoundedInduction, TLAPS

-----------------------------------------------------------------------------
(* Sequences without repetition.                                           *)

Distinct(s) == \A i, j \in DOMAIN s : s[i] = s[j] => i = j

\* A set of numbers up to n has a greatest one.
LEMMA GreatestExists ==
  ASSUME NEW n \in Nat, NEW S \in SUBSET (0..n), S # {}
  PROVE  \E k \in S : \A j \in S : j <= k
<1> DEFINE T == {k..n : k \in S}
<1>1. T \subseteq FiniteSubsetsOf(Nat)
  <2>1. \A k \in S : IsFiniteSet(k..n)
    BY FS_Interval
  <2> QED BY <2>1 DEF FiniteSubsetsOf
<1>2. \E x \in T : \A y \in T : ~(<<y, x>> \in StrictSubsetOrdering(Nat))
  <2>1. T # {} OBVIOUS
  <2> HIDE DEF T
  <2> QED BY <1>1, <2>1, FS_StrictSubsetOrderingWellFounded, WFMin
<1>3. PICK k \in S : \A j \in S : ~(<<j..n, k..n>> \in StrictSubsetOrdering(Nat))
  BY <1>2
<1>4. ASSUME NEW j \in S PROVE j <= k
  <2>1. SUFFICES ASSUME k < j PROVE FALSE
    OBVIOUS
  <2>2. j..n \subseteq k..n /\ j..n # k..n
    <3>1. k \in k..n /\ k \notin j..n BY <2>1
    <3> QED BY <2>1, <3>1
  <2>3. <<j..n, k..n>> \in StrictSubsetOrdering(Nat)
    BY <2>2 DEF StrictSubsetOrdering
  <2> QED BY <2>3, <1>3
<1> QED BY <1>4

\* What is in two lists one after the other.
LEMMA ConcatSet ==
  ASSUME NEW S, NEW s \in Seq(S), NEW t \in Seq(S)
  PROVE  ToSet(s \o t) = ToSet(s) \cup ToSet(t)
<1>1. ToSet(s \o t) \subseteq ToSet(s) \cup ToSet(t)
  BY DEF ToSet
<1>2. ASSUME NEW i \in DOMAIN s PROVE s[i] \in ToSet(s \o t)
  <2>1. (s \o t)[i] = s[i] /\ i \in DOMAIN (s \o t) OBVIOUS
  <2> QED BY <2>1 DEF ToSet
<1>3. ASSUME NEW i \in DOMAIN t PROVE t[i] \in ToSet(s \o t)
  <2>1. (s \o t)[Len(s) + i] = t[i] /\ Len(s) + i \in DOMAIN (s \o t) OBVIOUS
  <2> QED BY <2>1 DEF ToSet
<1> QED BY <1>1, <1>2, <1>3 DEF ToSet

\* Two lists one after the other have each element once if they do and share none.
LEMMA ConcatDistinct ==
  ASSUME NEW S, NEW s \in Seq(S), NEW t \in Seq(S)
  PROVE  Distinct(s \o t) <=> Distinct(s) /\ Distinct(t) /\ ToSet(s) \cap ToSet(t) = {}
<1> DEFINE u == s \o t
<1>1. /\ \A i \in DOMAIN s : i \in DOMAIN u /\ u[i] = s[i]
      /\ \A i \in DOMAIN t : Len(s) + i \in DOMAIN u /\ u[Len(s) + i] = t[i]
      /\ DOMAIN s \subseteq Nat /\ DOMAIN t \subseteq Nat \ {0}
      /\ \A i \in DOMAIN s : i <= Len(s)
      /\ \A i \in DOMAIN u : i \in DOMAIN s \/ \E j \in DOMAIN t : i = Len(s) + j
  <2>1. \A i \in DOMAIN u : i \notin DOMAIN s => i - Len(s) \in DOMAIN t /\ i = Len(s) + (i - Len(s))
    OBVIOUS
  <2> QED BY <2>1
<1>2. ASSUME Distinct(u) PROVE Distinct(s) /\ Distinct(t) /\ ToSet(s) \cap ToSet(t) = {}
  <2>1. Distinct(s) BY <1>1, <1>2 DEF Distinct
  <2>2. Distinct(t)
    <3>1. SUFFICES ASSUME NEW i \in DOMAIN t, NEW j \in DOMAIN t, t[i] = t[j] PROVE i = j
      BY DEF Distinct
    <3>2. Len(s) + i = Len(s) + j BY <3>1, <1>1, <1>2 DEF Distinct
    <3> QED BY <3>2, <1>1
  <2>3. ASSUME NEW i \in DOMAIN s, NEW j \in DOMAIN t, s[i] = t[j] PROVE FALSE
    <3>1. i = Len(s) + j BY <2>3, <1>1, <1>2 DEF Distinct
    <3> QED BY <3>1, <1>1
  <2> QED BY <2>1, <2>2, <2>3 DEF ToSet
<1>3. ASSUME Distinct(s), Distinct(t), ToSet(s) \cap ToSet(t) = {} PROVE Distinct(u)
  <2>1. SUFFICES ASSUME NEW i \in DOMAIN u, NEW j \in DOMAIN u, u[i] = u[j] PROVE i = j
    BY DEF Distinct
  <2>2. \A m \in DOMAIN s, k \in DOMAIN t : s[m] # t[k]
    BY <1>3 DEF ToSet
  <2> HIDE DEF u
  <2> QED BY <1>1, <1>3, <2>1, <2>2 DEF Distinct
<1> QED BY <1>2, <1>3

\* A list cut after n elements.
Upto(s, n) == SubSeq(s, 1, n)
After(s, n) == SubSeq(s, n + 1, Len(s))

LEMMA Cut ==
  ASSUME NEW S, NEW s \in Seq(S), NEW n \in 0..Len(s)
  PROVE  /\ Upto(s, n) \in Seq(S) /\ After(s, n) \in Seq(S)
         /\ Len(Upto(s, n)) = n /\ Len(After(s, n)) = Len(s) - n
         /\ s = Upto(s, n) \o After(s, n)
         /\ ToSet(s) = ToSet(Upto(s, n)) \cup ToSet(After(s, n))
         /\ Distinct(s) => /\ Distinct(Upto(s, n)) /\ Distinct(After(s, n))
                           /\ ToSet(Upto(s, n)) \cap ToSet(After(s, n)) = {}
<1> DEFINE a == Upto(s, n)
           z == After(s, n)
<1>0. n \in Nat /\ Len(s) \in Nat /\ n <= Len(s)
  OBVIOUS
<1>1. a \in Seq(S) /\ z \in Seq(S) /\ Len(a) = n /\ Len(z) = Len(s) - n
  BY DEF Upto, After
<1>2. s = a \o z
  <2>1. (\A i \in 1..n : a[i] = s[i]) /\ (\A i \in 1..(Len(s) - n) : z[i] = s[n + i])
    BY DEF Upto, After
  <2> HIDE DEF a, z
  <2>2. \A i \in 1..Len(s) : (a \o z)[i] = IF i <= n THEN a[i] ELSE z[i - n]
    BY <1>1, ConcatProperties
  <2>3. \A i \in 1..Len(s) : (a \o z)[i] = s[i]
    <3>1. ASSUME NEW i \in 1..Len(s), i <= n PROVE (a \o z)[i] = s[i]
      <4>1. i \in 1..n BY <3>1, <1>0
      <4> QED BY <2>1, <2>2, <3>1, <4>1
    <3>2. ASSUME NEW i \in 1..Len(s), ~(i <= n) PROVE (a \o z)[i] = s[i]
      <4>1. i - n \in 1..(Len(s) - n) /\ n + (i - n) = i BY <3>2, <1>0
      <4> QED BY <2>1, <2>2, <3>2, <4>1
    <3> QED BY <3>1, <3>2
  <2>4. a \o z \in Seq(S)
    BY <1>1, ConcatProperties
  <2>5. Len(a \o z) = n + (Len(s) - n)
    BY <1>1, ConcatProperties
  <2>6. Len(a \o z) = Len(s) BY <2>5, <1>0
  <2> QED BY <2>3, <2>4, <2>6, SeqEqual
<1> HIDE DEF a, z
<1>3. ToSet(s) = ToSet(a) \cup ToSet(z) BY <1>1, <1>2, ConcatSet
<1>4. Distinct(s) => Distinct(a) /\ Distinct(z) /\ ToSet(a) \cap ToSet(z) = {}
  BY <1>1, <1>2, ConcatDistinct
<1> QED BY <1>1, <1>2, <1>3, <1>4 DEF a, z

\* A list of one.
LEMMA Single ==
  ASSUME NEW S, NEW b \in S
  PROVE  <<b>> \in Seq(S) /\ Len(<<b>>) = 1 /\ ToSet(<<b>>) = {b} /\ Distinct(<<b>>)
BY DEF ToSet, Distinct

\* A list with b put before it.
LEMMA Prepend ==
  ASSUME NEW S, NEW s \in Seq(S), NEW b \in S
  PROVE  LET t == <<b>> \o s
         IN  /\ t \in Seq(S) /\ Len(t) = Len(s) + 1 /\ ToSet(t) = ToSet(s) \cup {b}
             /\ Distinct(s) /\ b \notin ToSet(s) => Distinct(t)
<1>1. <<b>> \in Seq(S) /\ Len(<<b>>) = 1 /\ ToSet(<<b>>) = {b} /\ Distinct(<<b>>)
  BY Single
<1> DEFINE u == <<b>>
<1> HIDE DEF u
<1>2. u \in Seq(S) /\ Len(u) = 1 /\ ToSet(u) = {b} /\ Distinct(u)
  BY <1>1 DEF u
<1>3. u \o s \in Seq(S) /\ Len(u \o s) = Len(s) + 1
  <2>1. u \o s \in Seq(S) /\ Len(u \o s) = 1 + Len(s)
    BY <1>2, ConcatProperties
  <2>2. Len(s) \in Nat OBVIOUS
  <2> QED BY <2>1, <2>2
<1>4. ToSet(u \o s) = ToSet(s) \cup {b} BY <1>2, ConcatSet
<1>5. Distinct(s) /\ b \notin ToSet(s) => Distinct(u \o s) BY <1>2, ConcatDistinct
<1> QED BY <1>3, <1>4, <1>5 DEF u

\* A list without its k-th element.
LEMMA RemoveOne ==
  ASSUME NEW S, NEW s \in Seq(S), NEW k \in 1..Len(s)
  PROVE  LET t == RemoveAt(s, k)
         IN  /\ t \in Seq(S) /\ Len(t) = Len(s) - 1 /\ ToSet(s) = ToSet(t) \cup {s[k]}
             /\ Distinct(s) => Distinct(t) /\ s[k] \notin ToSet(t)
<1>0. k - 1 \in 0..Len(s) /\ k \in 0..Len(s) /\ (k - 1) + 1 = k /\ Len(s) \in Nat
  OBVIOUS
<1>j. PICK j \in 0..Len(s) : j = k - 1 BY <1>0
<1> DEFINE a == Upto(s, j)
           m == After(s, j)
           z == After(s, k)
<1>1. /\ a \in Seq(S) /\ m \in Seq(S) /\ Len(a) = j
      /\ ToSet(s) = ToSet(a) \cup ToSet(m)
      /\ Distinct(s) => Distinct(a) /\ Distinct(m) /\ ToSet(a) \cap ToSet(m) = {}
  BY <1>0, Cut
<1>2. z \in Seq(S) /\ Len(z) = Len(s) - k
  BY <1>0, Cut
<1>3. m = <<s[k]>> \o z /\ s[k] \in S
  <2>1. Len(s) \in 1..Len(s) /\ Len(s) \in k..Len(s) BY <1>0
  <2>2. SubSeq(s, k, Len(s)) = <<s[k]>> \o SubSeq(s, k + 1, Len(s))
    BY <2>1, SubSeqRecursiveFirst
  <2> QED BY <1>0, <1>j, <2>2 DEF After
<1>4. RemoveAt(s, k) = a \o z BY <1>j DEF RemoveAt, Upto, After
<1> HIDE DEF a, m, z
<1>5. ToSet(m) = ToSet(z) \cup {s[k]}
  BY <1>2, <1>3, Prepend
<1>6. <<s[k]>> \in Seq(S) /\ ToSet(<<s[k]>>) = {s[k]} BY <1>3, Single
<1>7. Distinct(m) => Distinct(z) /\ s[k] \notin ToSet(z)
  BY <1>2, <1>3, <1>6, ConcatDistinct
<1>8. a \o z \in Seq(S) /\ Len(a \o z) = Len(s) - 1
  <2>1. a \o z \in Seq(S) /\ Len(a \o z) = j + (Len(s) - k)
    BY <1>1, <1>2, ConcatProperties
  <2> QED BY <1>0, <1>j, <2>1
<1>9. ToSet(a \o z) = ToSet(a) \cup ToSet(z) BY <1>1, <1>2, ConcatSet
<1>10. Distinct(s) => Distinct(a \o z) /\ s[k] \notin ToSet(a \o z)
  BY <1>1, <1>2, <1>5, <1>7, <1>9, ConcatDistinct
<1>11. ToSet(s) = ToSet(a \o z) \cup {s[k]} BY <1>1, <1>5, <1>9
<1>12. QED BY <1>4, <1>8, <1>10, <1>11

\* A list has no more elements than its length, and as many if each is there once.
LEMMA Counted ==
  ASSUME NEW S, NEW s \in Seq(S)
  PROVE  /\ IsFiniteSet(ToSet(s)) /\ Cardinality(ToSet(s)) \in Nat
         /\ Cardinality(ToSet(s)) <= Len(s)
         /\ Distinct(s) => Cardinality(ToSet(s)) = Len(s)
<1>1. IsFiniteSet(1..Len(s)) /\ Cardinality(1..Len(s)) = Len(s)
  <2>1. Len(s) \in Nat /\ 1 \in Int /\ Len(s) \in Int OBVIOUS
  <2>2. IsFiniteSet(1..Len(s)) /\ Cardinality(1..Len(s)) = IF 1 > Len(s) THEN 0 ELSE Len(s) - 1 + 1
    BY <2>1, FS_Interval
  <2> QED BY <2>1, <2>2
<1>2. s \in Surjection(1..Len(s), ToSet(s))
  BY LenProperties DEF Surjection, ToSet
<1>3. /\ IsFiniteSet(ToSet(s)) /\ Cardinality(ToSet(s)) <= Len(s)
      /\ Cardinality(ToSet(s)) = Len(s) <=> s \in Injection(1..Len(s), ToSet(s))
  BY <1>1, <1>2, FS_Surjection
<1>4. Distinct(s) => s \in Injection(1..Len(s), ToSet(s))
  BY <1>2, LenProperties DEF Distinct, Injection, Surjection, IsInjective
<1> QED BY <1>3, <1>4, FS_CardinalityType

-----------------------------------------------------------------------------
(* The invariant.                                                          *)

\* The lists l and h hold the blocks in c, each once.
Hold(l, h, c) ==
  /\ l \in Seq(Block) /\ h \in Seq(Block)
  /\ Distinct(l) /\ Distinct(h) /\ ToSet(l) \cap ToSet(h) = {}
  /\ ToSet(l) \cup ToSet(h) = c

\* No two of the blocks in c have the same slot of s.
Apart(s, c) == \A x, y \in c : s[x] = s[y] => x = y

\* More blocks are never marked than the queue has entries.
MarksWithinQueue == Cardinality(modified) <= QueueSize

PolInv ==
  /\ PolTypeOK
  /\ Hold(low, high, cached)
  /\ ListsWithinSize
  /\ Apart(slot, cached)
  /\ MarksWithinQueue

\* The sizes, whichever policy is built in.
LEMMA Sizes ==
  ASSUME PolInv
  PROVE  /\ HighSize \in Nat /\ LowSize \in Nat /\ QueueSize \in Nat \ {0} /\ PoolSize \in Nat
         /\ QueueSize < LowSize /\ LowSize + HighSize = PoolSize
         /\ build.policy # "LRU" => HighSize > 0
         /\ build.policy \in {"LRU", "SLRU", "OCP"}
BY PoliciesAssumption, PoolAssumption DEF PolInv, PolTypeOK, HighSize, LowSize, QueueSize

\* The pool holds as many blocks as its lists are long.
LEMMA PoolCounted ==
  ASSUME NEW l, NEW h, NEW c, Hold(l, h, c)
  PROVE  IsFiniteSet(c) /\ Cardinality(c) = Len(l) + Len(h)
<1>1. /\ IsFiniteSet(ToSet(l)) /\ Cardinality(ToSet(l)) = Len(l)
      /\ IsFiniteSet(ToSet(h)) /\ Cardinality(ToSet(h)) = Len(h)
      /\ Len(l) \in Nat /\ Len(h) \in Nat
  BY Counted DEF Hold
<1>2. ToSet(l) \cap ToSet(h) = {} /\ c = ToSet(l) \cup ToSet(h)
  BY DEF Hold
<1>3. Cardinality({}) = 0 BY FS_EmptySet
<1>4. /\ IsFiniteSet(ToSet(l) \cup ToSet(h))
      /\ Cardinality(ToSet(l) \cup ToSet(h))
           = Cardinality(ToSet(l)) + Cardinality(ToSet(h)) - Cardinality(ToSet(l) \cap ToSet(h))
  BY <1>1, FS_Union
<1>5. Cardinality(ToSet(l) \cap ToSet(h)) = 0 BY <1>2, <1>3
<1>6. Cardinality(ToSet(l) \cup ToSet(h)) = Len(l) + Len(h) BY <1>1, <1>4, <1>5
<1> QED BY <1>2, <1>4, <1>6

LEMMA MarksCounted ==
  ASSUME PolInv
  PROVE  IsFiniteSet(modified) /\ Cardinality(modified) \in Nat /\ Cardinality(modified) < LowSize
<1>1. IsFiniteSet(cached) /\ modified \in SUBSET cached
  BY PoolCounted DEF PolInv, PolTypeOK
<1>2. IsFiniteSet(modified) BY <1>1, FS_Subset
<1>3. Cardinality(modified) \in Nat BY <1>2, FS_CardinalityType
<1> QED BY <1>2, <1>3, Sizes DEF PolInv, MarksWithinQueue

-----------------------------------------------------------------------------
(* There is always a slot and a victim.                                    *)

\* A pool that is not full has a free slot.
LEMMA FreeSlot ==
  ASSUME PolInv, Len(low) + Len(high) < PoolSize
  PROVE  Free # {}
<1>1. SUFFICES ASSUME Free = {} PROVE FALSE
  OBVIOUS
<1> DEFINE P == 0..(PoolSize - 1)
<1>2. IsFiniteSet(P) /\ Cardinality(P) = PoolSize
  <2>1. PoolSize - 1 \in Int /\ 0 \in Int /\ PoolSize \in Nat \ {0} BY PoolAssumption
  <2>2. IsFiniteSet(P) /\ Cardinality(P) = IF 0 > PoolSize - 1 THEN 0 ELSE (PoolSize - 1) - 0 + 1
    BY <2>1, FS_Interval
  <2> QED BY <2>1, <2>2
<1>3. slot \in [cached -> P] BY DEF PolInv, PolTypeOK
<1>4. P \subseteq {slot[b] : b \in cached} BY <1>1 DEF Free
<1>5. slot \in Surjection(cached, P)
  BY <1>3, <1>4 DEF Surjection
<1>6. IsFiniteSet(cached) /\ Cardinality(cached) = Len(low) + Len(high)
  BY PoolCounted DEF PolInv
<1>7. Cardinality(P) <= Cardinality(cached)
  BY <1>5, <1>6, FS_Surjection
<1>8. Len(low) \in Nat /\ Len(high) \in Nat BY DEF PolInv, Hold
<1> QED BY <1>2, <1>6, <1>7, <1>8, PoolAssumption

\* A list that is longer than there are marks has a victim.
LEMMA HasVictim ==
  ASSUME PolInv, NEW c \in Seq(Block), Distinct(c), Cardinality(modified) < Len(c)
  PROVE  \E k \in DOMAIN c : IsVictim(c, k)
<1> DEFINE S == {k \in DOMAIN c : c[k] \notin modified}
<1>1. S # {}
  <2>1. SUFFICES ASSUME S = {} PROVE FALSE
    OBVIOUS
  <2>2. ToSet(c) \in SUBSET modified BY <2>1 DEF ToSet
  <2>3. Cardinality(ToSet(c)) <= Cardinality(modified)
    BY <2>2, MarksCounted, FS_Subset
  <2>4. Cardinality(ToSet(c)) = Len(c) /\ Len(c) \in Nat BY Counted
  <2> QED BY <2>3, <2>4, MarksCounted
<1>2. Len(c) \in Nat /\ S \in SUBSET (0..Len(c)) OBVIOUS
<1>3. PICK k \in S : \A j \in S : j <= k
  <2> HIDE DEF S
  <2> QED BY <1>1, <1>2, GreatestExists
<1>4. \A j \in (k + 1)..Len(c) : c[j] \in modified
  <2>1. ASSUME NEW j \in (k + 1)..Len(c), c[j] \notin modified PROVE FALSE
    <3>1. k \in Nat /\ j \in 1..Len(c) /\ ~(j <= k) BY <2>1, <1>2
    <3>2. j \in S BY <3>1, <2>1
    <3> QED BY <3>1, <3>2, <1>3
  <2> QED BY <2>1
<1> QED BY <1>3, <1>4 DEF IsVictim

\* Some blocks at the tail of the list are promoted, if only none.
LEMMA SomeStay ==
  ASSUME PolInv
  PROVE  \E n \in 0..Len(low) : IsStaying(n)
<1> DEFINE S == {n \in 0..Len(low) : n = 0 \/ refs[low[n]] # 2}
<1>1. Len(low) \in Nat BY DEF PolInv, Hold
<1>2. 0 \in S BY <1>1
<1>3. PICK n \in S : \A j \in S : j <= n
  <2>1. S \in SUBSET (0..Len(low)) /\ S # {} BY <1>2
  <2> HIDE DEF S
  <2> QED BY <1>1, <2>1, GreatestExists
<1>4. \A k \in (n + 1)..Len(low) : refs[low[k]] = 2
  <2>1. ASSUME NEW k \in (n + 1)..Len(low), refs[low[k]] # 2 PROVE FALSE
    <3>1. k \in S /\ ~(k <= n) BY <1>1, <2>1
    <3> QED BY <3>1, <1>3
  <2> QED BY <2>1
<1> QED BY <1>3, <1>4 DEF IsStaying

-----------------------------------------------------------------------------
(* What moves between the lists.                                           *)

\* Promotion and demotion of OCP leave each block in one list, and both lists
\* within their size.
LEMMA Promoted ==
  ASSUME PolInv, NEW n \in 0..Len(low)
  PROVE  /\ Hold(LowThen(n), HighThen(n), cached)
         /\ Len(LowThen(n)) <= LowSize /\ Len(HighThen(n)) <= HighSize
         /\ Len(LowThen(n)) + Len(HighThen(n)) = Len(low) + Len(high)
<1> DEFINE m == After(low, n)
           u == Upto(low, n)
           a == HighAfter(n)
           k == Kept(n)
           s == Upto(a, k)
           d == After(a, k)
<1>1. /\ low \in Seq(Block) /\ high \in Seq(Block) /\ Len(low) \in Nat /\ Len(high) \in Nat
      /\ Distinct(low) /\ Distinct(high) /\ ToSet(low) \cap ToSet(high) = {}
      /\ ToSet(low) \cup ToSet(high) = cached
      /\ Len(low) <= LowSize /\ Len(high) <= HighSize
  BY DEF PolInv, Hold, ListsWithinSize
<1>2. /\ m \in Seq(Block) /\ u \in Seq(Block) /\ Len(u) = n /\ Len(m) = Len(low) - n
      /\ ToSet(low) = ToSet(u) \cup ToSet(m)
      /\ Distinct(u) /\ Distinct(m) /\ ToSet(u) \cap ToSet(m) = {}
  <2>1. low \in Seq(Block) /\ Distinct(low) BY <1>1
  <2> QED BY <2>1, Cut
<1>3. a = m \o high BY DEF HighAfter, Moved, After
<1> HIDE DEF m, u, a
<1>4. a \in Seq(Block) /\ Len(a) = (Len(low) - n) + Len(high)
  BY <1>1, <1>2, <1>3, ConcatProperties
<1>5. ToSet(a) = ToSet(m) \cup ToSet(high) BY <1>1, <1>2, <1>3, ConcatSet
<1>6. ToSet(m) \cap ToSet(high) = {} /\ ToSet(u) \cap ToSet(a) = {}
  BY <1>1, <1>2, <1>5
<1>7. Distinct(a) BY <1>1, <1>2, <1>3, <1>6, ConcatDistinct
<1>8. /\ k \in 0..Len(a) /\ k <= HighSize /\ Len(a) \in Nat
      /\ k = Len(a) \/ k = HighSize
  BY <1>1, <1>4, Sizes DEF Kept, a
<1> HIDE DEF k
<1>9. /\ s \in Seq(Block) /\ d \in Seq(Block) /\ Len(s) = k /\ Len(d) = Len(a) - k
      /\ ToSet(a) = ToSet(s) \cup ToSet(d)
      /\ Distinct(s) /\ Distinct(d) /\ ToSet(s) \cap ToSet(d) = {}
  BY <1>4, <1>7, <1>8, Cut
<1>10. HighThen(n) = s /\ LowThen(n) = d \o u
  BY DEF HighThen, LowThen, Upto, After, a, k, u
<1> HIDE DEF s, d
<1>11. ToSet(d) \cap ToSet(u) = {} BY <1>6, <1>9
<1>12. /\ d \o u \in Seq(Block) /\ Len(d \o u) = (Len(a) - k) + n
  BY <1>2, <1>9, ConcatProperties
<1>13. ToSet(d \o u) = ToSet(d) \cup ToSet(u) BY <1>2, <1>9, ConcatSet
<1>14. Distinct(d \o u) BY <1>2, <1>9, <1>11, ConcatDistinct
<1>15. ToSet(d \o u) \cap ToSet(s) = {} BY <1>6, <1>9, <1>13
<1>16. ToSet(d \o u) \cup ToSet(s) = cached BY <1>1, <1>2, <1>5, <1>9, <1>13
<1>17. Hold(d \o u, s, cached) BY <1>9, <1>12, <1>14, <1>15, <1>16 DEF Hold
<1>18. n \in Nat /\ n <= Len(low) /\ HighSize \in Nat /\ LowSize \in Nat BY <1>1, Sizes
<1>19. Len(d \o u) <= LowSize
  BY <1>1, <1>4, <1>8, <1>12, <1>18
<1>20. Len(d \o u) + Len(s) = Len(low) + Len(high)
  BY <1>1, <1>4, <1>8, <1>9, <1>12, <1>18
<1> QED BY <1>8, <1>9, <1>10, <1>17, <1>19, <1>20

\* Moving a block to the head of its list.
LEMMA PutFirstKeeps ==
  ASSUME NEW s \in Seq(Block), NEW k \in 1..Len(s), Distinct(s)
  PROVE  /\ PutFirst(s, k) \in Seq(Block) /\ Distinct(PutFirst(s, k))
         /\ ToSet(PutFirst(s, k)) = ToSet(s) /\ Len(PutFirst(s, k)) = Len(s)
<1> DEFINE r == RemoveAt(s, k)
<1>1. /\ r \in Seq(Block) /\ Len(r) = Len(s) - 1 /\ ToSet(s) = ToSet(r) \cup {s[k]}
      /\ Distinct(r) /\ s[k] \notin ToSet(r)
  BY RemoveOne
<1>2. s[k] \in Block /\ Len(s) \in Nat OBVIOUS
<1>3. PutFirst(s, k) = <<s[k]>> \o r BY DEF PutFirst
<1> HIDE DEF r
<1>4. /\ <<s[k]>> \o r \in Seq(Block) /\ Len(<<s[k]>> \o r) = Len(r) + 1
      /\ ToSet(<<s[k]>> \o r) = ToSet(r) \cup {s[k]} /\ Distinct(<<s[k]>> \o r)
  BY <1>1, <1>2, Prepend
<1> QED BY <1>1, <1>2, <1>3, <1>4

\* A block that is used again stays in the pool, in one list.
LEMMA ReferenceKeeps ==
  ASSUME PolInv, NEW b \in cached, Reference(b)
  PROVE  /\ Hold(low', high', cached)
         /\ Len(low') <= LowSize /\ Len(high') <= HighSize
         /\ refs' \in [cached -> 0..2]
<1>1. /\ low \in Seq(Block) /\ high \in Seq(Block) /\ Len(low) \in Nat /\ Len(high) \in Nat
      /\ Distinct(low) /\ Distinct(high) /\ ToSet(low) \cap ToSet(high) = {}
      /\ ToSet(low) \cup ToSet(high) = cached
      /\ Len(low) <= LowSize /\ Len(high) <= HighSize
      /\ DOMAIN low = 1..Len(low) /\ DOMAIN high = 1..Len(high)
  BY DEF PolInv, Hold, ListsWithinSize
<1>2. refs' \in [cached -> 0..2]
  <2>1. refs \in [cached -> 0..2] BY DEF PolInv, PolTypeOK
  <2>2. refs[b] \in 0..2 BY <2>1
  <2>3. refs' = (IF build.policy = "OCP" /\ refs[b] < 2 THEN [refs EXCEPT ![b] = refs[b] + 1] ELSE refs)
    BY DEF Reference
  <2> HIDE DEF cached
  <2>4. CASE build.policy = "OCP" /\ refs[b] < 2
    <3>1. refs[b] + 1 \in 0..2 BY <2>2, <2>4
    <3> QED BY <2>1, <2>3, <2>4, <3>1
  <2> QED BY <2>1, <2>3, <2>4
<1>3. CASE \E k \in DOMAIN high : high[k] = b /\ high' = PutFirst(high, k) /\ low' = low
  <2>1. PICK k \in 1..Len(high) : high' = PutFirst(high, k) /\ low' = low BY <1>1, <1>3
  <2>2. /\ high' \in Seq(Block) /\ Distinct(high') /\ ToSet(high') = ToSet(high)
        /\ Len(high') = Len(high)
    BY <1>1, <2>1, PutFirstKeeps
  <2> QED BY <1>1, <1>2, <2>1, <2>2 DEF Hold
<1>4. CASE \E k \in DOMAIN low :
             low[k] = b /\ build.policy # "SLRU" /\ low' = PutFirst(low, k) /\ high' = high
  <2>1. PICK k \in 1..Len(low) : low' = PutFirst(low, k) /\ high' = high BY <1>1, <1>4
  <2>2. /\ low' \in Seq(Block) /\ Distinct(low') /\ ToSet(low') = ToSet(low)
        /\ Len(low') = Len(low)
    BY <1>1, <2>1, PutFirstKeeps
  <2> QED BY <1>1, <1>2, <2>1, <2>2 DEF Hold
<1>5. CASE \E k \in DOMAIN low : low[k] = b /\ build.policy = "SLRU" /\ Protect(b, k)
  <2>1. PICK k \in 1..Len(low) : low[k] = b /\ Protect(b, k) BY <1>1, <1>5
  <2> DEFINE r == RemoveAt(low, k)
  <2>2. /\ r \in Seq(Block) /\ Len(r) = Len(low) - 1 /\ ToSet(low) = ToSet(r) \cup {b}
        /\ Distinct(r) /\ b \notin ToSet(r)
    BY <1>1, <2>1, RemoveOne
  <2>3. HighSize > 0 /\ HighSize \in Nat /\ LowSize \in Nat BY <1>5, Sizes
  <2>4. b \in Block BY <1>1, <2>1
  <2>5. b \notin ToSet(high) /\ ToSet(r) \cap ToSet(high) = {} BY <1>1, <2>2
  <2>6. CASE Len(high) = HighSize
    <3> DEFINE j == Len(high) - 1
               f == Upto(high, j)
               l == high[Len(high)]
    <3>1. j \in 0..Len(high) /\ j + 1 = Len(high) /\ Len(high) \in 1..Len(high)
      BY <1>1, <2>3, <2>6
    <3>2. l \in Block BY <1>1, <3>1
    <3>3. high' = <<b>> \o f /\ low' = <<l>> \o r
      BY <2>1, <2>6 DEF Protect, Front, Last, Upto
    <3>4. PICK i \in 0..Len(high) : i = j BY <3>1
    <3>5. /\ f \in Seq(Block) /\ Len(f) = i
          /\ ToSet(high) = ToSet(f) \cup ToSet(After(high, i))
          /\ Distinct(f) /\ ToSet(f) \cap ToSet(After(high, i)) = {}
      <4>1. f = Upto(high, i) BY <3>4
      <4>2. high \in Seq(Block) /\ Distinct(high) BY <1>1
      <4>3. /\ Upto(high, i) \in Seq(Block) /\ Len(Upto(high, i)) = i
            /\ ToSet(high) = ToSet(Upto(high, i)) \cup ToSet(After(high, i))
            /\ Distinct(Upto(high, i)) /\ ToSet(Upto(high, i)) \cap ToSet(After(high, i)) = {}
        BY <4>2, Cut
      <4> HIDE DEF f
      <4> QED BY <4>1, <4>3
    <3>6. ToSet(After(high, i)) = {l}
      <4>1. After(high, i) = SubSeq(high, Len(high), Len(high)) BY <3>1, <3>4 DEF After
      <4> DEFINE q == SubSeq(high, Len(high), Len(high))
      <4>2. q \in Seq(Block) /\ Len(q) = 1 /\ q[1] = l
        <5>1. high \in Seq(Block) /\ Len(high) \in Int /\ Len(high) <= Len(high) BY <1>1
        <5>2. \A x \in Len(high)..Len(high) : high[x] \in Block BY <3>2, <5>1
        <5>3. /\ q \in Seq(Block) /\ Len(q) = Len(high) - Len(high) + 1
              /\ \A x \in 1..(Len(high) - Len(high) + 1) : q[x] = high[Len(high) + x - 1]
          BY <5>1, <5>2, SubSeqProperties
        <5>4. Len(high) - Len(high) + 1 = 1 /\ Len(high) + 1 - 1 = Len(high) BY <5>1
        <5>5. 1 \in 1..(Len(high) - Len(high) + 1) BY <5>4
        <5> HIDE DEF q
        <5>6. q[1] = high[Len(high) + 1 - 1] BY <5>3, <5>5
        <5> QED BY <5>3, <5>4, <5>6
      <4>3. q = <<l>>
        <5>1. <<l>> \in Seq(Block) /\ Len(<<l>>) = 1 /\ <<l>>[1] = l BY <3>2, Single
        <5> HIDE DEF q, l
        <5> QED BY <4>2, <5>1, SeqEqual
      <4> HIDE DEF l
      <4> QED BY <3>2, <4>1, <4>3, Single
    <3> HIDE DEF r, f, l
    <3>7. l \notin ToSet(r) BY <2>5, <3>5, <3>6
    <3>8. /\ low' \in Seq(Block) /\ Len(low') = Len(r) + 1 /\ ToSet(low') = ToSet(r) \cup {l}
          /\ Distinct(low')
      BY <2>2, <3>2, <3>3, <3>7, Prepend
    <3>9. b \notin ToSet(f) BY <2>5, <3>5
    <3>10. /\ high' \in Seq(Block) /\ Len(high') = Len(f) + 1 /\ ToSet(high') = ToSet(f) \cup {b}
           /\ Distinct(high')
      BY <2>4, <3>3, <3>5, <3>9, Prepend
    <3>11. l # b /\ l \notin ToSet(f) /\ ToSet(f) \cap ToSet(r) = {}
      BY <2>5, <3>5, <3>6
    <3>12. ToSet(low') \cap ToSet(high') = {} BY <2>2, <3>8, <3>10, <3>11
    <3>13. ToSet(low') \cup ToSet(high') = cached
      BY <1>1, <2>2, <3>5, <3>6, <3>8, <3>10
    <3>14. Len(low') <= LowSize /\ Len(high') <= HighSize
      BY <1>1, <2>2, <2>3, <2>6, <3>1, <3>4, <3>5, <3>8, <3>10
    <3> QED BY <1>2, <3>8, <3>10, <3>12, <3>13, <3>14 DEF Hold
  <2>7. CASE Len(high) # HighSize
    <3>1. high' = <<b>> \o high /\ low' = r BY <2>1, <2>7 DEF Protect
    <3> HIDE DEF r
    <3>2. /\ high' \in Seq(Block) /\ Len(high') = Len(high) + 1
          /\ ToSet(high') = ToSet(high) \cup {b} /\ Distinct(high')
      BY <1>1, <2>4, <2>5, <3>1, Prepend
    <3>3. Len(low') <= LowSize /\ Len(high') <= HighSize
      <4>0. Len(high) \in Nat /\ Len(high) <= HighSize BY <1>1
      <4>1. Len(high) + 1 <= HighSize BY <4>0, <2>3, <2>7
      <4>2. Len(low) - 1 <= LowSize
        <5>1. Len(low) \in Nat /\ Len(low) <= LowSize BY <1>1
        <5> QED BY <2>3, <5>1
      <4> QED BY <2>2, <3>1, <3>2, <4>1, <4>2
    <3>4. ToSet(low') \cap ToSet(high') = {} /\ ToSet(low') \cup ToSet(high') = cached
      BY <1>1, <2>2, <2>5, <3>1, <3>2
    <3> QED BY <1>2, <2>2, <3>1, <3>2, <3>3, <3>4 DEF Hold
  <2> QED BY <2>6, <2>7
<1> QED BY <1>3, <1>4, <1>5 DEF Reference

-----------------------------------------------------------------------------
(* A block enters the pool.                                                *)

Slots == 0..(PoolSize - 1)

\* What is true after block b has entered the pool for the blocks in e: it is
\* in one list, none is too long, and it has a slot of its own.
Entered(b, e) ==
  /\ Hold(low', high', (cached \ e) \cup {b})
  /\ Len(low') <= LowSize /\ Len(high') <= HighSize
  /\ slot' \in [(cached \ e) \cup {b} -> Slots]
  /\ Apart(slot', (cached \ e) \cup {b})
  /\ refs' \in [(cached \ e) \cup {b} -> 0..2]
  /\ hint' \in Slots

\* Into a list that has room for it, the other one being high'.
LEMMA AddNewKeeps ==
  ASSUME PolInv, NEW b \in Block, b \notin cached, NEW c,
         Hold(c, high', cached), Len(c) < LowSize, Len(high') <= HighSize,
         AddNew(b, c),
         NEW r \in [cached -> 0..2], Unreferenced(b, r)
  PROVE  Entered(b, {}) /\ Cardinality(cached) < PoolSize
<1>1. /\ c \in Seq(Block) /\ high' \in Seq(Block) /\ Len(c) \in Nat /\ Len(high') \in Nat
      /\ Distinct(c) /\ Distinct(high') /\ ToSet(c) \cap ToSet(high') = {}
      /\ ToSet(c) \cup ToSet(high') = cached
  BY DEF Hold
<1>2. PICK s \in Free : /\ low' = <<b>> \o c
                        /\ slot' = [x \in cached \cup {b} |-> IF x = b THEN s ELSE slot[x]]
                        /\ hint' = s
  BY DEF AddNew
<1>3. /\ low' \in Seq(Block) /\ Len(low') = Len(c) + 1 /\ ToSet(low') = ToSet(c) \cup {b}
      /\ Distinct(low')
  <2>1. b \notin ToSet(c) BY <1>1
  <2> QED BY <1>1, <1>2, <2>1, Prepend
<1>4. Hold(low', high', cached \cup {b})
  BY <1>1, <1>3 DEF Hold
<1>5. Len(low') <= LowSize BY <1>1, <1>3, Sizes
<1>6. s \in Slots /\ \A x \in cached : slot[x] # s /\ slot[x] \in Slots
  BY DEF Free, PolInv, PolTypeOK, Slots
<1> HIDE DEF cached
<1>7. slot' \in [cached \cup {b} -> Slots] BY <1>2, <1>6
<1>8. Apart(slot', cached \cup {b})
  <2>1. Apart(slot, cached) BY DEF PolInv
  <2> QED BY <1>2, <1>6, <2>1 DEF Apart
<1>9. refs' \in [cached \cup {b} -> 0..2]
  BY DEF Unreferenced
<1>10. Cardinality(cached) < PoolSize
  BY <1>1, PoolCounted, Sizes
<1>11. (cached \ {}) \cup {b} = cached \cup {b} OBVIOUS
<1> QED BY <1>2, <1>4, <1>5, <1>6, <1>7, <1>8, <1>9, <1>10, <1>11 DEF Entered

\* In place of the k-th block of a list, the other one being high'.
LEMMA ReplaceKeeps ==
  ASSUME PolInv, NEW b \in Block, b \notin cached, NEW c,
         Hold(c, high', cached), Len(c) <= LowSize, Len(high') <= HighSize,
         NEW k \in 1..Len(c),
         NEW r \in [cached -> 0..2], Replace(b, c, k, r)
  PROVE  Entered(b, {c[k]}) /\ c[k] \in cached
<1> DEFINE v == c[k]
           t == RemoveAt(c, k)
           rest == cached \ {v}
<1>1. /\ c \in Seq(Block) /\ high' \in Seq(Block) /\ Len(c) \in Nat /\ Len(high') \in Nat
      /\ Distinct(c) /\ Distinct(high') /\ ToSet(c) \cap ToSet(high') = {}
      /\ ToSet(c) \cup ToSet(high') = cached
  BY DEF Hold
<1>2. /\ low' = <<b>> \o t
      /\ slot' = [x \in rest \cup {b} |-> IF x = b THEN slot[v] ELSE slot[x]]
      /\ refs' = [x \in rest \cup {b} |->
                    IF x # b THEN r[x] ELSE IF build.policy = "OCP" THEN 1 ELSE 0]
      /\ hint' = hint
  BY DEF Replace
<1>3. /\ t \in Seq(Block) /\ Len(t) = Len(c) - 1 /\ ToSet(c) = ToSet(t) \cup {v}
      /\ Distinct(t) /\ v \notin ToSet(t)
  BY <1>1, RemoveOne
<1> HIDE DEF t, v
<1>4. /\ low' \in Seq(Block) /\ Len(low') = Len(t) + 1 /\ ToSet(low') = ToSet(t) \cup {b}
      /\ Distinct(low')
  <2>1. b \notin ToSet(t) BY <1>1, <1>3
  <2> QED BY <1>2, <1>3, <2>1, Prepend
<1>5. v \in cached BY <1>1, <1>3
<1>6. Hold(low', high', rest \cup {b})
  <2>1. ToSet(low') \cap ToSet(high') = {} BY <1>1, <1>3, <1>4
  <2>2. ToSet(low') \cup ToSet(high') = rest \cup {b} BY <1>1, <1>3, <1>4
  <2> QED BY <1>1, <1>4, <2>1, <2>2 DEF Hold
<1>7. Len(low') <= LowSize BY <1>1, <1>3, <1>4, Sizes
<1>8. slot \in [cached -> Slots] /\ hint \in Slots BY DEF PolInv, PolTypeOK, Slots
<1> HIDE DEF cached
<1>9. slot' \in [rest \cup {b} -> Slots] BY <1>2, <1>5, <1>8
<1>10. Apart(slot', rest \cup {b})
  <2>1. Apart(slot, cached) BY DEF PolInv
  <2> QED BY <1>2, <1>5, <2>1 DEF Apart
<1>11. refs' \in [rest \cup {b} -> 0..2] BY <1>2
<1> QED BY <1>2, <1>5, <1>6, <1>7, <1>8, <1>9, <1>10, <1>11 DEF Entered, v

\* Whichever way the policy goes, the block enters for what Pool allows.
LEMMA InsertKeeps ==
  ASSUME PolInv, NEW b \in Block, b \notin cached, Insert(b)
  PROVE  \E e \in Evictions(cached, modified) : Entered(b, e)
<1>1. /\ Hold(low, high, cached) /\ Len(low) <= LowSize /\ Len(high) <= HighSize
      /\ refs \in [cached -> 0..2] /\ DOMAIN low = 1..Len(low) /\ Len(low) \in Nat
  BY DEF PolInv, PolTypeOK, ListsWithinSize, Hold
<1>2. ASSUME Cardinality(cached) < PoolSize PROVE {} \in Evictions(cached, modified)
  BY <1>2 DEF Evictions
<1>3. ASSUME NEW v \in cached, v \notin modified PROVE {v} \in Evictions(cached, modified)
  BY <1>3 DEF Evictions
<1>4. CASE ~IsFull /\ AddNew(b, low) /\ Unreferenced(b, refs) /\ high' = high
  <2>1. Len(low) < LowSize BY <1>1, <1>4, Sizes DEF IsFull
  <2>2. Entered(b, {}) /\ Cardinality(cached) < PoolSize
    BY <1>1, <1>4, <2>1, AddNewKeeps
  <2> QED BY <1>2, <2>2
<1>5. CASE high' = high /\ \E k \in DOMAIN low : IsVictim(low, k) /\ Replace(b, low, k, refs)
  <2>1. PICK k \in 1..Len(low) : IsVictim(low, k) /\ Replace(b, low, k, refs)
    BY <1>1, <1>5
  <2>2. Entered(b, {low[k]}) /\ low[k] \in cached
    BY <1>1, <1>5, <2>1, ReplaceKeeps
  <2>3. low[k] \notin modified BY <2>1 DEF IsVictim
  <2> QED BY <1>3, <2>2, <2>3
<1>6. ASSUME NEW n \in 0..Len(low), high' = HighThen(n),
             \/ /\ Len(LowThen(n)) < LowSize
                /\ AddNew(b, LowThen(n)) /\ Unreferenced(b, RefsThen(n))
             \/ \E k \in DOMAIN LowThen(n) :
                  IsVictim(LowThen(n), k) /\ Replace(b, LowThen(n), k, RefsThen(n))
      PROVE  \E e \in Evictions(cached, modified) : Entered(b, e)
  <2> DEFINE c == LowThen(n)
             r == RefsThen(n)
  <2>1. Hold(c, high', cached) /\ Len(c) <= LowSize /\ Len(high') <= HighSize
    BY <1>6, Promoted
  <2>2. r \in [cached -> 0..2]
    <3> HIDE DEF cached
    <3> QED BY <1>1 DEF RefsThen
  <2>3. DOMAIN c = 1..Len(c) BY <2>1 DEF Hold
  <2> HIDE DEF c, r
  <2>4. CASE Len(c) < LowSize /\ AddNew(b, c) /\ Unreferenced(b, r)
    <3>1. Entered(b, {}) /\ Cardinality(cached) < PoolSize
      BY <2>1, <2>2, <2>4, AddNewKeeps
    <3> QED BY <1>2, <3>1
  <2>5. CASE \E k \in DOMAIN c : IsVictim(c, k) /\ Replace(b, c, k, r)
    <3>1. PICK k \in 1..Len(c) : IsVictim(c, k) /\ Replace(b, c, k, r)
      BY <2>3, <2>5
    <3>2. Entered(b, {c[k]}) /\ c[k] \in cached
      BY <2>1, <2>2, <3>1, ReplaceKeeps
    <3>3. c[k] \notin modified BY <3>1 DEF IsVictim
    <3> QED BY <1>3, <3>2, <3>3
  <2> QED BY <1>6, <2>4, <2>5 DEF c, r
<1> QED BY <1>4, <1>5, <1>6 DEF Insert, FindBlockToReplace

-----------------------------------------------------------------------------
(* Every step keeps the invariant.                                         *)

\* A mark more keeps the number of marks within the queue.
LEMMA MarkedWithin ==
  ASSUME PolInv, NEW b
  PROVE  Marked(b) \subseteq modified \cup {b} /\ Cardinality(Marked(b)) <= QueueSize
<1>1. /\ IsFiniteSet(modified) /\ Cardinality(modified) \in Nat
      /\ Cardinality(modified) <= QueueSize /\ QueueSize \in Nat \ {0}
  BY MarksCounted, Sizes DEF PolInv, MarksWithinQueue
<1>2. Cardinality({b}) = 1 BY FS_Singleton
<1>3. Cardinality(modified \cup {b}) <= Cardinality(modified) + 1
  <2>1. Cardinality(modified \cup {b})
          = IF b \in modified THEN Cardinality(modified) ELSE Cardinality(modified) + 1
    BY <1>1, FS_AddElement
  <2> QED BY <1>1, <2>1
<1>4. Cardinality(modified \cup {b}) \in Nat
  BY <1>1, FS_AddElement, FS_CardinalityType
<1>5. CASE Cardinality(modified) = QueueSize
  <2>1. Marked(b) = {b} BY <1>5 DEF Marked
  <2> QED BY <1>1, <1>2, <2>1
<1>6. CASE Cardinality(modified) # QueueSize
  <2>1. Marked(b) = modified \cup {b} BY <1>6 DEF Marked
  <2>2. Cardinality(modified) + 1 <= QueueSize BY <1>1, <1>6
  <2> QED BY <1>1, <1>3, <1>4, <2>1, <2>2
<1> QED BY <1>5, <1>6

\* The invariant after a step that leaves the blocks c in the lists, the marks
\* being among them and within the queue.
LEMMA InvariantAfter ==
  ASSUME PolInv, build' = build, NEW c,
         Hold(low', high', c), Len(low') <= LowSize, Len(high') <= HighSize,
         slot' \in [c -> Slots], Apart(slot', c), refs' \in [c -> 0..2], hint' \in Slots,
         modified' \subseteq c, Cardinality(modified') <= QueueSize
  PROVE  PolInv' /\ cached' = c
<1>1. cached' = c BY DEF cached, Hold
<1>2. PolTypeOK'
  <2>1. build' \in Build /\ low' \in Seq(Block) /\ high' \in Seq(Block)
    BY DEF PolInv, PolTypeOK, Hold
  <2> QED BY <1>1, <2>1 DEF PolTypeOK, Slots
<1>3. Hold(low, high, cached)' BY <1>1 DEF Hold
<1>4. ListsWithinSize' BY DEF ListsWithinSize, LowSize, HighSize
<1>5. Apart(slot, cached)' BY <1>1 DEF Apart
<1>6. MarksWithinQueue' BY DEF MarksWithinQueue, QueueSize
<1> QED BY <1>1, <1>2, <1>3, <1>4, <1>5, <1>6 DEF PolInv

\* A hit changes no more than the order of the lists.
LEMMA HitKeeps ==
  ASSUME PolInv, NEW b \in cached, Reference(b), UNCHANGED <<build, slot, hint>>,
         modified' \subseteq modified \cup {b}, Cardinality(modified') <= QueueSize
  PROVE  PolInv' /\ cached' = cached
<1>1. /\ Hold(low', high', cached) /\ Len(low') <= LowSize /\ Len(high') <= HighSize
      /\ refs' \in [cached -> 0..2]
  BY ReferenceKeeps
<1>2. /\ slot' \in [cached -> Slots] /\ Apart(slot', cached) /\ hint' \in Slots
      /\ modified' \subseteq cached
  BY DEF PolInv, PolTypeOK, Slots
<1> HIDE DEF cached
<1> QED BY <1>1, <1>2, InvariantAfter

\* A miss replaces a block that is not marked, if any.
LEMMA MissKeeps ==
  ASSUME PolInv, NEW b \in Block, b \notin cached, Insert(b), build' = build,
         modified' \subseteq modified \cup {b}, Cardinality(modified') <= QueueSize
  PROVE  PolInv' /\ \E e \in Evictions(cached, modified) : cached' = (cached \ e) \cup {b}
<1>1. PICK e \in Evictions(cached, modified) : Entered(b, e)
  BY InsertKeeps
<1> DEFINE c == (cached \ e) \cup {b}
<1>2. modified' \subseteq c
  <2>1. modified \subseteq cached /\ e \cap modified = {}
    BY DEF PolInv, PolTypeOK, Evictions
  <2> QED BY <2>1
<1>3. /\ Hold(low', high', c) /\ Len(low') <= LowSize /\ Len(high') <= HighSize
      /\ slot' \in [c -> Slots] /\ Apart(slot', c) /\ refs' \in [c -> 0..2] /\ hint' \in Slots
  BY <1>1 DEF Entered
<1> HIDE DEF c
<1>4. PolInv' /\ cached' = c
  BY <1>2, <1>3, InvariantAfter
<1> QED BY <1>4 DEF c

\* What a step does to the invariant and to what is cached.
LEMMA StepKeeps ==
  ASSUME PolInv, [PolNext]_polVars
  PROVE  /\ PolInv'
         /\ \/ cached' = cached \/ cached' = {}
            \/ \E b \in Block : \E e \in Evictions(cached, modified) :
                 cached' = (cached \ e) \cup {b}
<1>1. Cardinality(modified) <= QueueSize BY DEF PolInv, MarksWithinQueue
<1>2. CASE UNCHANGED polVars
  <2>1. UNCHANGED <<build, low, high, refs, slot, hint, modified>> BY <1>2 DEF polVars, lists
  <2> QED BY <2>1 DEF PolInv, PolTypeOK, Hold, ListsWithinSize, LowSize, HighSize, Apart,
                      MarksWithinQueue, QueueSize, cached
<1>3. ASSUME NEW b \in Block, ReadHit(b) PROVE PolInv' /\ cached' = cached
  BY <1>1, <1>3, HitKeeps DEF ReadHit
<1>4. ASSUME NEW b \in Block, WriteHit(b) PROVE PolInv' /\ cached' = cached
  BY <1>4, MarkedWithin, HitKeeps DEF WriteHit
<1>5. ASSUME NEW b \in Block, ReadInsert(b)
      PROVE  PolInv' /\ \E e \in Evictions(cached, modified) : cached' = (cached \ e) \cup {b}
  BY <1>1, <1>5, MissKeeps DEF ReadInsert
<1>6. ASSUME NEW b \in Block, WriteInsert(b)
      PROVE  PolInv' /\ \E e \in Evictions(cached, modified) : cached' = (cached \ e) \cup {b}
  BY <1>6, MarkedWithin, MissKeeps DEF WriteInsert
<1>7. CASE Reset
  <2>1. /\ low' = <<>> /\ high' = <<>> /\ refs' = <<>> /\ slot' = <<>> /\ hint' = 0
        /\ modified' = {} /\ build' = build
    BY <1>7 DEF Reset
  <2>2. ToSet(<<>>) = {} /\ Distinct(<<>>) /\ <<>> \in Seq(Block) /\ Len(<<>>) = 0
    BY DEF ToSet, Distinct
  <2>3. Hold(low', high', {}) BY <2>1, <2>2 DEF Hold
  <2>4. Len(low') <= LowSize /\ Len(high') <= HighSize BY <2>1, <2>2, Sizes
  <2>5. slot' \in [{} -> Slots] /\ Apart(slot', {}) /\ refs' \in [{} -> 0..2] /\ hint' \in Slots
    <3>1. 0 \in Slots BY PoolAssumption DEF Slots
    <3>2. <<>> \in [{} -> Slots] /\ <<>> \in [{} -> 0..2] OBVIOUS
    <3> QED BY <2>1, <3>1, <3>2 DEF Apart
  <2>6. modified' \subseteq {} /\ Cardinality(modified') <= QueueSize
    BY <2>1, FS_EmptySet, Sizes
  <2>7. PolInv' /\ cached' = {}
    BY <2>1, <2>3, <2>4, <2>5, <2>6, InvariantAfter
  <2> QED BY <2>7
<1>8. CASE PolNext
  BY <1>3, <1>4, <1>5, <1>6, <1>7, <1>8 DEF PolNext
<1> QED BY <1>2, <1>8

LEMMA InitKeeps ==
  ASSUME PolInit
  PROVE  PolInv
<1>1. /\ low = <<>> /\ high = <<>> /\ refs = <<>> /\ slot = <<>> /\ hint = 0
      /\ modified = {} /\ build \in Build
  BY DEF PolInit
<1>2. ToSet(<<>>) = {} /\ Distinct(<<>>) /\ <<>> \in Seq(Block) /\ Len(<<>>) = 0
  BY DEF ToSet, Distinct
<1>3. cached = {} BY <1>1, <1>2 DEF cached
<1>4. HighSize \in Nat /\ LowSize \in Nat /\ QueueSize \in Nat
  BY <1>1, PoliciesAssumption, PoolAssumption DEF HighSize, LowSize, QueueSize
<1>5. PolTypeOK
  <2>1. <<>> \in [{} -> 0..2] /\ <<>> \in [{} -> 0..(PoolSize - 1)] /\ 0 \in 0..(PoolSize - 1)
    BY PoolAssumption
  <2> QED BY <1>1, <1>2, <1>3, <2>1 DEF PolTypeOK
<1>6. Hold(low, high, cached) BY <1>1, <1>2, <1>3 DEF Hold
<1>7. ListsWithinSize BY <1>1, <1>2, <1>4 DEF ListsWithinSize
<1>8. Apart(slot, cached) BY <1>3 DEF Apart
<1>9. MarksWithinQueue BY <1>1, <1>4, FS_EmptySet DEF MarksWithinQueue
<1> QED BY <1>5, <1>6, <1>7, <1>8, <1>9 DEF PolInv

-----------------------------------------------------------------------------
(* Theorems.                                                               *)

\* The inductive invariant: types, each block in one list, lists within their
\* size, a slot for each block, and no more marks than the queue has entries.
THEOREM PoliciesInvariance == PolSpec => []PolInv
<1>1. PolInit => PolInv BY InitKeeps
<1>2. PolInv /\ [PolNext]_polVars => PolInv' BY StepKeeps
<1> QED BY <1>1, <1>2, PTL DEF PolSpec

\* The variables of a policy keep their types.
THEOREM PoliciesTypeCorrect == PolSpec => []PolTypeOK
<1>1. PolInv => PolTypeOK BY DEF PolInv
<1> QED BY <1>1, PoliciesInvariance, PTL

\* Whatever is moved from list to list, a block is in one place of one list.
THEOREM NoBlockTwice == PolSpec => []EachBlockOnce
<1>1. PolInv => EachBlockOnce
  BY ConcatDistinct DEF PolInv, Hold, EachBlockOnce, Distinct
<1> QED BY <1>1, PoliciesInvariance, PTL

\* "The Cold List Will Never Overfull": both lists keep their size.
THEOREM NeverOverfull == PolSpec => []ListsWithinSize
<1>1. PolInv => ListsWithinSize BY DEF PolInv
<1> QED BY <1>1, PoliciesInvariance, PTL

\* No two blocks share a slot, and a slot is left for a block that is added.
THEOREM AlwaysASlot == PolSpec => []SlotForEveryBlock
<1>1. ASSUME PolInv PROVE SlotForEveryBlock
  <2>1. Apart(slot, cached) BY <1>1 DEF PolInv
  <2>2. /\ Len(low) \in Nat /\ Len(high) \in Nat /\ Len(low) <= LowSize /\ Len(high) <= HighSize
    BY <1>1 DEF PolInv, Hold, ListsWithinSize
  <2>3. ASSUME ~IsFull PROVE Free # {}
    <3>1. Len(low) < LowSize BY <1>1, <2>2, <2>3, Sizes DEF IsFull
    <3>2. Len(low) + Len(high) < PoolSize BY <1>1, <2>2, <3>1, Sizes
    <3> QED BY <1>1, <3>2, FreeSlot
  <2>4. ASSUME NEW n \in 0..Len(low), Len(LowThen(n)) < LowSize PROVE Free # {}
    <3>1. /\ Len(HighThen(n)) <= HighSize
          /\ Len(LowThen(n)) + Len(HighThen(n)) = Len(low) + Len(high)
      BY <1>1, Promoted
    <3>2. Len(HighThen(n)) \in Nat /\ Len(LowThen(n)) \in Nat
      BY <1>1, Promoted DEF Hold
    <3>3. Len(low) + Len(high) < PoolSize BY <1>1, <2>4, <3>1, <3>2, Sizes
    <3> QED BY <1>1, <3>3, FreeSlot
  <2> QED BY <2>1, <2>3, <2>4 DEF SlotForEveryBlock, Apart
<1> QED BY <1>1, PoliciesInvariance, PTL

\* "There always exist Non-Modified Blocks": a full list has a victim, unless
\* the promotion of OCP has made room.
THEOREM AlwaysAVictim == PolSpec => []VictimExists
<1>1. ASSUME PolInv, IsFull
      PROVE  IF build.policy # "OCP" THEN \E k \in DOMAIN low : IsVictim(low, k)
             ELSE \E n \in 0..Len(low) :
                    IsStaying(n) /\ (Len(LowThen(n)) < LowSize
                                     \/ \E k \in DOMAIN LowThen(n) : IsVictim(LowThen(n), k))
  <2>1. Cardinality(modified) < LowSize /\ Cardinality(modified) \in Nat /\ LowSize \in Nat
    BY <1>1, MarksCounted, Sizes
  <2>2. \E k \in DOMAIN low : IsVictim(low, k)
    <3>1. low \in Seq(Block) /\ Distinct(low) BY <1>1 DEF PolInv, Hold
    <3>2. Cardinality(modified) < Len(low) BY <1>1, <2>1 DEF IsFull
    <3> QED BY <1>1, <3>1, <3>2, HasVictim
  <2>3. PICK n \in 0..Len(low) : IsStaying(n) BY <1>1, SomeStay
  <2>4. Len(LowThen(n)) < LowSize \/ \E k \in DOMAIN LowThen(n) : IsVictim(LowThen(n), k)
    <3>1. /\ LowThen(n) \in Seq(Block) /\ Distinct(LowThen(n)) /\ Len(LowThen(n)) \in Nat
      BY <1>1, Promoted DEF Hold
    <3>2. CASE Len(LowThen(n)) < LowSize BY <3>2
    <3>3. CASE ~(Len(LowThen(n)) < LowSize)
      <4>1. Cardinality(modified) < Len(LowThen(n)) BY <2>1, <3>1, <3>3
      <4> QED BY <1>1, <3>1, <4>1, HasVictim
    <3> QED BY <3>2, <3>3
  <2> QED BY <2>2, <2>3, <2>4
<1>2. PolInv => VictimExists BY <1>1 DEF VictimExists
<1> QED BY <1>2, PoliciesInvariance, PTL

\* What WriteBack relies on: a policy gives up nothing, or one block that is
\* not marked, for one that enters, or all of them when the pool is destroyed.
THEOREM PoliciesImplementPool == PolSpec => GivesUpWhatPoolMay
<1>1. PolInv /\ [PolNext]_polVars =>
        [cached' = cached \/ cached' = {}
         \/ \E b \in Block : \E e \in Evictions(cached, modified) :
              cached' = (cached \ e) \cup {b}]_polVars
  BY StepKeeps
<1> QED BY <1>1, PoliciesInvariance, PTL DEF PolSpec, GivesUpWhatPoolMay
=============================================================================
