--------------------------- MODULE BPTreeProofs ----------------------------
(***************************************************************************)
(* Theorems about the B+ tree: whatever is inserted and deleted, it stays  *)
(* balanced, its parents and children agree, its leaves are linked in the  *)
(* order of their keys, and a search finds what was inserted.              *)
(***************************************************************************)
EXTENDS BPTreeLemmas

-----------------------------------------------------------------------------
(* Moving an entry between neighbours.                                     *)

\* Another key between two children.
FenceMoved(r, n, x, i, k) ==
  /\ r \in NodeType /\ r.is_leaf = n.is_leaf /\ r.parent = n.parent /\ r.next = n.next /\ r.pointers = n.pointers
  /\ Fenced(r, x) /\ Len(r.keys) = Len(n.keys)
  /\ \A j \in 0..(Len(n.keys) + 1) : Bound(r, x, j) = IF j = i THEN k ELSE Bound(n, x, j)

LEMMA FenceChanged ==
  ASSUME NEW n \in NodeType, NEW x \in PlaceType, Fenced(n, x), NEW i \in 1..Len(n.keys),
         NEW k \in Int, Bound(n, x, i - 1) < k, k < Bound(n, x, i + 1)
  PROVE  FenceMoved([n EXCEPT !.keys[i] = k], n, x, i, k)
<1> DEFINE s == n.keys
           l == Len(s)
           a == [s EXCEPT ![i] = k]
           r == [n EXCEPT !.keys = a]
<1>1. s \in Seq(Int) /\ l \in Nat /\ Len(n.pointers) = l + 1
  BY DEF NodeType, Fenced
<1>2. a \in Seq(Int) /\ Len(a) = l /\ \A j \in 1..l : a[j] = IF j = i THEN k ELSE s[j]
  BY <1>1
<1>3. [n EXCEPT !.keys[i] = k] = r
  BY DEF NodeType
<1> HIDE DEF a
<1>4. /\ r \in NodeType /\ r.keys = a /\ r.pointers = n.pointers /\ r.is_leaf = n.is_leaf
      /\ r.parent = n.parent /\ r.next = n.next
  BY <1>2 DEF NodeType
<1> HIDE DEF r
<1> DEFINE old(j) == Bound(n, x, j)
           new(j) == Bound(r, x, j)
<1>5. ASSUME NEW j \in 0..(l + 1) PROVE new(j) = IF j = i THEN k ELSE old(j)
  <2>1. new(j) = IF j = 0 THEN x.lo ELSE IF j = l + 1 THEN x.hi ELSE a[j]
    BY <1>2, <1>4 DEF Bound
  <2>2. old(j) = IF j = 0 THEN x.lo ELSE IF j = l + 1 THEN x.hi ELSE s[j]
    BY DEF Bound
  <2>3. i # 0 /\ i # l + 1
    BY <1>1
  <2>4. j # 0 /\ j # l + 1 => j \in 1..l
    <3> HIDE DEF l
    <3> QED BY <1>1
  <2> HIDE DEF old, new
  <2> QED BY <1>2, <2>1, <2>2, <2>3, <2>4
<1>6. \A p, q \in 0..(l + 1) : p < q => old(p) < old(q)
  BY DEF Fenced
<1>7. \A j \in 0..(l + 1) : old(j) \in Int
  BY BoundRange
<1>8. old(i - 1) < k /\ k < old(i + 1) /\ i - 1 \in 0..(l + 1) /\ i + 1 \in 0..(l + 1)
  BY <1>1
<1> HIDE DEF old, new, l
<1>9. ASSUME NEW p \in 0..(l + 1), NEW q \in 0..(l + 1), p < q PROVE new(p) < new(q)
  <2>1. CASE q = i
    <3>1. p # i /\ (p = i - 1 \/ p < i - 1)
      BY <1>1, <1>9, <2>1
    <3>2. p = i - 1 \/ old(p) < old(i - 1)
      BY <1>6, <1>8, <3>1
    <3>3. new(p) = old(p) /\ new(q) = k
      BY <1>5, <2>1, <3>1
    <3> QED BY <1>7, <1>8, <3>2, <3>3
  <2>2. CASE p = i
    <3>1. q # i /\ (q = i + 1 \/ i + 1 < q)
      BY <1>1, <1>9, <2>2
    <3>2. q = i + 1 \/ old(i + 1) < old(q)
      BY <1>6, <1>8, <3>1
    <3>3. new(q) = old(q) /\ new(p) = k
      BY <1>5, <2>2, <3>1
    <3> QED BY <1>7, <1>8, <3>2, <3>3
  <2>3. CASE p # i /\ q # i
    BY <1>5, <1>6, <1>9, <2>3
  <2> QED BY <2>1, <2>2, <2>3
<1>10. Fenced(r, x)
  <2>1. Len(r.keys) = l /\ Len(r.pointers) = l + 1
    BY <1>1, <1>2, <1>4
  <2> QED BY <1>9, <2>1 DEF Fenced, new
<1>11. FenceMoved(r, n, x, i, k)
  BY <1>2, <1>4, <1>5, <1>10 DEF FenceMoved, old, new, l
<1> QED BY <1>3, <1>11 DEF r, a

\* The ranges of left and right meet at k.
Meet(g, left, right, k) ==
  [m \in DOMAIN g |-> IF m = left THEN [ht |-> g[m].ht, lo |-> g[m].lo, hi |-> k]
                      ELSE IF m = right THEN [ht |-> g[m].ht, lo |-> k, hi |-> g[m].hi] ELSE g[m]]

Met(u, t, h, g, left, right, k) ==
  /\ Placed(u, h)
  /\ \A m \in DOMAIN t.node :
       /\ (m # left /\ m # right) => h[m] = g[m]
       /\ m # right => h[m].lo = g[m].lo
       /\ h[m].ht = g[m].ht
  /\ h[left].hi = k /\ h[right].lo = k /\ h[right].hi = g[right].hi

LEMMA MeetPlaced ==
  ASSUME NEW t, NEW g, Placed(t, g), NEW u, Heap(u), DOMAIN u.node = DOMAIN t.node,
         NEW left \in DOMAIN t.node, NEW right \in DOMAIN t.node, left # right, NEW k \in Int
  PROVE  Met(u, t, Meet(g, left, right, k), g, left, right, k)
<1> DEFINE D == DOMAIN t.node
           f == [ht |-> g[left].ht, lo |-> g[left].lo, hi |-> k]
           e == [ht |-> g[right].ht, lo |-> k, hi |-> g[right].hi]
           h == Meet(g, left, right, k)
<1>1. h = [m \in D |-> IF m = left THEN f ELSE IF m = right THEN e ELSE g[m]]
  <2>1. DOMAIN g = D
    BY DEF Placed
  <2> QED BY <2>1 DEF Meet
<1>2. /\ f \in PlaceType /\ f.ht = g[left].ht /\ f.lo = g[left].lo /\ f.hi = k
      /\ e \in PlaceType /\ e.ht = g[right].ht /\ e.lo = k /\ e.hi = g[right].hi
  BY PlaceFields DEF PlaceType
<1>3. \A m \in D : g[m] \in PlaceType
  BY PlaceFields
<1> HIDE DEF f, e, h
<1>4. /\ h \in [D -> PlaceType] /\ h[left] = f /\ h[right] = e
      /\ \A m \in D : m # left /\ m # right => h[m] = g[m]
  BY <1>1, <1>2, <1>3
<1>5. \A m \in D : h[m].ht = g[m].ht /\ (m # right => h[m].lo = g[m].lo)
  BY <1>2, <1>4
<1> QED BY <1>2, <1>4, <1>5 DEF Placed, Met, h

\* An entry of left or of right went to the other one, to, with the child it led to.
Lending(u, t, g, p, i, left, right, k, moved, to) ==
  /\ p \in DOMAIN t.node /\ ~t.node[p].is_leaf /\ i \in 1..Len(t.node[p].keys)
  /\ t.node[p].pointers[i] = left /\ t.node[p].pointers[i + 1] = right
  /\ k \in Int
  /\ Heap(u) /\ u.root = t.root /\ DOMAIN u.node = DOMAIN t.node
  /\ u.node[left].is_leaf = t.node[left].is_leaf /\ u.node[left].parent = p
  /\ u.node[right].is_leaf = t.node[right].is_leaf /\ u.node[right].parent = p
  /\ u.node[p] = [t.node[p] EXCEPT !.keys[i] = k]
  /\ \A m \in DOMAIN t.node \ {left, right, p} :
       /\ SameContent(u.node[m], t.node[m])
       /\ u.node[m].parent = IF m \in moved THEN to ELSE t.node[m].parent
  /\ \A m \in moved : m \in DOMAIN t.node \ {left, right, p} /\ t.node[m].parent \in {left, right}
  /\ \A m \in DOMAIN t.node : t.node[m].parent \in {left, right} => IsChild(u, m)
  /\ Body(u, Meet(g, left, right, k), left) /\ Body(u, Meet(g, left, right, k), right)

LEMMA LentIsTree ==
  ASSUME NEW t, NEW g, Shape(t, g), NEW u, NEW p, NEW i, NEW left, NEW right, NEW k, NEW moved, NEW to,
         Lending(u, t, g, p, i, left, right, k, moved, to)
  PROVE  /\ Shape(u, Meet(g, left, right, k)) /\ ~u.node[p].is_leaf /\ Len(u.node[p].keys) = Len(t.node[p].keys)
         /\ p \notin {left, right} /\ left # right
<1> DEFINE D == DOMAIN t.node
           h == Meet(g, left, right, k)
           l == Len(t.node[p].keys)
           y == [t.node[p] EXCEPT !.keys[i] = k]
           c(j) == t.node[p].pointers[j]
           old(j) == Bound(t.node[p], g[p], j)
           new(j) == Bound(y, g[p], j)
<1>1. /\ p \in D /\ ~t.node[p].is_leaf /\ i \in 1..l /\ c(i) = left /\ c(i + 1) = right /\ k \in Int
      /\ Heap(u) /\ u.root = t.root /\ DOMAIN u.node = D
      /\ u.node[left].is_leaf = t.node[left].is_leaf /\ u.node[left].parent = p
      /\ u.node[right].is_leaf = t.node[right].is_leaf /\ u.node[right].parent = p
      /\ u.node[p] = y
      /\ \A m \in D \ {left, right, p} :
           /\ SameContent(u.node[m], t.node[m])
           /\ u.node[m].parent = IF m \in moved THEN to ELSE t.node[m].parent
      /\ \A m \in moved : m \in D \ {left, right, p} /\ t.node[m].parent \in {left, right}
      /\ \A m \in D : t.node[m].parent \in {left, right} => IsChild(u, m)
      /\ Body(u, h, left) /\ Body(u, h, right)
  BY DEF Lending
<1>2. /\ left \in D /\ right \in D /\ left # right /\ left # p /\ right # p
      /\ left # t.root /\ right # t.root /\ t.node[left].parent = p /\ t.node[right].parent = p
      /\ g[p].ht = g[left].ht + 1 /\ g[right].ht = g[left].ht /\ t.node[right].is_leaf = t.node[left].is_leaf
      /\ g[left].hi = g[right].lo /\ g[left].lo = old(i - 1) /\ g[right].hi = old(i + 1)
  <2>1. Beside(t, g, p, i, left, right, t.node[p].keys[i])
    BY <1>1, Neighbours
  <2> QED BY <2>1 DEF Beside
<1>3. /\ Placed(t, g) /\ Heap(t) /\ RootOK(t, g) /\ t.node[p] \in NodeType /\ g[p] \in PlaceType
      /\ l \in Nat /\ Len(t.node[p].pointers) = l + 1 /\ Fenced(t.node[p], g[p])
  <2>1. Placed(t, g) /\ Heap(t) /\ RootOK(t, g) /\ Body(t, g, p)
    BY <1>1 DEF Shape, Placed
  <2> HIDE DEF l
  <2>2. t.node[p] \in NodeType /\ l \in Nat
    BY <1>1, <2>1, NodeFields DEF l
  <2>3. g[p] \in PlaceType
    BY <1>1, <2>1, PlaceFields
  <2>4. Len(t.node[p].pointers) = l + 1 /\ Fenced(t.node[p], g[p])
    BY <1>1, <2>1 DEF Body, Fenced, l
  <2> QED BY <2>1, <2>2, <2>3, <2>4
<1>4. /\ Placed(u, h)
      /\ \A m \in D : /\ (m # left /\ m # right) => h[m] = g[m]
                      /\ m # right => h[m].lo = g[m].lo
                      /\ h[m].ht = g[m].ht
      /\ h[left].hi = k /\ h[right].lo = k /\ h[right].hi = g[right].hi
  <2>1. Met(u, t, h, g, left, right, k)
    BY <1>1, <1>2, <1>3, MeetPlaced
  <2> HIDE DEF h
  <2> QED BY <2>1 DEF Met
<1> HIDE DEF h
<1>5. FenceMoved(y, t.node[p], g[p], i, k)
  <2>1. h[left].lo < h[left].hi /\ h[right].lo < h[right].hi
    BY <1>1 DEF Body
  <2>2. old(i - 1) < k /\ k < old(i + 1)
    BY <1>2, <1>4, <2>1
  <2> QED BY <1>1, <1>3, <2>2, FenceChanged
<1> HIDE DEF y
<1>6. /\ y.is_leaf = t.node[p].is_leaf /\ y.parent = t.node[p].parent /\ Fenced(y, g[p])
      /\ y.pointers = t.node[p].pointers /\ Len(y.keys) = l
      /\ \A j \in 0..(l + 1) : new(j) = IF j = i THEN k ELSE old(j)
  BY <1>5 DEF FenceMoved
<1> HIDE DEF l, c, old, new
<1>7. \A m \in D : u.node[m].is_leaf = t.node[m].is_leaf
  <2>1. SUFFICES ASSUME NEW m \in D PROVE u.node[m].is_leaf = t.node[m].is_leaf
    OBVIOUS
  <2>2. CASE m \in {left, right}
    BY <1>1, <2>2, Zenon
  <2>3. CASE m = p
    BY <1>1, <1>6, <2>3, Zenon
  <2>4. CASE m \notin {left, right, p}
    BY <1>1, <2>4 DEF SameContent
  <2> QED BY <2>2, <2>3, <2>4
<1>8. \A m \in D : m \notin moved => u.node[m].parent = t.node[m].parent
  <2>1. SUFFICES ASSUME NEW m \in D, m \notin moved PROVE u.node[m].parent = t.node[m].parent
    OBVIOUS
  <2>2. CASE m \in {left, right}
    BY <1>1, <1>2, <2>2
  <2>3. CASE m = p
    BY <1>1, <1>6, <2>3
  <2>4. CASE m \notin {left, right, p}
    BY <1>1, <2>1, <2>4
  <2> QED BY <2>2, <2>3, <2>4
<1>9. \A j \in 1..(l + 1) : /\ c(j) \in D /\ t.node[c(j)].parent = p /\ c(j) \notin moved
                            /\ g[p].ht = g[c(j)].ht + 1 /\ g[c(j)].lo = old(j - 1) /\ g[c(j)].hi = old(j)
                            /\ (c(j) = left => j = i) /\ (c(j) = right => j = i + 1)
  <2>1. SUFFICES ASSUME NEW j \in 1..(l + 1)
                 PROVE  /\ c(j) \in D /\ t.node[c(j)].parent = p /\ c(j) \notin moved
                        /\ g[p].ht = g[c(j)].ht + 1 /\ g[c(j)].lo = old(j - 1) /\ g[c(j)].hi = old(j)
                        /\ (c(j) = left => j = i) /\ (c(j) = right => j = i + 1)
    OBVIOUS
  <2>2. j \in 1..Len(t.node[p].pointers) /\ i \in 1..Len(t.node[p].pointers) /\ i + 1 \in 1..Len(t.node[p].pointers)
    BY <1>1, <1>3
  <2>3. /\ c(j) \in D /\ t.node[c(j)].parent = p
        /\ g[p].ht = g[c(j)].ht + 1 /\ g[c(j)].lo = old(j - 1) /\ g[c(j)].hi = old(j)
    <3>1. Hangs(t, g, p, j)
      BY <1>1, <2>2 DEF Shape, Body
    <3> QED BY <3>1 DEF Hangs, c, old
  <2>4. Body(t, g, p)
    BY <1>1 DEF Shape
  <2>5. (c(j) = left => j = i) /\ (c(j) = right => j = i + 1)
    BY <1>1, <1>3, <2>2, <2>4, DistinctChildren DEF c
  <2> QED BY <1>1, <1>2, <2>3, <2>5
<1>10. Body(u, h, p)
  <2>1. ASSUME NEW j \in 1..(l + 1)
        PROVE  /\ c(j) \in D /\ u.node[c(j)].parent = p /\ g[p].ht = h[c(j)].ht + 1
               /\ h[c(j)].lo = new(j - 1) /\ h[c(j)].hi = new(j)
    <3>1. j \in 0..(l + 1) /\ j - 1 \in 0..(l + 1)
      BY <1>3
    <3>2. c(j) \in D /\ u.node[c(j)].parent = p /\ g[p].ht = h[c(j)].ht + 1
      BY <1>4, <1>8, <1>9
    <3>3. CASE j = i
      <4>1. j - 1 # i /\ c(j) = left
        BY <1>1, <3>3
      <4>2. new(j) = k /\ new(j - 1) = old(i - 1)
        BY <1>6, <3>1, <3>3, <4>1
      <4> QED BY <1>2, <1>4, <3>2, <4>1, <4>2
    <3>4. CASE j = i + 1
      <4>1. j - 1 = i /\ j # i /\ c(j) = right
        BY <1>1, <3>4
      <4>2. new(j) = old(i + 1) /\ new(j - 1) = k
        BY <1>6, <3>1, <3>4, <4>1
      <4> QED BY <1>2, <1>4, <3>2, <4>1, <4>2
    <3>5. CASE j # i /\ j # i + 1
      <4>1. j - 1 # i /\ c(j) # left /\ c(j) # right
        BY <1>1, <1>9, <3>5
      <4>2. new(j) = old(j) /\ new(j - 1) = old(j - 1)
        BY <1>6, <3>1, <3>5, <4>1
      <4> QED BY <1>4, <1>9, <3>2, <4>1, <4>2
    <3> QED BY <3>3, <3>4, <3>5
  <2>2. h[p] = g[p]
    BY <1>1, <1>2, <1>4
  <2>3. ASSUME NEW j \in 1..Len(u.node[p].pointers) PROVE Hangs(u, h, p, j)
    <3>1. j \in 1..(l + 1) /\ u.node[p].pointers[j] = c(j)
      BY <1>1, <1>3, <1>6 DEF c
    <3> QED BY <1>1, <2>1, <2>2, <3>1 DEF Hangs, new
  <2>4. Fenced(u.node[p], h[p]) /\ h[p].ht # 0 /\ h[p].lo < h[p].hi /\ ~u.node[p].is_leaf
    <3>1. Body(t, g, p)
      BY <1>1 DEF Shape
    <3> QED BY <1>1, <1>6, <1>7, <2>2, <3>1 DEF Body
  <2> QED BY <2>3, <2>4 DEF Body
<1>11. ASSUME NEW m \in D PROVE Body(u, h, m)
  <2>1. CASE m \in {left, right}
    BY <1>1, <2>1 DEF h
  <2>2. CASE m = p
    BY <1>10, <2>2
  <2>3. CASE m \notin {left, right, p}
    <3>1. Body(t, g, m) /\ h[m] = g[m] /\ SameContent(u.node[m], t.node[m])
      BY <1>1, <1>4, <2>3 DEF Shape
    <3>2. t.node[m].is_leaf => SameLink(t, g, u, h, m)
      <4>1. SUFFICES ASSUME t.node[m].is_leaf, t.node[m].next # Null
                     PROVE  LET e == t.node[m].next
                            IN  e \in DOMAIN u.node /\ u.node[e].is_leaf /\ h[e].lo = g[e].lo
        BY DEF SameLink
      <4> DEFINE e == t.node[m].next
      <4>2. e \in D /\ t.node[e].is_leaf /\ g[e].lo = g[m].hi
        BY <4>1, LinkOf
      <4>3. e # right
        <5>1. SUFFICES ASSUME e = right PROVE FALSE
          OBVIOUS
        <5>2. t.node[left].is_leaf /\ g[m].hi = g[left].hi
          BY <1>2, <4>2, <5>1
        <5>3. m = left
          BY <1>2, <4>1, <5>2, OneLink
        <5> QED BY <2>3, <5>3
      <4> HIDE DEF e
      <4>4. e \in DOMAIN u.node /\ u.node[e].is_leaf /\ h[e].lo = g[e].lo
        BY <1>1, <1>4, <1>7, <4>2, <4>3
      <4> QED BY <4>4 DEF e
    <3>3. ~t.node[m].is_leaf => SameChildren(t, g, u, h, m)
      <4>1. SUFFICES ASSUME ~t.node[m].is_leaf, NEW j \in 1..Len(t.node[m].pointers)
                     PROVE  LET e == t.node[m].pointers[j]
                            IN  e \in DOMAIN u.node /\ u.node[e].parent = m /\ h[e] = g[e]
        BY DEF SameChildren
      <4> DEFINE e == t.node[m].pointers[j]
      <4>2. e \in D /\ t.node[e].parent = m
        BY <4>1, Children
      <4> HIDE DEF e
      <4>3. e # left /\ e # right /\ e \notin moved
        BY <1>1, <1>2, <2>3, <4>2
      <4>4. e \in DOMAIN u.node /\ u.node[e].parent = m /\ h[e] = g[e]
        BY <1>1, <1>4, <1>8, <4>2, <4>3
      <4> QED BY <4>4 DEF e
    <3> QED BY <3>1, <3>2, <3>3, SameBody
  <2> QED BY <2>1, <2>2, <2>3
<1>12. ASSUME NEW m \in D, m # u.root PROVE Under(u, h, m)
  <2>1. IsChild(t, m) /\ g[m].ht < g[t.root].ht
    BY <1>1, <1>12 DEF Shape, Under
  <2>2. h[m].ht < h[u.root].ht
    <3>1. t.root \in D
      BY <1>3 DEF RootOK
    <3> QED BY <1>1, <1>4, <2>1, <3>1
  <2> DEFINE q == t.node[m].parent
  <2>3. CASE q \in {left, right}
    BY <1>1, <2>2, <2>3 DEF Under
  <2>4. CASE q \notin {left, right}
    <3>1. q \in D /\ ~t.node[q].is_leaf /\ \E j \in 1..Len(t.node[q].pointers) : t.node[q].pointers[j] = m
      BY <2>1 DEF IsChild
    <3>2. u.node[m].parent = q
      BY <1>1, <1>8, <2>4
    <3> HIDE DEF q
    <3>3. u.node[q].pointers = t.node[q].pointers
      BY <1>1, <1>6, <2>4, <3>1 DEF SameContent
    <3> QED BY <1>1, <1>7, <2>2, <3>1, <3>2, <3>3 DEF IsChild, Under
  <2> QED BY <2>3, <2>4
<1>13. RootOK(u, h)
  <2>1. t.root \in D /\ t.node[t.root].parent = Null
    BY <1>3 DEF RootOK
  <2>2. t.root \notin moved
    <3>1. left # Null /\ right # Null
      BY <1>2, <1>3, NodeFields
    <3> QED BY <1>1, <2>1, <3>1
  <2> QED BY <1>1, <1>2, <1>3, <1>4, <1>8, <2>1, <2>2 DEF RootOK
<1>14. ~u.node[p].is_leaf /\ Len(u.node[p].keys) = Len(t.node[p].keys)
  BY <1>1, <1>6, <1>7 DEF l
<1> QED BY <1>1, <1>2, <1>4, <1>11, <1>12, <1>13, <1>14 DEF Shape, h

LEMMA SameElements ==
  ASSUME NEW s \in Seq(Int), NEW r \in Seq(Int), Len(s) = Len(r), \A j \in 1..Len(r) : r[j] = s[j]
  PROVE  r = s
OBVIOUS

\* Two parts of one sequence of numbers that are equal.
LEMMA SameParts ==
  ASSUME NEW s \in Seq(Int), NEW x \in Nat, NEW y \in Nat, 1 <= x, x <= y + 1, y <= Len(s),
         NEW r, Part(r, s, x, y)
  PROVE  r = SubSeq(s, x, y)
<1>1. Part(SubSeq(s, x, y), s, x, y)
  BY PartOf
<1> DEFINE q == SubSeq(s, x, y)
<1> HIDE DEF q
<1>2. /\ q \in Seq(Int) /\ r \in Seq(Int) /\ Len(q) = Len(r) /\ \A j \in 1..Len(r) : q[j] = r[j]
  BY <1>1 DEF Part, q
<1>3. q = r
  BY <1>2, SameElements
<1> QED BY <1>3 DEF q

LEMMA EndsOf ==
  ASSUME NEW a \in Seq(Int), a # <<>>
  PROVE  /\ Front(a) \in Seq(Int) /\ Len(Front(a)) = Len(a) - 1 /\ Last(a) = a[Len(a)] /\ Last(a) \in Int
         /\ \A j \in 1..(Len(a) - 1) : Front(a)[j] = a[j]
         /\ Tail(a) \in Seq(Int) /\ Len(Tail(a)) = Len(a) - 1 /\ Head(a) = a[1] /\ Head(a) \in Int
         /\ \A j \in 1..(Len(a) - 1) : Tail(a)[j] = a[j + 1]
         /\ Len(a) \in Nat /\ Len(a) >= 1
<1>1. Len(a) \in Nat /\ Len(a) >= 1
  OBVIOUS
<1>2. Part(SubSeq(a, 1, Len(a) - 1), a, 1, Len(a) - 1)
  <2>1. 1 \in Nat /\ Len(a) - 1 \in Nat /\ 1 <= 1 /\ 1 <= (Len(a) - 1) + 1 /\ Len(a) - 1 <= Len(a)
    BY <1>1
  <2> QED BY <2>1, PartOf
<1>3. Front(a) = SubSeq(a, 1, Len(a) - 1) /\ Last(a) = a[Len(a)]
  BY DEF Front, Last
<1> DEFINE f == Front(a)
           l == Len(a)
<1>4. f \in Seq(Int) /\ Len(f) = ((l - 1) - 1) + 1 /\ \A j \in 1..(((l - 1) - 1) + 1) : f[j] = a[(1 + j) - 1]
  BY <1>2, <1>3 DEF Part
<1>5. /\ Tail(a) \in Seq(Int) /\ Len(Tail(a)) = l - 1 /\ Head(a) = a[1] /\ Head(a) \in Int /\ a[l] \in Int
      /\ \A j \in 1..(l - 1) : Tail(a)[j] = a[j + 1]
  OBVIOUS
<1> HIDE DEF f, l
<1>6. ((l - 1) - 1) + 1 = l - 1 /\ \A j \in 1..(l - 1) : (1 + j) - 1 = j
  BY <1>1 DEF l
<1>7. f \in Seq(Int) /\ Len(f) = l - 1 /\ \A j \in 1..(l - 1) : f[j] = a[j]
  BY <1>4, <1>6
<1> QED BY <1>1, <1>3, <1>5, <1>7 DEF f, l

\* One sequence for two, from which the last of the first, or the first of the second, goes to the other.
LastMoved(a, b, r) ==
  /\ Front(a) = SubSeq(r, 1, Len(a) - 1) /\ <<Last(a)>> \o b = SubSeq(r, Len(a), Len(r))
  /\ Last(a) = r[Len(a)] /\ Front(a) \in Seq(Int) /\ <<Last(a)>> \o b \in Seq(Int)

HeadMoved(a, b, r) ==
  /\ Append(a, Head(b)) = SubSeq(r, 1, Len(a) + 1) /\ Tail(b) = SubSeq(r, Len(a) + 2, Len(r))
  /\ Head(b) = r[Len(a) + 1] /\ Append(a, Head(b)) \in Seq(Int) /\ Tail(b) \in Seq(Int)

LEMMA LastGoes ==
  ASSUME NEW a \in Seq(Int), NEW b \in Seq(Int), a # <<>>
  PROVE  LastMoved(a, b, a \o b)
<1> DEFINE r == a \o b
           l == Len(a)
           m == Len(b)
           f == Front(a)
           x == a[l]
           q == <<x>> \o b
<1>1. /\ f \in Seq(Int) /\ Len(f) = l - 1 /\ Last(a) = x /\ x \in Int
      /\ \A j \in 1..(l - 1) : f[j] = a[j]
      /\ l \in Nat /\ l >= 1 /\ m \in Nat
  BY EndsOf
<1>2. /\ r \in Seq(Int) /\ Len(r) = l + m
      /\ \A j \in 1..(l + m) : r[j] = IF j <= l THEN a[j] ELSE b[j - l]
  BY JoinElements
<1>3. /\ q \in Seq(Int) /\ Len(q) = 1 + m
      /\ \A j \in 1..(1 + m) : q[j] = IF j <= 1 THEN x ELSE b[j - 1]
  <2>1. <<x>> \in Seq(Int) /\ Len(<<x>>) = 1 /\ <<x>>[1] = x
    BY <1>1
  <2>2. Joined(q, <<x>>, b)
    BY <2>1, JoinedOf
  <2>3. \A j \in 1..(1 + m) : j <= 1 => j = 1
    BY <1>1
  <2> HIDE DEF q, x
  <2> QED BY <2>1, <2>2, <2>3 DEF Joined
<1> HIDE DEF r, l, m, f, q
<1>4. f = SubSeq(r, 1, l - 1)
  <2>1. 1 \in Nat /\ l - 1 \in Nat /\ 1 <= 1 /\ 1 <= (l - 1) + 1 /\ l - 1 <= Len(r) /\ ((l - 1) - 1) + 1 = l - 1
    BY <1>1, <1>2
  <2>2. \A j \in 1..(l - 1) : f[j] = r[(1 + j) - 1]
    <3>1. \A j \in 1..(l - 1) : (1 + j) - 1 = j /\ j \in 1..(l + m) /\ j <= l
      BY <1>1
    <3> QED BY <1>1, <1>2, <3>1
  <2>3. Part(f, r, 1, l - 1)
    BY <1>1, <2>1, <2>2 DEF Part
  <2> QED BY <1>1, <1>2, <2>1, <2>3, SameParts
<1>5. q = SubSeq(r, l, l + m)
  <2>1. 1 <= l /\ l + m \in Nat /\ l <= (l + m) + 1 /\ l + m <= Len(r) /\ ((l + m) - l) + 1 = 1 + m
    BY <1>1, <1>2
  <2>2. \A j \in 1..(1 + m) : q[j] = r[(l + j) - 1]
    <3>1. SUFFICES ASSUME NEW j \in 1..(1 + m) PROVE q[j] = r[(l + j) - 1]
      OBVIOUS
    <3>2. (l + j) - 1 \in 1..(l + m)
      BY <1>1
    <3>3. CASE j <= 1
      <4>1. (l + j) - 1 = l /\ l <= l
        BY <1>1, <3>3
      <4>2. r[l] = x
        BY <1>2, <3>2, <4>1
      <4> QED BY <1>3, <3>3, <4>1, <4>2
    <3>4. CASE ~(j <= 1)
      <4>1. ~((l + j) - 1 <= l) /\ ((l + j) - 1) - l = j - 1
        BY <1>1, <3>4
      <4> QED BY <1>2, <1>3, <3>2, <3>4, <4>1
    <3> QED BY <3>3, <3>4
  <2>3. Part(q, r, l, l + m)
    BY <1>3, <2>1, <2>2 DEF Part
  <2> QED BY <1>1, <1>2, <2>1, <2>3, SameParts
<1>6. r[l] = x
  <2>1. l \in 1..(l + m) /\ l <= l
    BY <1>1
  <2> QED BY <1>2, <2>1
<1> QED BY <1>1, <1>2, <1>3, <1>4, <1>5, <1>6 DEF LastMoved, r, l, f, q

LEMMA HeadGoes ==
  ASSUME NEW a \in Seq(Int), NEW b \in Seq(Int), b # <<>>
  PROVE  HeadMoved(a, b, a \o b)
<1> DEFINE r == a \o b
           l == Len(a)
           m == Len(b)
           f == Tail(b)
           x == b[1]
           q == Append(a, x)
<1>1. /\ f \in Seq(Int) /\ Len(f) = m - 1 /\ Head(b) = x /\ x \in Int
      /\ \A j \in 1..(m - 1) : f[j] = b[j + 1]
      /\ l \in Nat /\ m >= 1 /\ m \in Nat
  BY EndsOf
<1>2. /\ r \in Seq(Int) /\ Len(r) = l + m
      /\ \A j \in 1..(l + m) : r[j] = IF j <= l THEN a[j] ELSE b[j - l]
  BY JoinElements
<1>3. /\ q \in Seq(Int) /\ Len(q) = l + 1
      /\ \A j \in 1..(l + 1) : q[j] = IF j <= l THEN a[j] ELSE x
  BY <1>1
<1> HIDE DEF r, l, m, f, q, x
<1>4. q = SubSeq(r, 1, l + 1)
  <2>1. 1 \in Nat /\ l + 1 \in Nat /\ 1 <= 1 /\ 1 <= (l + 1) + 1 /\ l + 1 <= Len(r) /\ ((l + 1) - 1) + 1 = l + 1
    BY <1>1, <1>2
  <2>2. \A j \in 1..(l + 1) : q[j] = r[(1 + j) - 1]
    <3>1. SUFFICES ASSUME NEW j \in 1..(l + 1) PROVE q[j] = r[(1 + j) - 1]
      OBVIOUS
    <3>2. (1 + j) - 1 = j /\ j \in 1..(l + m)
      BY <1>1
    <3>3. CASE j <= l
      BY <1>2, <1>3, <3>2, <3>3
    <3>4. CASE ~(j <= l)
      <4>1. j - l = 1
        BY <1>1, <3>4
      <4> QED BY <1>2, <1>3, <3>2, <3>4, <4>1 DEF x
    <3> QED BY <3>3, <3>4
  <2>3. Part(q, r, 1, l + 1)
    BY <1>3, <2>1, <2>2 DEF Part
  <2> QED BY <1>1, <1>2, <2>1, <2>3, SameParts
<1>5. f = SubSeq(r, l + 2, l + m)
  <2>1. 1 <= l + 2 /\ l + 2 \in Nat /\ l + m \in Nat /\ l + 2 <= (l + m) + 1 /\ l + m <= Len(r) /\ ((l + m) - (l + 2)) + 1 = m - 1
    BY <1>1, <1>2
  <2>2. \A j \in 1..(m - 1) : f[j] = r[((l + 2) + j) - 1]
    <3>1. \A j \in 1..(m - 1) : /\ ((l + 2) + j) - 1 \in 1..(l + m) /\ ~(((l + 2) + j) - 1 <= l)
                                /\ (((l + 2) + j) - 1) - l = j + 1
      BY <1>1
    <3> QED BY <1>1, <1>2, <3>1
  <2>3. Part(f, r, l + 2, l + m)
    BY <1>1, <2>1, <2>2 DEF Part
  <2> QED BY <1>1, <1>2, <2>1, <2>3, SameParts
<1>6. r[l + 1] = x
  <2>1. l + 1 \in 1..(l + m) /\ ~(l + 1 <= l) /\ (l + 1) - l = 1
    BY <1>1
  <2> QED BY <1>2, <2>1 DEF x
<1>7. Head(b) = x
  BY <1>1
<1> QED BY <1>1, <1>2, <1>3, <1>4, <1>5, <1>6, <1>7 DEF HeadMoved, r, l, f, q

\* Keys of left and right were shared out anew: l of them are in left, m in right.
Shifted(u, t, p, left, right, l, m) ==
  /\ IsTree(u) /\ u.root = t.root /\ DOMAIN u.node = DOMAIN t.node
  /\ p \in DOMAIN t.node /\ left \in DOMAIN t.node /\ right \in DOMAIN t.node
  /\ left # right /\ left # p /\ right # p
  /\ ~u.node[p].is_leaf /\ ~t.node[p].is_leaf
  /\ u.node[left].is_leaf = t.node[left].is_leaf /\ u.node[right].is_leaf = t.node[right].is_leaf
  /\ Len(u.node[p].keys) = Len(t.node[p].keys) /\ Len(u.node[left].keys) = l /\ Len(u.node[right].keys) = m
  /\ \A n \in DOMAIN t.node \ {left, p, right} : SameContent(u.node[n], t.node[n])
  /\ KeysOf(u) = KeysOf(t)

LEMMA LentIsShifted ==
  ASSUME NEW t, NEW g, Shape(t, g), NEW u, NEW p, NEW i, NEW left, NEW right, NEW k, NEW moved, NEW to,
         Lending(u, t, g, p, i, left, right, k, moved, to),
         NEW l, NEW m, Len(u.node[left].keys) = l, Len(u.node[right].keys) = m,
         t.node[left].is_leaf => \A v : (HasKey(u.node[left], v) \/ HasKey(u.node[right], v))
                                         <=> (HasKey(t.node[left], v) \/ HasKey(t.node[right], v))
  PROVE  Shifted(u, t, p, left, right, l, m)
<1>1. /\ IsTree(u) /\ ~u.node[p].is_leaf /\ Len(u.node[p].keys) = Len(t.node[p].keys)
      /\ p \notin {left, right} /\ left # right
  BY LentIsTree DEF IsTree
<1>2. /\ p \in DOMAIN t.node /\ ~t.node[p].is_leaf /\ i \in 1..Len(t.node[p].keys)
      /\ t.node[p].pointers[i] = left /\ t.node[p].pointers[i + 1] = right
      /\ Heap(u) /\ u.root = t.root /\ DOMAIN u.node = DOMAIN t.node
      /\ u.node[left].is_leaf = t.node[left].is_leaf /\ u.node[right].is_leaf = t.node[right].is_leaf
      /\ \A n \in DOMAIN t.node \ {left, right, p} : SameContent(u.node[n], t.node[n])
  BY DEF Lending
<1>3. left \in DOMAIN t.node /\ right \in DOMAIN t.node /\ t.node[right].is_leaf = t.node[left].is_leaf
  <2>1. Beside(t, g, p, i, left, right, t.node[p].keys[i])
    BY <1>2, Neighbours
  <2> QED BY <2>1 DEF Beside
<1>4. Heap(t)
  BY DEF Shape, Placed
<1>5. \A n \in DOMAIN t.node \ {left, p, right} : \A v : Holds(u, n, v) <=> Holds(t, n, v)
  BY <1>2 DEF Holds, HasKey, SameContent
<1>6. \A v : ~Holds(u, p, v) /\ ~Holds(t, p, v)
  BY <1>1, <1>2 DEF Holds
<1>7. \A v : (Holds(u, left, v) \/ Holds(u, right, v)) <=> (Holds(t, left, v) \/ Holds(t, right, v))
  <2>1. CASE t.node[left].is_leaf
    <3>1. t.node[right].is_leaf /\ u.node[left].is_leaf /\ u.node[right].is_leaf
      BY <1>2, <1>3, <2>1, Zenon
    <3> QED BY <2>1, <3>1 DEF Holds
  <2>2. CASE ~t.node[left].is_leaf
    <3>1. ~t.node[right].is_leaf /\ ~u.node[left].is_leaf /\ ~u.node[right].is_leaf
      BY <1>2, <1>3, <2>2, Zenon
    <3> QED BY <2>2, <3>1 DEF Holds
  <2> QED BY <2>1, <2>2
<1>8. KeysOf(u) = KeysOf(t)
  <2>1. ASSUME NEW v, NEW n \in DOMAIN t.node, Holds(u, n, v) PROVE \E e \in DOMAIN t.node : Holds(t, e, v)
    BY <1>3, <1>5, <1>6, <1>7, <2>1
  <2>2. ASSUME NEW v, NEW n \in DOMAIN t.node, Holds(t, n, v) PROVE \E e \in DOMAIN t.node : Holds(u, e, v)
    BY <1>3, <1>5, <1>6, <1>7, <2>2
  <2> QED BY <1>2, <1>4, <2>1, <2>2, SameKeys
<1>9. \A n \in DOMAIN t.node \ {left, p, right} : SameContent(u.node[n], t.node[n])
  BY <1>2
<1> QED BY <1>1, <1>2, <1>3, <1>8, <1>9 DEF Shifted

\* The nodes left, right and p were written, and the nodes of moved are below to.
Exchanged(u, t, left, a, right, b, p, y, moved, to) ==
  /\ Heap(u) /\ u.root = t.root /\ DOMAIN u.node = DOMAIN t.node
  /\ u.node[left] = a /\ u.node[right] = b /\ u.node[p] = y
  /\ \A m \in DOMAIN t.node \ {left, right, p} :
       /\ SameContent(u.node[m], t.node[m])
       /\ u.node[m].parent = IF m \in moved THEN to ELSE t.node[m].parent

\* a and b have the content of the leaves left and right, up to the s-th key and from the next one on.
SharedLeaves(t, left, right, s, a, b) ==
  /\ a \in NodeType /\ b \in NodeType
  /\ a.is_leaf = t.node[left].is_leaf /\ a.parent = t.node[left].parent /\ a.next = t.node[left].next
  /\ b.is_leaf = t.node[right].is_leaf /\ b.parent = t.node[right].parent /\ b.next = t.node[right].next
  /\ LET c == t.node[left].keys \o t.node[right].keys
         q == t.node[left].pointers \o t.node[right].pointers
     IN  /\ a.keys = SubSeq(c, 1, s) /\ a.pointers = SubSeq(q, 1, s)
         /\ b.keys = SubSeq(c, s + 1, Len(c)) /\ b.pointers = SubSeq(q, s + 1, Len(c))

\* The range of a node is within that of the root.
LEMMA AllWithin ==
  ASSUME NEW t, NEW g, Shape(t, g), NEW n \in DOMAIN t.node
  PROVE  MinKey <= g[n].lo /\ g[n].hi <= MaxKey + 1
<1> DEFINE H == g[t.root].ht
           Out(m) == ~(MinKey <= g[m].lo /\ g[m].hi <= MaxKey + 1)
           Bad == {d \in 0..H : \E m \in DOMAIN t.node : g[m].ht = H - d /\ Out(m)}
<1>1. H \in Nat /\ MinKey \in Int /\ MaxKey + 1 \in Int
  BY Heights, BptAssumption
<1>2. SUFFICES ASSUME Out(n) PROVE FALSE
  OBVIOUS
<1>3. H - g[n].ht \in Bad
  <2>1. H - g[n].ht \in 0..H /\ g[n].ht = H - (H - g[n].ht)
    <3>1. g[n].ht \in Nat /\ g[n].ht <= H
      BY Heights
    <3> HIDE DEF H
    <3> QED BY <1>1, <3>1
  <2> HIDE DEF Out
  <2> QED BY <1>2, <2>1
<1>4. PICK d \in Bad : \A e \in Bad : d <= e
  <2>1. Bad \in SUBSET Nat /\ Bad # {}
    BY <1>1, <1>3
  <2> HIDE DEF Bad
  <2> QED BY <2>1, LeastExists
<1>5. PICK m \in DOMAIN t.node : g[m].ht = H - d /\ Out(m)
  OBVIOUS
<1>6. m # t.root
  <2>1. g[t.root].lo = MinKey /\ g[t.root].hi = MaxKey + 1
    BY DEF Shape, RootOK
  <2> QED BY <1>1, <1>5, <2>1
<1> DEFINE p == t.node[m].parent
<1>7. p \in DOMAIN t.node /\ g[p].ht = g[m].ht + 1 /\ g[p].lo <= g[m].lo /\ g[m].hi <= g[p].hi
  BY <1>6, Above
<1>8. /\ g[m].lo \in Int /\ g[m].hi \in Int /\ g[p].lo \in Int /\ g[p].hi \in Int
      /\ g[p].ht \in Nat /\ g[p].ht <= H
  BY <1>7, PlaceFields, Heights DEF Shape
<1>9. d \in 0..H
  OBVIOUS
<1> HIDE DEF p, H
<1>10. Out(p)
  BY <1>1, <1>5, <1>7, <1>8
<1> HIDE DEF Out
<1>11. d - 1 \in 0..H /\ g[p].ht = H - (d - 1)
  BY <1>1, <1>5, <1>7, <1>8, <1>9
<1>12. d - 1 \in Bad /\ ~(d <= d - 1)
  BY <1>7, <1>9, <1>10, <1>11
<1> HIDE DEF Bad
<1> QED BY <1>4, <1>12

LEMMA LeafShared ==
  ASSUME NEW t, NEW g, Shape(t, g), NEW p \in DOMAIN t.node, ~t.node[p].is_leaf, NEW i \in 1..Len(t.node[p].keys),
         NEW left, NEW right, t.node[p].pointers[i] = left, t.node[p].pointers[i + 1] = right, t.node[left].is_leaf,
         NEW s \in Nat, 1 <= s, s < Len(t.node[left].keys) + Len(t.node[right].keys),
         NEW a, NEW b, SharedLeaves(t, left, right, s, a, b),
         NEW k, k = (t.node[left].keys \o t.node[right].keys)[s + 1], NEW u, NEW to,
         Exchanged(u, t, left, a, right, b, p, [t.node[p] EXCEPT !.keys[i] = k], {}, to)
  PROVE  Shifted(u, t, p, left, right, s, (Len(t.node[left].keys) + Len(t.node[right].keys)) - s)
<1> DEFINE D == DOMAIN t.node
           h == Meet(g, left, right, k)
           n == t.node[left]
           m == t.node[right]
           c == n.keys \o m.keys
           q == n.pointers \o m.pointers
           r == [n EXCEPT !.keys = c, !.pointers = q]
           w == [ht |-> g[left].ht, lo |-> g[left].lo, hi |-> g[right].hi]
           total == Len(n.keys) + Len(m.keys)
           y == [t.node[p] EXCEPT !.keys[i] = k]
<1>1. /\ left \in D /\ right \in D /\ left # right /\ left # p /\ right # p
      /\ n.parent = p /\ m.parent = p /\ g[left].hi = g[right].lo /\ g[right].ht = g[left].ht
      /\ m.is_leaf = n.is_leaf
  <2>1. Beside(t, g, p, i, left, right, t.node[p].keys[i])
    BY Neighbours
  <2> QED BY <2>1 DEF Beside
<1>2. Placed(t, g) /\ Heap(t) /\ n \in NodeType /\ m \in NodeType /\ g[left] \in PlaceType /\ g[right] \in PlaceType
  BY <1>1, NodeFields, PlaceFields DEF Shape, Placed
<1>3. /\ Heap(u) /\ u.root = t.root /\ DOMAIN u.node = D
      /\ u.node[left] = a /\ u.node[right] = b /\ u.node[p] = y
      /\ \A e \in D \ {left, right, p} :
           SameContent(u.node[e], t.node[e]) /\ u.node[e].parent = t.node[e].parent
  BY DEF Exchanged
<1>4. /\ a \in NodeType /\ b \in NodeType
      /\ a.is_leaf = n.is_leaf /\ a.parent = n.parent /\ a.next = n.next
      /\ b.is_leaf = m.is_leaf /\ b.parent = m.parent /\ b.next = m.next
      /\ a.keys = SubSeq(c, 1, s) /\ a.pointers = SubSeq(q, 1, s)
      /\ b.keys = SubSeq(c, s + 1, Len(c)) /\ b.pointers = SubSeq(q, s + 1, Len(c))
  BY DEF SharedLeaves
<1>5. m.is_leaf
  BY <1>1, Zenon
<1> HIDE DEF y
<1>6. /\ LeafBody(n, g[left]) /\ g[left].lo < g[left].hi /\ g[left].ht = 0 /\ Link(t, g, left)
      /\ LeafBody(m, g[right]) /\ g[right].lo < g[right].hi /\ g[right].ht = 0 /\ Link(t, g, right)
  BY <1>1, <1>5 DEF Shape, Body
<1>7. c \in Seq(Int) /\ q \in Seq(Int) /\ Len(c) = total
  <2>1. n.keys \in Seq(Int) /\ m.keys \in Seq(Int) /\ n.pointers \in Seq(Int) /\ m.pointers \in Seq(Int)
    BY <1>2 DEF NodeType
  <2> QED BY <2>1, JoinElements
<1>8. r \in NodeType /\ r.keys = c /\ r.pointers = q /\ w \in PlaceType /\ w.lo = g[left].lo /\ w.hi = g[right].hi
  <2> HIDE DEF c, q
  <2>1. r \in NodeType /\ r.keys = c /\ r.pointers = q
    BY <1>2, <1>7 DEF NodeType
  <2>2. w \in PlaceType /\ w.lo = g[left].lo /\ w.hi = g[right].hi
    BY <1>2 DEF PlaceType
  <2> QED BY <2>1, <2>2
<1> HIDE DEF r, w
<1>9. LeavesInOne(r, w, n, m)
  <2>1. r.keys = n.keys \o m.keys /\ r.pointers = n.pointers \o m.pointers
    BY <1>8
  <2> HIDE DEF n, m
  <2> QED BY <1>1, <1>2, <1>6, <1>8, <2>1, LeavesJoined
<1>10. /\ LeafBody(r, w) /\ Len(r.keys) = total
       /\ \A v : HasKey(r, v) <=> (HasKey(n, v) \/ HasKey(m, v))
  BY <1>9 DEF LeavesInOne
<1> HIDE DEF c, q
<1>11. k = r.keys[s + 1] /\ k \in Int
  <2>1. k = c[s + 1] /\ s + 1 \in 1..total
    <3>1. total \in Nat /\ s < total
      <4> DEFINE e == Len(n.keys)
                 f == Len(m.keys)
      <4>1. e \in Nat /\ f \in Nat /\ s < e + f /\ total = e + f
        BY <1>1, <1>2, NodeFields
      <4> HIDE DEF e, f, total
      <4> QED BY <4>1
    <3> HIDE DEF total
    <3> QED BY <3>1 DEF c
  <2> HIDE DEF total
  <2> QED BY <1>7, <1>8, <2>1
<1>12. Met(u, t, h, g, left, right, k)
  BY <1>1, <1>2, <1>3, <1>11, MeetPlaced
<1> HIDE DEF h
<1>13. /\ Placed(u, h)
       /\ \A e \in D : /\ (e # left /\ e # right) => h[e] = g[e]
                       /\ e # right => h[e].lo = g[e].lo
                       /\ h[e].ht = g[e].ht
       /\ h[left].hi = k /\ h[right].lo = k /\ h[right].hi = g[right].hi
  BY <1>12 DEF Met
<1>14. LeafParts(r, w, s, a, h[left], b, h[right])
  <2>1. h[left] \in PlaceType /\ h[right] \in PlaceType
    BY <1>1, <1>3, <1>13, PlaceFields
  <2>2. h[left].lo = w.lo /\ h[left].hi = r.keys[s + 1] /\ h[right].lo = r.keys[s + 1] /\ h[right].hi = w.hi
    BY <1>1, <1>8, <1>11, <1>13
  <2>3. /\ a.keys = SubSeq(r.keys, 1, s) /\ a.pointers = SubSeq(r.pointers, 1, s)
        /\ b.keys = SubSeq(r.keys, s + 1, Len(r.keys)) /\ b.pointers = SubSeq(r.pointers, s + 1, Len(r.keys))
    BY <1>4, <1>8
  <2>4. s < Len(r.keys)
    BY <1>10
  <2>5. LeafInParts(r, s, a, b)
    BY <2>3 DEF LeafInParts
  <2> QED BY <1>4, <1>8, <1>10, <2>1, <2>2, <2>4, <2>5, LowerKeys
<1>15. /\ LeafBody(a, h[left]) /\ LeafBody(b, h[right]) /\ Len(a.keys) = s /\ Len(b.keys) = total - s
       /\ w.lo < k /\ k < w.hi
       /\ \A v : HasKey(r, v) <=> (HasKey(a, v) \/ HasKey(b, v))
  BY <1>10, <1>11, <1>14 DEF LeafParts
<1>16. \A e \in D : u.node[e].is_leaf = t.node[e].is_leaf
  <2>1. SUFFICES ASSUME NEW e \in D PROVE u.node[e].is_leaf = t.node[e].is_leaf
    OBVIOUS
  <2>2. CASE e \in {left, right}
    BY <1>3, <1>4, <2>2, Zenon
  <2>3. CASE e = p
    <3>1. u.node[p] = [t.node[p] EXCEPT !.keys = [t.node[p].keys EXCEPT ![i] = k]]
      BY <1>3 DEF y
    <3>2. t.node[p] \in NodeType
      BY <1>2, NodeFields
    <3> QED BY <2>3, <3>1, <3>2 DEF NodeType
  <2>4. CASE e \notin {left, right, p}
    BY <1>3, <2>4 DEF SameContent
  <2> QED BY <2>2, <2>3, <2>4
<1> HIDE DEF total
<1>17. Body(u, h, left)
  <2>1. Link(u, h, left)
    <3>1. n.next = right
      <4>1. n.next # Null
        <5>1. SUFFICES ASSUME n.next = Null PROVE FALSE
          OBVIOUS
        <5>2. g[left].hi = MaxKey + 1
          BY <1>6, <5>1 DEF Link
        <5>3. g[right].hi <= MaxKey + 1
          BY <1>1, AllWithin
        <5> QED BY <1>1, <1>2, <1>6, <5>2, <5>3, BptAssumption DEF PlaceType
      <4> DEFINE e == n.next
      <4>2. e \in D /\ t.node[e].is_leaf /\ g[e].lo = g[right].lo
        BY <1>1, <1>6, <4>1 DEF Link
      <4> HIDE DEF e
      <4>3. g[e].ht = 0 /\ g[e].lo < g[e].hi
        BY <4>2 DEF Shape, Body
      <4>4. e = right
        <5>1. g[right].lo \in Int /\ g[right].lo <= g[right].lo /\ g[e].lo <= g[right].lo
          BY <1>2, <4>2 DEF PlaceType
        <5>2. g[e].ht = g[right].ht
          BY <1>6, <4>3
        <5>3. Shape(t, g) /\ right \in DOMAIN t.node /\ g[right].lo < g[right].hi /\ e \in DOMAIN t.node /\ g[e].lo = g[right].lo
          BY <1>1, <1>6, <4>2
        <5> DEFINE v == g[right].lo
        <5>4. v \in Int /\ g[e].lo <= v /\ v < g[e].hi /\ g[right].lo <= v /\ v < g[right].hi
          BY <4>3, <5>1, <5>3
        <5> HIDE DEF v
        <5> QED BY <5>2, <5>3, <5>4, SamePlace
      <4> QED BY <4>4 DEF e
    <3>2. u.node[left].next = right
      BY <1>3, <1>4, <3>1
    <3>3. right # Null
      BY <1>1, <1>2, NodeFields
    <3>4. u.node[right].is_leaf
      BY <1>1, <1>5, <1>16, Zenon
    <3> QED BY <1>1, <1>3, <1>13, <3>2, <3>3, <3>4 DEF Link
  <2>2. h[left].lo < h[left].hi /\ h[left].ht = 0
    <3>1. h[left].lo = w.lo /\ h[left].hi = k
      BY <1>1, <1>8, <1>13
    <3>2. h[left].ht = g[left].ht
      BY <1>1, <1>13
    <3> QED BY <1>6, <1>15, <3>1, <3>2
  <2>3. a.is_leaf
    BY <1>4, Zenon
  <2> QED BY <1>3, <1>15, <2>1, <2>2, <2>3 DEF Body
<1>18. Body(u, h, right)
  <2>1. Link(u, h, right)
    <3>1. u.node[right].next = m.next
      BY <1>3, <1>4
    <3>2. CASE m.next = Null
      <4>1. g[right].hi = MaxKey + 1
        BY <1>6, <3>2 DEF Link
      <4>2. h[right].hi = MaxKey + 1
        BY <1>13, <4>1
      <4> QED BY <3>1, <3>2, <4>2 DEF Link
    <3>3. CASE m.next # Null
      <4> DEFINE e == m.next
      <4>1. e \in D /\ t.node[e].is_leaf /\ g[e].lo = g[right].hi
        BY <1>6, <3>3 DEF Link
      <4> HIDE DEF e
      <4>2. e # right
        BY <1>2, <1>6, <4>1 DEF PlaceType
      <4>3. u.node[e].is_leaf /\ h[e].lo = g[e].lo
        BY <1>13, <1>16, <4>1, <4>2
      <4>4. e # Null /\ e = m.next
        BY <3>3 DEF e
      <4>5. u.node[right].next = e /\ e \in DOMAIN u.node /\ h[e].lo = h[right].hi
        BY <1>3, <1>13, <3>1, <4>1, <4>3, <4>4
      <4> QED BY <4>3, <4>4, <4>5 DEF Link
    <3> QED BY <3>2, <3>3
  <2>2. h[right].lo < h[right].hi /\ h[right].ht = 0
    <3>1. h[right].lo = k /\ h[right].hi = w.hi
      BY <1>8, <1>13
    <3>2. h[right].ht = g[right].ht
      BY <1>1, <1>13
    <3> QED BY <1>6, <1>15, <3>1, <3>2
  <2>3. b.is_leaf
    BY <1>4, <1>5, Zenon
  <2> QED BY <1>3, <1>15, <2>1, <2>2, <2>3 DEF Body
<1>19. ASSUME NEW e \in D, t.node[e].parent \in {left, right} PROVE IsChild(u, e)
  <2>1. e # t.root
    BY <1>1, <1>2, <1>19, NodeFields DEF Shape, RootOK
  <2>2. ~t.node[t.node[e].parent].is_leaf
    BY <2>1, Above
  <2> QED BY <1>5, <1>19, <2>2
<1>20. Lending(u, t, g, p, i, left, right, k, {}, to)
  BY <1>1, <1>3, <1>4, <1>11, <1>17, <1>18, <1>19 DEF Lending, y, h
<1>21. Shifted(u, t, p, left, right, s, total - s)
  BY <1>3, <1>10, <1>15, <1>20, LentIsShifted
<1> QED BY <1>21 DEF total

\* The children of two neighbours, in one node.
BothChildren(t, g, left, right, p, r, w) ==
  LET l == Len(t.node[left].keys) + 1
      e == Len(t.node[right].keys) + 1
  IN  /\ \A j \in 1..(l + e) :
           LET m == r.pointers[j]
           IN  /\ m \in DOMAIN t.node \ {left, p, right}
               /\ t.node[m].parent = IF j <= l THEN left ELSE right
               /\ g[left].ht = g[m].ht + 1 /\ g[m].lo = Bound(r, w, j - 1) /\ g[m].hi = Bound(r, w, j)
      /\ \A m \in DOMAIN t.node : t.node[m].parent \in {left, right} => \E j \in 1..(l + e) : r.pointers[j] = m

LEMMA ChildrenOfBoth ==
  ASSUME NEW t, NEW g, Shape(t, g), NEW p \in DOMAIN t.node, ~t.node[p].is_leaf, NEW i \in 1..Len(t.node[p].keys),
         NEW left, NEW right, t.node[p].pointers[i] = left, t.node[p].pointers[i + 1] = right, ~t.node[left].is_leaf,
         NEW r, NEW w, FencesInOne(r, w, t.node[left], g[left], t.node[right], g[right])
  PROVE  BothChildren(t, g, left, right, p, r, w)
<1> DEFINE D == DOMAIN t.node
           a == t.node[left]
           b == t.node[right]
           l == Len(a.keys) + 1
           e == Len(b.keys) + 1
           new(j) == Bound(r, w, j)
           lower(j) == Bound(a, g[left], j)
           upper(j) == Bound(b, g[right], j)
<1>1. /\ left \in D /\ right \in D /\ left # right /\ ~b.is_leaf
      /\ g[p].ht = g[left].ht + 1 /\ g[right].ht = g[left].ht /\ left # p /\ right # p
      /\ left # t.root /\ right # t.root
  <2>1. /\ left \in D /\ right \in D /\ left # right /\ left # t.root /\ right # t.root
        /\ g[p].ht = g[left].ht + 1 /\ g[right].ht = g[left].ht /\ left # p /\ right # p
        /\ t.node[right].is_leaf = t.node[left].is_leaf
    <3>1. Beside(t, g, p, i, left, right, t.node[p].keys[i])
      BY Neighbours
    <3> QED BY <3>1 DEF Beside
  <2>2. ~b.is_leaf
    BY <2>1, Zenon
  <2> QED BY <2>1, <2>2
<1>2. /\ Len(a.pointers) = l /\ Len(b.pointers) = e
  <2>1. Body(t, g, left) /\ Body(t, g, right)
    BY <1>1 DEF Shape
  <2> QED BY <1>1, <2>1 DEF Body, Fenced
<1>3. l \in Nat /\ e \in Nat
  <2>1. Len(a.keys) \in Nat /\ Len(b.keys) \in Nat
    BY <1>1, NodeFields DEF Shape, Placed
  <2> DEFINE c == Len(a.keys)
             d == Len(b.keys)
  <2>2. c \in Nat /\ d \in Nat
    BY <2>1
  <2> HIDE DEF c, d
  <2>3. c + 1 \in Nat /\ d + 1 \in Nat
    BY <2>2
  <2> QED BY <2>3 DEF c, d
<1>4. /\ \A j \in 0..(l + e) : new(j) = IF j <= l THEN lower(j) ELSE upper(j - l)
      /\ upper(0) = lower(l)
      /\ \A j \in 1..(l + e) : r.pointers[j] = IF j <= l THEN a.pointers[j] ELSE b.pointers[j - l]
  <2>1. (Len(a.keys) + Len(b.keys)) + 2 = l + e
    <3>1. Len(a.keys) \in Nat /\ Len(b.keys) \in Nat
      BY <1>1, NodeFields DEF Shape, Placed
    <3> DEFINE c == Len(a.keys)
               d == Len(b.keys)
    <3>2. c \in Nat /\ d \in Nat
      BY <3>1
    <3> HIDE DEF c, d
    <3>3. (c + d) + 2 = (c + 1) + (d + 1)
      BY <3>2
    <3> QED BY <3>3 DEF c, d
  <2> QED BY <2>1 DEF FencesInOne
<1>5. \A j \in 1..l :
          LET m == a.pointers[j]
          IN  /\ m \in D /\ t.node[m].parent = left /\ g[left].ht = g[m].ht + 1
              /\ g[m].lo = lower(j - 1) /\ g[m].hi = lower(j)
  <2>1. ASSUME NEW j \in 1..Len(a.pointers) PROVE Hangs(t, g, left, j)
    BY <1>1 DEF Shape, Body
  <2> QED BY <1>2, <2>1 DEF Hangs
<1>6. \A j \in 1..e :
          LET m == b.pointers[j]
          IN  /\ m \in D /\ t.node[m].parent = right /\ g[right].ht = g[m].ht + 1
              /\ g[m].lo = upper(j - 1) /\ g[m].hi = upper(j)
  <2>1. ASSUME NEW j \in 1..Len(b.pointers) PROVE Hangs(t, g, right, j)
    BY <1>1 DEF Shape, Body
  <2> QED BY <1>2, <2>1 DEF Hangs
<1>7. \A m \in D : g[left].ht = g[m].ht + 1 => m \notin {left, p, right}
  <2>1. g[left].ht \in Nat
    BY <1>1, PlaceFields DEF Shape
  <2> QED BY <1>1, <2>1
<1> HIDE DEF l, e
<1>8. ASSUME NEW m \in D, t.node[m].parent \in {left, right} PROVE \E j \in 1..(l + e) : r.pointers[j] = m
  <2>1. m # t.root
    <3>1. t.node[t.root].parent = Null /\ left # Null /\ right # Null
      BY <1>1, NodeFields DEF Shape, Placed, RootOK
    <3> QED BY <1>8, <3>1
  <2>2. \E j \in 1..Len(t.node[t.node[m].parent].pointers) : t.node[t.node[m].parent].pointers[j] = m
    BY <2>1, Above
  <2>3. CASE t.node[m].parent = left
    <3>1. PICK j \in 1..l : a.pointers[j] = m
      BY <1>2, <2>2, <2>3
    <3>2. j \in 1..(l + e) /\ j <= l
      BY <1>3
    <3> QED BY <1>4, <3>1, <3>2
  <2>4. CASE t.node[m].parent = right
    <3>1. PICK j \in 1..e : b.pointers[j] = m
      BY <1>2, <2>2, <2>4
    <3>2. l + j \in 1..(l + e) /\ ~(l + j <= l) /\ (l + j) - l = j
      BY <1>3
    <3> QED BY <1>4, <3>1, <3>2
  <2> QED BY <1>8, <2>3, <2>4
<1> HIDE DEF l, e, new, lower, upper, a, b
<1>9. ASSUME NEW j \in 1..(l + e)
      PROVE  LET m == r.pointers[j]
             IN  /\ m \in D \ {left, p, right}
                 /\ t.node[m].parent = IF j <= l THEN left ELSE right
                 /\ g[left].ht = g[m].ht + 1 /\ g[m].lo = new(j - 1) /\ g[m].hi = new(j)
  <2>1. j \in 0..(l + e) /\ j - 1 \in 0..(l + e)
    BY <1>3
  <2>2. CASE j <= l
    <3> DEFINE m == a.pointers[j]
    <3>1. j \in 1..l /\ j - 1 <= l
      BY <1>3, <2>1, <2>2
    <3>2. r.pointers[j] = m /\ new(j) = lower(j) /\ new(j - 1) = lower(j - 1)
      BY <1>4, <2>1, <2>2, <3>1
    <3>3. /\ m \in D /\ t.node[m].parent = left /\ g[left].ht = g[m].ht + 1
          /\ g[m].lo = lower(j - 1) /\ g[m].hi = lower(j)
      BY <1>5, <3>1
    <3> HIDE DEF m
    <3> QED BY <1>7, <2>2, <3>2, <3>3
  <2>3. CASE ~(j <= l)
    <3> DEFINE c == j - l
               m == b.pointers[c]
    <3>1. c \in 1..e /\ ((j - 1 = l /\ c - 1 = 0) \/ (~(j - 1 <= l) /\ (j - 1) - l = c - 1))
      BY <1>3, <2>1, <2>3
    <3>2. r.pointers[j] = m /\ new(j) = upper(c)
      BY <1>4, <2>1, <2>3
    <3>3. new(j - 1) = upper(c - 1)
      <4>1. new(j - 1) = IF j - 1 <= l THEN lower(j - 1) ELSE upper((j - 1) - l)
        BY <1>4, <2>1
      <4>2. j - 1 = l => j - 1 <= l
        BY <1>3
      <4> HIDE DEF c
      <4> QED BY <1>4, <3>1, <4>1, <4>2
    <3> HIDE DEF c
    <3>4. /\ m \in D /\ t.node[m].parent = right /\ g[left].ht = g[m].ht + 1
          /\ g[m].lo = upper(c - 1) /\ g[m].hi = upper(c)
      BY <1>1, <1>6, <3>1
    <3> HIDE DEF m
    <3> QED BY <1>7, <2>3, <3>2, <3>3, <3>4
  <2> QED BY <2>2, <2>3
<1> QED BY <1>8, <1>9 DEF BothChildren, l, e, a, b, new

\* a and b have the content of the inner nodes left and right, with k0 between them, on both sides of the s-th key.
SharedNodes(t, left, right, k0, s, a, b) ==
  /\ a \in NodeType /\ b \in NodeType
  /\ a.is_leaf = t.node[left].is_leaf /\ a.parent = t.node[left].parent
  /\ b.is_leaf = t.node[right].is_leaf /\ b.parent = t.node[right].parent
  /\ LET c == t.node[left].keys \o <<k0>> \o t.node[right].keys
         q == t.node[left].pointers \o t.node[right].pointers
     IN  /\ a.keys = SubSeq(c, 1, s - 1) /\ a.pointers = SubSeq(q, 1, s)
         /\ b.keys = SubSeq(c, s + 1, Len(c)) /\ b.pointers = SubSeq(q, s + 1, Len(c) + 1)

\* The children that changed sides are those of moved, which are below to.
SidesChanged(t, left, right, s, moved, to) ==
  LET l == Len(t.node[left].keys) + 1
      e == Len(t.node[right].keys) + 1
      q == t.node[left].pointers \o t.node[right].pointers
  IN  /\ \A j \in 1..(l + e) : (IF q[j] \in moved THEN to ELSE IF j <= l THEN left ELSE right) = (IF j <= s THEN left ELSE right)
      /\ \A m \in moved : \E j \in 1..(l + e) : q[j] = m

NodesShare(t, u, p, i, left, right, k, s, a, b, moved, to) ==
  /\ p \in DOMAIN t.node /\ ~t.node[p].is_leaf /\ i \in 1..Len(t.node[p].keys)
  /\ t.node[p].pointers[i] = left /\ t.node[p].pointers[i + 1] = right /\ ~t.node[left].is_leaf
  /\ s \in Nat /\ 1 <= s /\ s <= (Len(t.node[left].keys) + Len(t.node[right].keys)) + 1
  /\ SharedNodes(t, left, right, t.node[p].keys[i], s, a, b)
  /\ k = (t.node[left].keys \o <<t.node[p].keys[i]>> \o t.node[right].keys)[s]
  /\ SidesChanged(t, left, right, s, moved, to)
  /\ Exchanged(u, t, left, a, right, b, p, [t.node[p] EXCEPT !.keys[i] = k], moved, to)

LEMMA NodeShared ==
  ASSUME NEW t, NEW g, Shape(t, g), NEW u, NEW p, NEW i, NEW left, NEW right, NEW k, NEW s, NEW a, NEW b,
         NEW moved, NEW to, NodesShare(t, u, p, i, left, right, k, s, a, b, moved, to)
  PROVE  Shifted(u, t, p, left, right, s - 1, ((Len(t.node[left].keys) + Len(t.node[right].keys)) + 1) - s)
<1> DEFINE D == DOMAIN t.node
           h == Meet(g, left, right, k)
           n == t.node[left]
           m == t.node[right]
           k0 == t.node[p].keys[i]
           c == n.keys \o <<k0>> \o m.keys
           q == n.pointers \o m.pointers
           r == [n EXCEPT !.keys = c, !.pointers = q]
           w == [ht |-> g[left].ht, lo |-> g[left].lo, hi |-> g[right].hi]
           l == Len(n.keys) + 1
           e == Len(m.keys) + 1
           total == (Len(n.keys) + Len(m.keys)) + 1
           y == [t.node[p] EXCEPT !.keys[i] = k]
<1>a. /\ p \in D /\ ~t.node[p].is_leaf /\ i \in 1..Len(t.node[p].keys)
      /\ t.node[p].pointers[i] = left /\ t.node[p].pointers[i + 1] = right /\ ~n.is_leaf
  BY DEF NodesShare
<1>b. s \in Nat /\ 1 <= s /\ s <= total
  BY DEF NodesShare
<1>1. /\ left \in D /\ right \in D /\ left # right /\ left # p /\ right # p
      /\ n.parent = p /\ m.parent = p /\ g[left].hi = k0 /\ g[right].lo = k0 /\ k0 \in Int /\ g[right].ht = g[left].ht
      /\ m.is_leaf = n.is_leaf
  <2>1. Beside(t, g, p, i, left, right, t.node[p].keys[i])
    BY <1>a, Neighbours
  <2> QED BY <2>1 DEF Beside
<1>2. Placed(t, g) /\ Heap(t) /\ n \in NodeType /\ m \in NodeType /\ g[left] \in PlaceType /\ g[right] \in PlaceType
  BY <1>1, NodeFields, PlaceFields DEF Shape, Placed
<1>3. /\ Heap(u) /\ u.root = t.root /\ DOMAIN u.node = D
      /\ u.node[left] = a /\ u.node[right] = b /\ u.node[p] = y
      /\ \A x \in D \ {left, right, p} :
           SameContent(u.node[x], t.node[x]) /\ u.node[x].parent = IF x \in moved THEN to ELSE t.node[x].parent
  BY DEF NodesShare, Exchanged
<1>4. /\ a \in NodeType /\ b \in NodeType
      /\ a.is_leaf = n.is_leaf /\ a.parent = n.parent /\ b.is_leaf = m.is_leaf /\ b.parent = m.parent
      /\ a.keys = SubSeq(c, 1, s - 1) /\ a.pointers = SubSeq(q, 1, s)
      /\ b.keys = SubSeq(c, s + 1, Len(c)) /\ b.pointers = SubSeq(q, s + 1, Len(c) + 1)
  BY DEF NodesShare, SharedNodes
<1>5. /\ \A j \in 1..(l + e) : (IF q[j] \in moved THEN to ELSE IF j <= l THEN left ELSE right) = (IF j <= s THEN left ELSE right)
      /\ \A x \in moved : \E j \in 1..(l + e) : q[j] = x
  BY DEF NodesShare, SidesChanged
<1>6. ~m.is_leaf /\ ~a.is_leaf /\ ~b.is_leaf
  BY <1>a, <1>1, <1>4, Zenon
<1> HIDE DEF y, k0
<1>7. /\ Fenced(n, g[left]) /\ g[left].lo < g[left].hi /\ g[left].ht # 0
      /\ Fenced(m, g[right]) /\ g[right].lo < g[right].hi
  BY <1>a, <1>1, <1>6 DEF Shape, Body
<1>8. c \in Seq(Int) /\ q \in Seq(Int) /\ total \in Nat /\ l \in Nat /\ e \in Nat /\ l + e = total + 1
  <2>1. n.keys \in Seq(Int) /\ m.keys \in Seq(Int) /\ n.pointers \in Seq(Int) /\ m.pointers \in Seq(Int)
    BY <1>2 DEF NodeType
  <2>2. <<k0>> \in Seq(Int)
    BY <1>1
  <2>3. c \in Seq(Int) /\ q \in Seq(Int)
    <3>1. n.keys \o <<k0>> \in Seq(Int)
      BY <2>1, <2>2, JoinElements
    <3> QED BY <2>1, <3>1, JoinElements
  <2> DEFINE x == Len(n.keys)
             z == Len(m.keys)
  <2>4. x \in Nat /\ z \in Nat
    BY <2>1
  <2> HIDE DEF x, z
  <2>5. (x + z) + 1 \in Nat /\ x + 1 \in Nat /\ z + 1 \in Nat /\ (x + 1) + (z + 1) = ((x + z) + 1) + 1
    BY <2>4
  <2> QED BY <2>3, <2>5 DEF x, z
<1>9. r \in NodeType /\ r.keys = c /\ r.pointers = q /\ w \in PlaceType /\ w.lo = g[left].lo /\ w.hi = g[right].hi
  <2> HIDE DEF c, q
  <2>1. r \in NodeType /\ r.keys = c /\ r.pointers = q
    BY <1>2, <1>8 DEF NodeType
  <2>2. w \in PlaceType /\ w.lo = g[left].lo /\ w.hi = g[right].hi
    BY <1>2 DEF PlaceType
  <2> QED BY <2>1, <2>2
<1> HIDE DEF r, w
<1>10. FencesInOne(r, w, n, g[left], m, g[right])
  <2>1. OneAfterOther(r, n, k0, m)
    BY <1>9 DEF OneAfterOther
  <2> HIDE DEF n, m
  <2> QED BY <1>1, <1>2, <1>7, <1>9, <2>1, FencesJoined
<1>11. Fenced(r, w) /\ Len(r.keys) = total
  BY <1>10 DEF FencesInOne
<1>12. BothChildren(t, g, left, right, p, r, w)
  BY <1>a, <1>6, <1>10, ChildrenOfBoth
<1> HIDE DEF c
<1> DEFINE new(j) == Bound(r, w, j)
<1>13. /\ \A j \in 1..(l + e) :
            /\ q[j] \in D \ {left, p, right}
            /\ t.node[q[j]].parent = IF j <= l THEN left ELSE right
            /\ g[left].ht = g[q[j]].ht + 1 /\ g[q[j]].lo = new(j - 1) /\ g[q[j]].hi = new(j)
       /\ \A x \in D : t.node[x].parent \in {left, right} => \E j \in 1..(l + e) : q[j] = x
  BY <1>9, <1>12 DEF BothChildren
<1>14. \A j \in 1..(l + e) : u.node[q[j]].parent = IF j <= s THEN left ELSE right
  <2> HIDE DEF q, l, e
  <2>1. SUFFICES ASSUME NEW j \in 1..(l + e) PROVE u.node[q[j]].parent = IF j <= s THEN left ELSE right
    OBVIOUS
  <2> DEFINE x == q[j]
  <2>2. x \in D \ {left, right, p} /\ t.node[x].parent = IF j <= l THEN left ELSE right
    BY <1>13
  <2>3. (IF x \in moved THEN to ELSE IF j <= l THEN left ELSE right) = (IF j <= s THEN left ELSE right)
    BY <1>5
  <2> HIDE DEF x
  <2>4. u.node[x].parent = IF x \in moved THEN to ELSE t.node[x].parent
    BY <1>3, <2>2
  <2>5. u.node[x].parent = IF j <= s THEN left ELSE right
    BY <2>2, <2>3, <2>4
  <2> QED BY <2>5 DEF x
<1> HIDE DEF q, l, e, total, new
<1>15. s \in 1..total
  BY <1>b, <1>8
<1>16. k = r.keys[s] /\ k \in Int
  <2>1. k = c[s]
    BY DEF NodesShare, c, k0
  <2>2. c \in Seq(Int) /\ Len(c) = total
    BY <1>8, <1>9, <1>11
  <2> QED BY <1>9, <1>15, <2>1, <2>2
<1>17. Met(u, t, h, g, left, right, k)
  BY <1>1, <1>2, <1>3, <1>16, MeetPlaced
<1> HIDE DEF h
<1>18. /\ Placed(u, h)
       /\ \A x \in D : /\ (x # left /\ x # right) => h[x] = g[x]
                       /\ x # right => h[x].lo = g[x].lo
                       /\ h[x].ht = g[x].ht
       /\ h[left].hi = k /\ h[right].lo = k /\ h[right].hi = g[right].hi
  BY <1>17 DEF Met
<1>19. FenceParts(r, w, s, a, h[left], b, h[right])
  <2>1. h[left] \in PlaceType /\ h[right] \in PlaceType
    BY <1>1, <1>3, <1>18, PlaceFields
  <2>2. h[left].lo = w.lo /\ h[left].hi = r.keys[s] /\ h[right].lo = r.keys[s] /\ h[right].hi = w.hi
    BY <1>1, <1>9, <1>16, <1>18
  <2>3. /\ a.keys = SubSeq(r.keys, 1, s - 1) /\ a.pointers = SubSeq(r.pointers, 1, s)
        /\ b.keys = SubSeq(r.keys, s + 1, Len(r.keys)) /\ b.pointers = SubSeq(r.pointers, s + 1, Len(r.keys) + 1)
    BY <1>4, <1>9
  <2>4. s <= Len(r.keys)
    BY <1>11, <1>15
  <2>5. NodeInParts(r, s, a, b)
    BY <2>3 DEF NodeInParts
  <2> QED BY <1>b, <1>4, <1>9, <1>11, <2>1, <2>2, <2>4, <2>5, LowerChildren
<1>20. /\ Fenced(a, h[left]) /\ Fenced(b, h[right]) /\ Len(a.keys) = s - 1 /\ Len(b.keys) = total - s
       /\ w.lo < k /\ k < w.hi
       /\ \A j \in 0..s : Bound(a, h[left], j) = new(j)
       /\ \A j \in 0..((total + 1) - s) : Bound(b, h[right], j) = new(s + j)
       /\ \A j \in 1..s : a.pointers[j] = q[j]
       /\ \A j \in 1..((total + 1) - s) : b.pointers[j] = q[s + j]
  BY <1>9, <1>11, <1>16, <1>19 DEF FenceParts, new
<1>21. Len(a.pointers) = s /\ Len(b.pointers) = (total + 1) - s
  <2>1. Len(a.pointers) = Len(a.keys) + 1 /\ Len(b.pointers) = Len(b.keys) + 1
    BY <1>20 DEF Fenced
  <2> DEFINE x == Len(a.keys)
             z == Len(b.keys)
  <2>2. x = s - 1 /\ z = total - s /\ total \in Nat
    BY <1>8, <1>20
  <2> HIDE DEF x, z
  <2>3. x + 1 = s /\ z + 1 = (total + 1) - s
    BY <1>b, <2>2
  <2> QED BY <2>1, <2>3 DEF x, z
<1>22. h[left].ht = g[left].ht /\ h[right].ht = g[left].ht /\ h[left].lo = w.lo /\ h[right].hi = w.hi
  BY <1>1, <1>9, <1>18
<1>23. \A j \in 1..(l + e) : h[q[j]] = g[q[j]]
  BY <1>13, <1>18
<1>24. Body(u, h, left)
  <2>1. ASSUME NEW j \in 1..Len(a.pointers) PROVE Hangs(u, h, left, j)
    <3>1. j \in 1..s /\ j \in 1..(l + e) /\ j \in 0..s /\ j - 1 \in 0..s /\ j <= s
      BY <1>8, <1>15, <1>21
    <3>2. a.pointers[j] = q[j] /\ u.node[q[j]].parent = left
      BY <1>14, <1>20, <3>1
    <3>3. Bound(a, h[left], j) = new(j) /\ Bound(a, h[left], j - 1) = new(j - 1)
      BY <1>20, <3>1
    <3> QED BY <1>3, <1>13, <1>22, <1>23, <3>1, <3>2, <3>3 DEF Hangs
  <2>2. h[left].lo < h[left].hi
    <3>1. h[left].hi = k
      BY <1>18
    <3> QED BY <1>20, <1>22, <3>1
  <2> QED BY <1>3, <1>6, <1>7, <1>20, <1>22, <2>1, <2>2 DEF Body
<1>25. Body(u, h, right)
  <2>1. ASSUME NEW j \in 1..Len(b.pointers) PROVE Hangs(u, h, right, j)
    <3>1. j \in 1..((total + 1) - s) /\ j \in 0..((total + 1) - s) /\ j - 1 \in 0..((total + 1) - s)
      BY <1>8, <1>15, <1>21
    <3> DEFINE x == s + j
    <3>2. x \in 1..(l + e) /\ ~(x <= s) /\ s + (j - 1) = x - 1
      BY <1>8, <1>15, <3>1
    <3>3. b.pointers[j] = q[x]
      BY <1>20, <3>1
    <3>4. Bound(b, h[right], j) = new(x) /\ Bound(b, h[right], j - 1) = new(s + (j - 1))
      BY <1>20, <3>1
    <3> HIDE DEF x
    <3>5. u.node[q[x]].parent = right
      BY <1>14, <3>2
    <3> QED BY <1>3, <1>13, <1>22, <1>23, <3>2, <3>3, <3>4, <3>5 DEF Hangs
  <2>2. h[right].lo < h[right].hi
    <3>1. h[right].lo = k
      BY <1>18
    <3> QED BY <1>20, <1>22, <3>1
  <2> QED BY <1>3, <1>6, <1>7, <1>20, <1>22, <2>1, <2>2 DEF Body
<1>26. ASSUME NEW x \in D, t.node[x].parent \in {left, right} PROVE IsChild(u, x)
  <2>1. PICK j \in 1..(l + e) : q[j] = x
    BY <1>13, <1>26
  <2>2. CASE j <= s
    <3>1. j \in 1..Len(a.pointers) /\ a.pointers[j] = x /\ u.node[x].parent = left
      <4>1. j \in 1..s
        BY <2>2
      <4> QED BY <1>14, <1>20, <1>21, <2>1, <2>2, <4>1
    <3> QED BY <1>1, <1>3, <1>6, <3>1 DEF IsChild
  <2>3. CASE ~(j <= s)
    <3>1. j - s \in 1..((total + 1) - s) /\ s + (j - s) = j
      BY <1>8, <1>15, <2>3
    <3>2. j - s \in 1..Len(b.pointers) /\ b.pointers[j - s] = x /\ u.node[x].parent = right
      BY <1>14, <1>20, <1>21, <2>1, <2>3, <3>1
    <3> QED BY <1>1, <1>3, <1>6, <3>2 DEF IsChild
  <2> QED BY <2>2, <2>3
<1>27. \A x \in moved : x \in D \ {left, right, p} /\ t.node[x].parent \in {left, right}
  BY <1>5, <1>13
<1>28. Lending(u, t, g, p, i, left, right, k, moved, to)
  BY <1>a, <1>1, <1>3, <1>4, <1>16, <1>24, <1>25, <1>26, <1>27 DEF Lending, y, h
<1>29. Shifted(u, t, p, left, right, s - 1, total - s)
  BY <1>a, <1>3, <1>20, <1>28, LentIsShifted
<1> QED BY <1>29 DEF total

LEMMA JoinsAssociate ==
  ASSUME NEW a \in Seq(Int), NEW b \in Seq(Int), NEW c \in Seq(Int)
  PROVE  (a \o b) \o c = a \o (b \o c)
<1> DEFINE x == a \o b
           y == b \o c
           r == x \o c
           q == a \o y
           l == Len(a)
           m == Len(b)
           n == Len(c)
<1>1. l \in Nat /\ m \in Nat /\ n \in Nat
  OBVIOUS
<1>2. /\ x \in Seq(Int) /\ Len(x) = l + m
      /\ \A j \in 1..(l + m) : x[j] = IF j <= l THEN a[j] ELSE b[j - l]
  BY JoinedOf DEF Joined
<1>3. /\ y \in Seq(Int) /\ Len(y) = m + n
      /\ \A j \in 1..(m + n) : y[j] = IF j <= m THEN b[j] ELSE c[j - m]
  BY JoinedOf DEF Joined
<1> HIDE DEF x, y
<1>4. /\ r \in Seq(Int) /\ Len(r) = (l + m) + n
      /\ \A j \in 1..((l + m) + n) : r[j] = IF j <= l + m THEN x[j] ELSE c[j - (l + m)]
  <2>1. Joined(r, x, c)
    BY <1>2, JoinedOf
  <2> HIDE DEF r
  <2> QED BY <1>2, <2>1 DEF Joined
<1>5. /\ q \in Seq(Int) /\ Len(q) = l + (m + n)
      /\ \A j \in 1..(l + (m + n)) : q[j] = IF j <= l THEN a[j] ELSE y[j - l]
  <2>1. Joined(q, a, y)
    BY <1>3, JoinedOf
  <2> HIDE DEF q
  <2> QED BY <1>3, <2>1 DEF Joined
<1> HIDE DEF r, q, l, m, n
<1>6. (l + m) + n = l + (m + n)
  BY <1>1
<1>7. ASSUME NEW j \in 1..((l + m) + n) PROVE r[j] = q[j]
  <2>1. CASE j <= l
    <3>1. j <= l + m /\ j \in 1..(l + m)
      BY <1>1, <2>1
    <3> QED BY <1>2, <1>4, <1>5, <1>6, <2>1, <3>1
  <2>2. CASE ~(j <= l) /\ j <= l + m
    <3>1. j - l \in 1..(m + n) /\ j - l <= m /\ j \in 1..(l + m)
      BY <1>1, <2>2
    <3> QED BY <1>2, <1>3, <1>4, <1>5, <1>6, <2>2, <3>1
  <2>3. CASE ~(j <= l + m)
    <3>1. j - l \in 1..(m + n) /\ ~(j - l <= m) /\ (j - l) - m = j - (l + m) /\ ~(j <= l)
      BY <1>1, <2>3
    <3> QED BY <1>3, <1>4, <1>5, <1>6, <2>3, <3>1
  <2> QED BY <2>1, <2>2, <2>3
<1>8. r = q
  <2>1. r \in Seq(Int) /\ q \in Seq(Int) /\ Len(q) = Len(r) /\ \A j \in 1..Len(r) : r[j] = q[j]
    BY <1>4, <1>5, <1>6, <1>7
  <2> QED BY <2>1, SameElements
<1> QED BY <1>8 DEF r, q, x, y

\* The same with a number between the two sequences.
LastBetween(a, k, b, r) ==
  /\ Front(a) = SubSeq(r, 1, Len(a) - 1) /\ <<k>> \o b = SubSeq(r, Len(a) + 1, Len(r))
  /\ Last(a) = r[Len(a)] /\ Front(a) \in Seq(Int) /\ <<k>> \o b \in Seq(Int)

HeadBetween(a, k, b, r) ==
  /\ Append(a, k) = SubSeq(r, 1, Len(a) + 1) /\ Tail(b) = SubSeq(r, Len(a) + 3, Len(r))
  /\ Head(b) = r[Len(a) + 2] /\ Append(a, k) \in Seq(Int) /\ Tail(b) \in Seq(Int)

LEMMA OneMore ==
  ASSUME NEW a \in Seq(Int), NEW k \in Int
  PROVE  /\ a \o <<k>> \in Seq(Int) /\ Len(a \o <<k>>) = Len(a) + 1 /\ a \o <<k>> # <<>>
         /\ Last(a \o <<k>>) = k /\ <<k>> \o a \in Seq(Int) /\ <<k>> \o a # <<>> /\ Head(<<k>> \o a) = k
<1> DEFINE r == a \o <<k>>
           q == <<k>> \o a
           l == Len(a)
<1>1. <<k>> \in Seq(Int) /\ Len(<<k>>) = 1 /\ <<k>>[1] = k /\ l \in Nat
  OBVIOUS
<1>2. Joined(r, a, <<k>>) /\ Joined(q, <<k>>, a)
  BY <1>1, JoinedOf
<1> HIDE DEF r, q
<1>3. r \in Seq(Int) /\ Len(r) = l + 1 /\ r[l + 1] = k
  <2>1. l + 1 \in 1..(l + 1) /\ ~(l + 1 <= l) /\ (l + 1) - l = 1
    BY <1>1
  <2> QED BY <1>1, <1>2, <2>1 DEF Joined
<1>4. q \in Seq(Int) /\ Len(q) = 1 + l /\ q[1] = k
  <2>1. 1 \in 1..(1 + l) /\ 1 <= 1
    BY <1>1
  <2> QED BY <1>1, <1>2, <2>1 DEF Joined
<1> HIDE DEF l
<1>5. r # <<>> /\ q # <<>>
  BY <1>1, <1>3, <1>4
<1>6. Last(r) = k /\ Head(q) = k
  BY <1>3, <1>4, <1>5, EndsOf
<1> QED BY <1>3, <1>4, <1>5, <1>6 DEF r, q, l

LEMMA LastGoesBetween ==
  ASSUME NEW a \in Seq(Int), NEW k \in Int, NEW b \in Seq(Int), a # <<>>
  PROVE  LastBetween(a, k, b, a \o <<k>> \o b)
<1>1. /\ a \o <<k>> \in Seq(Int) /\ Len(a \o <<k>>) = Len(a) + 1 /\ a \o <<k>> # <<>>
      /\ Last(a \o <<k>>) = k /\ <<k>> \o b \in Seq(Int)
  BY OneMore
<1>2. LastMoved(a \o <<k>>, b, (a \o <<k>>) \o b)
  BY <1>1, LastGoes
<1>3. LastMoved(a, <<k>> \o b, a \o (<<k>> \o b))
  BY <1>1, LastGoes
<1>4. (a \o <<k>>) \o b = a \o (<<k>> \o b)
  <2>1. <<k>> \in Seq(Int)
    OBVIOUS
  <2> QED BY <2>1, JoinsAssociate
<1> DEFINE r == (a \o <<k>>) \o b
           c == a \o <<k>>
           d == <<k>> \o b
<1>5. LastMoved(c, b, r) /\ LastMoved(a, d, r) /\ Len(c) = Len(a) + 1 /\ Last(c) = k
  BY <1>1, <1>2, <1>3, <1>4
<1> HIDE DEF r, c
<1>6. LastBetween(a, k, b, r)
  BY <1>5 DEF LastMoved, LastBetween
<1> QED BY <1>6 DEF r, c

LEMMA HeadGoesBetween ==
  ASSUME NEW a \in Seq(Int), NEW k \in Int, NEW b \in Seq(Int), b # <<>>
  PROVE  HeadBetween(a, k, b, a \o <<k>> \o b)
<1>1. /\ a \o <<k>> \in Seq(Int) /\ Len(a \o <<k>>) = Len(a) + 1
      /\ <<k>> \o b \in Seq(Int) /\ <<k>> \o b # <<>> /\ Head(<<k>> \o b) = k
  BY OneMore
<1>2. HeadMoved(a \o <<k>>, b, (a \o <<k>>) \o b)
  BY <1>1, HeadGoes
<1>3. HeadMoved(a, <<k>> \o b, a \o (<<k>> \o b))
  BY <1>1, HeadGoes
<1>4. (a \o <<k>>) \o b = a \o (<<k>> \o b)
  <2>1. <<k>> \in Seq(Int)
    OBVIOUS
  <2> QED BY <2>1, JoinsAssociate
<1> DEFINE r == (a \o <<k>>) \o b
           c == a \o <<k>>
           d == <<k>> \o b
           l == Len(a)
<1>5. HeadMoved(c, b, r) /\ HeadMoved(a, d, r) /\ Len(c) = l + 1 /\ Head(d) = k
  BY <1>1, <1>2, <1>3, <1>4
<1>a. l \in Nat
  OBVIOUS
<1> HIDE DEF r, c, d, l
<1>6. (l + 1) + 2 = l + 3 /\ (l + 1) + 1 = l + 2
  BY <1>a
<1>7. /\ Append(a, k) = SubSeq(r, 1, l + 1) /\ Append(a, k) \in Seq(Int)
  BY <1>5 DEF HeadMoved, l
<1>8. Tail(b) = SubSeq(r, l + 3, Len(r)) /\ Head(b) = r[l + 2] /\ Tail(b) \in Seq(Int)
  BY <1>5, <1>6 DEF HeadMoved
<1>9. HeadBetween(a, k, b, r)
  BY <1>7, <1>8 DEF HeadBetween, l
<1> QED BY <1>9 DEF r, c

LEMMA KeyWritten ==
  ASSUME NEW n \in NodeType, NEW i \in 1..Len(n.keys), NEW k \in Int
  PROVE  [n EXCEPT !.keys[i] = k] \in NodeType
<1>1. [n.keys EXCEPT ![i] = k] \in Seq(Int)
  BY DEF NodeType
<1> QED BY <1>1 DEF NodeType

\* What is left when left, right and p were written and the nodes of moved adopted.
LEMMA WrittenAndAdopted ==
  ASSUME NEW t, Heap(t), NEW left \in DOMAIN t.node, NEW right \in DOMAIN t.node, NEW p \in DOMAIN t.node,
         NEW a, NEW b, NEW y, NEW v, WroteThree(v, t, left, a, right, b, p, y),
         NEW moved, left \notin moved, right \notin moved, p \notin moved, NEW to \in Nat
  PROVE  /\ Exchanged(v, t, left, a, right, b, p, y, {}, to)
         /\ Exchanged(Adopt(v, to, moved), t, left, a, right, b, p, y, moved, to)
<1> DEFINE u == Adopt(v, to, moved)
<1>1. /\ Heap(v) /\ v.root = t.root /\ DOMAIN v.node = DOMAIN t.node
      /\ v.node[left] = a /\ v.node[right] = b /\ v.node[p] = y
      /\ \A m \in DOMAIN t.node \ {left, right, p} : v.node[m] = t.node[m]
  BY DEF WroteThree
<1>2. Exchanged(v, t, left, a, right, b, p, y, {}, to)
  BY <1>1 DEF Exchanged, SameContent
<1>3. Adopted(u, v, to, moved)
  BY <1>1, AdoptNodes
<1> HIDE DEF u
<1>4. /\ Heap(u) /\ u.root = t.root /\ DOMAIN u.node = DOMAIN t.node
      /\ u.node[left] = a /\ u.node[right] = b /\ u.node[p] = y
  BY <1>1, <1>3 DEF Adopted
<1>5. ASSUME NEW m \in DOMAIN t.node \ {left, right, p}
      PROVE  /\ SameContent(u.node[m], t.node[m])
             /\ u.node[m].parent = IF m \in moved THEN to ELSE t.node[m].parent
  <2>1. u.node[m] = IF m \in moved THEN [t.node[m] EXCEPT !.parent = to] ELSE t.node[m]
    BY <1>1, <1>3 DEF Adopted
  <2>2. t.node[m] \in NodeType
    BY NodeFields
  <2>3. CASE m \in moved
    <3>1. u.node[m] = [t.node[m] EXCEPT !.parent = to]
      BY <2>1, <2>3
    <3> QED BY <2>2, <2>3, <3>1 DEF SameContent, NodeType
  <2>4. CASE m \notin moved
    BY <2>1, <2>4 DEF SameContent
  <2> QED BY <2>3, <2>4
<1>6. Exchanged(u, t, left, a, right, b, p, y, moved, to)
  BY <1>4, <1>5 DEF Exchanged
<1> QED BY <1>2, <1>6 DEF u

\* The end of left, or of right, that may go to the other side.
LEMMA EndChildren ==
  ASSUME NEW t, NEW g, Shape(t, g), NEW p \in DOMAIN t.node, ~t.node[p].is_leaf, NEW i \in 1..Len(t.node[p].keys),
         NEW left, NEW right, t.node[p].pointers[i] = left, t.node[p].pointers[i + 1] = right, ~t.node[left].is_leaf
  PROVE  LET a == Last(t.node[left].pointers)
             b == Head(t.node[right].pointers)
         IN  /\ SidesChanged(t, left, right, Len(t.node[left].keys), {a}, right) /\ a \notin {left, right, p}
             /\ SidesChanged(t, left, right, Len(t.node[left].keys) + 2, {b}, left) /\ b \notin {left, right, p}
<1> DEFINE D == DOMAIN t.node
           n == t.node[left]
           m == t.node[right]
           l == Len(n.keys) + 1
           e == Len(m.keys) + 1
           q == n.pointers \o m.pointers
           a == Last(n.pointers)
           b == Head(m.pointers)
<1>1. /\ left \in D /\ right \in D /\ left # right /\ left # p /\ right # p
      /\ g[p].ht = g[left].ht + 1 /\ g[right].ht = g[left].ht /\ m.is_leaf = n.is_leaf
  <2>1. Beside(t, g, p, i, left, right, t.node[p].keys[i])
    BY Neighbours
  <2> QED BY <2>1 DEF Beside
<1>2. ~m.is_leaf
  BY <1>1, Zenon
<1>3. Placed(t, g) /\ Heap(t) /\ n.pointers \in Seq(Int) /\ m.pointers \in Seq(Int)
      /\ Len(n.keys) \in Nat /\ Len(m.keys) \in Nat
  BY <1>1, NodeFields DEF Shape, Placed
<1>4. Len(n.pointers) = l /\ Len(m.pointers) = e /\ Body(t, g, left) /\ Body(t, g, right)
  BY <1>1, <1>2 DEF Shape, Body, Fenced
<1>5. l \in Nat /\ l >= 1 /\ e \in Nat /\ e >= 1 /\ Len(n.keys) = l - 1 /\ Len(n.keys) + 2 = l + 1
  <2> DEFINE x == Len(n.keys)
             z == Len(m.keys)
  <2>1. x \in Nat /\ z \in Nat
    BY <1>3
  <2> HIDE DEF x, z
  <2>2. x + 1 \in Nat /\ x + 1 >= 1 /\ z + 1 \in Nat /\ z + 1 >= 1 /\ x = (x + 1) - 1 /\ x + 2 = (x + 1) + 1
    BY <2>1
  <2> QED BY <2>2 DEF x, z
<1>6. \A j \in 1..(l + e) : q[j] = IF j <= l THEN n.pointers[j] ELSE m.pointers[j - l]
  <2>1. Joined(q, n.pointers, m.pointers)
    BY <1>3, JoinedOf
  <2> HIDE DEF q
  <2> QED BY <1>4, <2>1 DEF Joined
<1>7. \A j \in 1..l : n.pointers[j] \in D /\ t.node[n.pointers[j]].parent = left /\ g[left].ht = g[n.pointers[j]].ht + 1
  <2>1. ASSUME NEW j \in 1..Len(n.pointers) PROVE Hangs(t, g, left, j)
    BY <1>4 DEF Body
  <2> QED BY <1>4, <2>1 DEF Hangs
<1>8. \A j \in 1..e : m.pointers[j] \in D /\ t.node[m.pointers[j]].parent = right /\ g[right].ht = g[m.pointers[j]].ht + 1
  <2>1. ASSUME NEW j \in 1..Len(m.pointers) PROVE Hangs(t, g, right, j)
    BY <1>2, <1>4 DEF Body
  <2> QED BY <1>4, <2>1 DEF Hangs
<1>9. a = n.pointers[l] /\ b = m.pointers[1]
  <2> DEFINE x == n.pointers
             z == m.pointers
  <2>1. x \in Seq(Int) /\ z \in Seq(Int) /\ Len(x) = l /\ Len(z) = e
    BY <1>3, <1>4
  <2> HIDE DEF x, z, l, e, q
  <2>2. x # <<>> /\ z # <<>>
    BY <1>5, <2>1
  <2>3. Last(x) = x[l] /\ Head(z) = z[1]
    BY <2>1, <2>2, EndsOf
  <2> QED BY <2>3 DEF x, z
<1>10. \A j \in 1..l : n.pointers[j] = a => j = l
  <2>1. ASSUME NEW j \in 1..Len(n.pointers), NEW z \in 1..Len(n.pointers), n.pointers[j] = n.pointers[z] PROVE j = z
    BY <1>1, <1>3, <1>4, <2>1, DistinctChildren
  <2>2. l \in 1..Len(n.pointers)
    BY <1>4, <1>5
  <2> QED BY <1>4, <1>9, <2>1, <2>2
<1>11. \A j \in 1..e : m.pointers[j] = b => j = 1
  <2>1. ASSUME NEW j \in 1..Len(m.pointers), NEW z \in 1..Len(m.pointers), m.pointers[j] = m.pointers[z] PROVE j = z
    BY <1>1, <1>2, <1>3, <1>4, <2>1, DistinctChildren
  <2>2. 1 \in 1..Len(m.pointers)
    BY <1>4, <1>5
  <2> QED BY <1>4, <1>9, <2>1, <2>2
<1> HIDE DEF a, b, q, l, e, n, m
<1>12. l \in 1..l /\ 1 \in 1..e
  BY <1>5
<1>13. a \notin {left, right, p} /\ b \notin {left, right, p}
  <2>1. g[left].ht = g[a].ht + 1 /\ g[left].ht = g[b].ht + 1
    BY <1>1, <1>7, <1>8, <1>9, <1>12
  <2>2. g[left].ht \in Nat
    BY <1>1, <1>3, PlaceFields
  <2> QED BY <1>1, <2>1, <2>2
<1>14. ASSUME NEW j \in 1..(l + e)
       PROVE  (q[j] = a <=> j = l) /\ (q[j] = b <=> j = l + 1)
  <2>1. CASE j <= l
    <3>1. j \in 1..l /\ j # l + 1
      BY <1>5, <2>1
    <3>2. q[j] = n.pointers[j] /\ t.node[q[j]].parent = left
      BY <1>6, <1>7, <2>1, <3>1
    <3>3. t.node[b].parent = right
      BY <1>8, <1>9, <1>12
    <3> QED BY <1>1, <1>9, <1>10, <3>1, <3>2, <3>3
  <2>2. CASE ~(j <= l)
    <3>1. j - l \in 1..e /\ j # l /\ (j - l = 1 <=> j = l + 1)
      BY <1>5, <2>2
    <3>2. q[j] = m.pointers[j - l] /\ t.node[q[j]].parent = right
      BY <1>6, <1>8, <2>2, <3>1
    <3>3. t.node[a].parent = left
      BY <1>7, <1>9, <1>12
    <3> QED BY <1>1, <1>9, <1>11, <3>1, <3>2, <3>3
  <2> QED BY <2>1, <2>2
<1>15. SidesChanged(t, left, right, l - 1, {a}, right)
  <2>1. ASSUME NEW j \in 1..(l + e)
        PROVE  (IF q[j] \in {a} THEN right ELSE IF j <= l THEN left ELSE right) = (IF j <= l - 1 THEN left ELSE right)
    <3>1. j = l \/ (j <= l <=> j <= l - 1)
      BY <1>5
    <3>2. j = l => ~(j <= l - 1)
      BY <1>5
    <3> QED BY <1>14, <3>1, <3>2
  <2>2. l \in 1..(l + e) /\ q[l] = a
    <3>1. l \in 1..(l + e)
      BY <1>5
    <3> QED BY <1>14, <3>1
  <2> QED BY <2>1, <2>2 DEF SidesChanged, l, e, q, n, m
<1>16. SidesChanged(t, left, right, l + 1, {b}, left)
  <2>1. ASSUME NEW j \in 1..(l + e)
        PROVE  (IF q[j] \in {b} THEN left ELSE IF j <= l THEN left ELSE right) = (IF j <= l + 1 THEN left ELSE right)
    <3>1. j = l + 1 \/ (j <= l <=> j <= l + 1)
      BY <1>5
    <3>2. j = l + 1 => j <= l + 1
      BY <1>5
    <3> QED BY <1>14, <3>1, <3>2
  <2>2. l + 1 \in 1..(l + e) /\ q[l + 1] = b
    <3>1. l + 1 \in 1..(l + e)
      BY <1>5
    <3> QED BY <1>14, <3>1
  <2> QED BY <2>1, <2>2 DEF SidesChanged, l, e, q, n, m
<1> QED BY <1>5, <1>13, <1>15, <1>16 DEF a, b, n, m

\* Neighbours left and right below p, and how many keys they have.
Pair(t, g, p, i, left, right) ==
  /\ Shape(t, g) /\ p \in DOMAIN t.node /\ ~t.node[p].is_leaf /\ i \in 1..Len(t.node[p].keys)
  /\ t.node[p].pointers[i] = left /\ t.node[p].pointers[i + 1] = right

Paired(t, p, i, left, right) ==
  /\ Heap(t) /\ left \in DOMAIN t.node /\ right \in DOMAIN t.node /\ p \in DOMAIN t.node
  /\ left # right /\ left # p /\ right # p
  /\ t.node[left].parent = p /\ t.node[right].parent = p
  /\ t.node[right].is_leaf = t.node[left].is_leaf
  /\ t.node[left] \in NodeType /\ t.node[right] \in NodeType /\ t.node[p] \in NodeType
  /\ left \in Nat \ {Null} /\ right \in Nat \ {Null} /\ p \in Nat \ {Null}
  /\ t.node[left].keys \in Seq(Int) /\ t.node[left].pointers \in Seq(Int)
  /\ t.node[right].keys \in Seq(Int) /\ t.node[right].pointers \in Seq(Int)
  /\ t.node[p].keys[i] \in Int
  /\ Len(t.node[left].pointers) = Len(t.node[left].keys) + (IF t.node[left].is_leaf THEN 0 ELSE 1)
  /\ Len(t.node[right].pointers) = Len(t.node[right].keys) + (IF t.node[left].is_leaf THEN 0 ELSE 1)

LEMMA PairOfNodes ==
  ASSUME NEW t, NEW g, NEW p, NEW i, NEW left, NEW right, Pair(t, g, p, i, left, right)
  PROVE  Paired(t, p, i, left, right)
<1>1. Shape(t, g) /\ p \in DOMAIN t.node /\ ~t.node[p].is_leaf /\ i \in 1..Len(t.node[p].keys)
      /\ t.node[p].pointers[i] = left /\ t.node[p].pointers[i + 1] = right
  BY DEF Pair
<1>2. Beside(t, g, p, i, left, right, t.node[p].keys[i])
  BY <1>1, Neighbours
<1>3. /\ left \in DOMAIN t.node /\ right \in DOMAIN t.node /\ left # right /\ left # p /\ right # p
      /\ t.node[left].parent = p /\ t.node[right].parent = p
      /\ t.node[right].is_leaf = t.node[left].is_leaf /\ t.node[p].keys[i] \in Int
  BY <1>2 DEF Beside
<1>4. Heap(t)
  BY <1>1 DEF Shape, Placed
<1>5. /\ t.node[left] \in NodeType /\ t.node[right] \in NodeType /\ t.node[p] \in NodeType
      /\ left \in Nat \ {Null} /\ right \in Nat \ {Null} /\ p \in Nat \ {Null}
      /\ t.node[left].keys \in Seq(Int) /\ t.node[left].pointers \in Seq(Int)
      /\ t.node[right].keys \in Seq(Int) /\ t.node[right].pointers \in Seq(Int)
  BY <1>1, <1>3, <1>4, NodeFields
<1>6. ASSUME NEW n \in DOMAIN t.node
      PROVE  Len(t.node[n].pointers) = Len(t.node[n].keys) + (IF t.node[n].is_leaf THEN 0 ELSE 1)
  <2>1. Body(t, g, n) /\ Len(t.node[n].keys) \in Nat
    BY <1>1, <1>4, NodeFields DEF Shape
  <2>2. CASE t.node[n].is_leaf
    <3>1. Len(t.node[n].pointers) = Len(t.node[n].keys)
      BY <2>1, <2>2 DEF Body, LeafBody
    <3> QED BY <2>1, <2>2, <3>1
  <2>3. CASE ~t.node[n].is_leaf
    BY <2>1, <2>3 DEF Body, Fenced
  <2> QED BY <2>2, <2>3
<1>7. (IF t.node[right].is_leaf THEN 0 ELSE 1) = (IF t.node[left].is_leaf THEN 0 ELSE 1)
  BY <1>3, Zenon
<1>8. /\ Len(t.node[left].pointers) = Len(t.node[left].keys) + (IF t.node[left].is_leaf THEN 0 ELSE 1)
      /\ Len(t.node[right].pointers) = Len(t.node[right].keys) + (IF t.node[left].is_leaf THEN 0 ELSE 1)
  BY <1>3, <1>6, <1>7
<1> QED BY <1>1, <1>3, <1>4, <1>5, <1>8 DEF Paired

LEMMA LeafTakesFromRight ==
  ASSUME NEW t, NEW g, NEW p, NEW i, NEW left, NEW right, Pair(t, g, p, i, left, right),
         t.node[left].is_leaf, Len(t.node[right].keys) >= 2
  PROVE  Shifted(TakenFromRight(t, left, right, i), t, p, left, right, Len(t.node[left].keys) + 1,
                 (Len(t.node[left].keys) + Len(t.node[right].keys)) - (Len(t.node[left].keys) + 1))
<1> DEFINE n == t.node[left]
           m == t.node[right]
           ak == Append(n.keys, Head(m.keys))
           ap == Append(n.pointers, Head(m.pointers))
           a == [n EXCEPT !.keys = ak, !.pointers = ap]
           bk == Tail(m.keys)
           bp == Tail(m.pointers)
           b == [m EXCEPT !.keys = bk, !.pointers = bp]
           k == m.keys[2]
           y == [t.node[p] EXCEPT !.keys[i] = k]
           c == n.keys \o m.keys
           q == n.pointers \o m.pointers
           u == Lent(t, left, a, right, b, p, y)
           l == Len(n.keys)
           e == Len(m.keys)
<1>1. /\ Heap(t) /\ left \in DOMAIN t.node /\ right \in DOMAIN t.node /\ p \in DOMAIN t.node
      /\ left # right /\ left # p /\ right # p /\ n.parent = p /\ m.parent = p
      /\ n \in NodeType /\ m \in NodeType /\ t.node[p] \in NodeType
      /\ left \in Nat \ {Null} /\ right \in Nat \ {Null} /\ p \in Nat \ {Null}
      /\ n.keys \in Seq(Int) /\ n.pointers \in Seq(Int) /\ m.keys \in Seq(Int) /\ m.pointers \in Seq(Int)
  <2>1. Paired(t, p, i, left, right)
    BY PairOfNodes
  <2> QED BY <2>1 DEF Paired
<1>2. m.is_leaf
  <2>1. m.is_leaf = n.is_leaf
    BY PairOfNodes DEF Paired
  <2> QED BY <2>1, Zenon
<1>3. Len(n.pointers) = l /\ Len(m.pointers) = e /\ l \in Nat /\ e \in Nat /\ e >= 2
  <2>1. l \in Nat /\ e \in Nat
    <3>1. n.keys \in Seq(Int) /\ m.keys \in Seq(Int)
      BY <1>1
    <3> HIDE DEF n, m
    <3> QED BY <3>1
  <2>2. Len(n.pointers) = l + (IF n.is_leaf THEN 0 ELSE 1) /\ Len(m.pointers) = e + (IF n.is_leaf THEN 0 ELSE 1)
    <3>1. Paired(t, p, i, left, right)
      BY PairOfNodes
    <3> QED BY <3>1 DEF Paired
  <2>3. Len(n.pointers) = l + 0 /\ Len(m.pointers) = e + 0 /\ e >= 2
    BY <2>2
  <2> HIDE DEF l, e, n, m
  <2> QED BY <2>1, <2>3
<1>4. m.keys # <<>> /\ m.pointers # <<>>
  <2> DEFINE x == m.keys
             z == m.pointers
  <2>1. x \in Seq(Int) /\ z \in Seq(Int) /\ Len(x) = e /\ Len(z) = e
    BY <1>1, <1>3
  <2> HIDE DEF x, z, e, l, n, m
  <2>2. x # <<>> /\ z # <<>>
    BY <1>3, <2>1
  <2> QED BY <2>2 DEF x, z
<1>5. TakenFromRight(t, left, right, i) = u
  BY <1>1, <1>2 DEF TakenFromRight
<1> HIDE DEF n, m
<1>6. HeadMoved(n.keys, m.keys, c) /\ HeadMoved(n.pointers, m.pointers, q)
  BY <1>1, <1>4, HeadGoes
<1>7. Len(c) = l + e /\ Len(q) = l + e
  <2>1. Joined(c, n.keys, m.keys) /\ Joined(q, n.pointers, m.pointers)
    BY <1>1, JoinedOf
  <2> HIDE DEF c, q
  <2> QED BY <1>3, <2>1 DEF Joined
<1>8. /\ ak = SubSeq(c, 1, l + 1) /\ Tail(m.keys) = SubSeq(c, l + 2, Len(c)) /\ ak \in Seq(Int) /\ Tail(m.keys) \in Seq(Int)
      /\ ap = SubSeq(q, 1, l + 1) /\ Tail(m.pointers) = SubSeq(q, l + 2, Len(c)) /\ ap \in Seq(Int) /\ Tail(m.pointers) \in Seq(Int)
  <2>1. /\ ak = SubSeq(c, 1, Len(n.keys) + 1) /\ Tail(m.keys) = SubSeq(c, Len(n.keys) + 2, Len(c))
        /\ ak \in Seq(Int) /\ Tail(m.keys) \in Seq(Int)
    BY <1>6 DEF HeadMoved
  <2>2. /\ ap = SubSeq(q, 1, Len(n.pointers) + 1) /\ Tail(m.pointers) = SubSeq(q, Len(n.pointers) + 2, Len(q))
        /\ ap \in Seq(Int) /\ Tail(m.pointers) \in Seq(Int)
    BY <1>6 DEF HeadMoved
  <2> HIDE DEF c, q, ak, ap
  <2> QED BY <1>3, <1>7, <2>1, <2>2 DEF l
<1>9. k = c[(l + 1) + 1] /\ k \in Int
  <2>1. Joined(c, n.keys, m.keys)
    BY <1>1, JoinedOf
  <2>2. (l + 1) + 1 \in 1..(l + e) /\ ~((l + 1) + 1 <= l) /\ ((l + 1) + 1) - l = 2 /\ 2 \in 1..e
    <3> HIDE DEF l, e
    <3> QED BY <1>3
  <2>3. k \in Int
    BY <1>1, <2>2
  <2> HIDE DEF c, k
  <2>4. c[(l + 1) + 1] = m.keys[2]
    BY <2>1, <2>2 DEF Joined
  <2> QED BY <2>3, <2>4 DEF k
<1> HIDE DEF k, c, q, ak, ap
<1>10. /\ a \in NodeType /\ a.keys = ak /\ a.pointers = ap /\ a.is_leaf = n.is_leaf /\ a.parent = n.parent /\ a.next = n.next
  BY <1>1, <1>8 DEF NodeType
<1>11. /\ b \in NodeType /\ b.keys = bk /\ b.pointers = bp
       /\ b.is_leaf = m.is_leaf /\ b.parent = m.parent /\ b.next = m.next
  <2>1. bk \in Seq(Int) /\ bp \in Seq(Int)
    BY <1>8
  <2> HIDE DEF bk, bp
  <2> QED BY <1>1, <2>1 DEF NodeType
<1>12. y \in NodeType
  <2>1. i \in 1..Len(t.node[p].keys)
    BY DEF Pair
  <2> QED BY <1>1, <1>9, <2>1, KeyWritten
<1> HIDE DEF a, b
<1>13. Exchanged(u, t, left, a, right, b, p, y, {}, Null)
  <2> HIDE DEF y
  <2>1. WroteThree(u, t, left, a, right, b, p, y)
    BY <1>1, <1>10, <1>11, <1>12, LentNodes
  <2> HIDE DEF u
  <2> QED BY <1>1, <2>1, WrittenAndAdopted DEF Null
<1> HIDE DEF u
<1>14. SharedLeaves(t, left, right, l + 1, a, b)
  <2>1. (l + 1) + 1 = l + 2
    <3> HIDE DEF l
    <3> QED BY <1>3
  <2>2. b.keys = SubSeq(c, (l + 1) + 1, Len(c)) /\ b.pointers = SubSeq(q, (l + 1) + 1, Len(c))
    BY <1>8, <1>11, <2>1
  <2> HIDE DEF l
  <2> QED BY <1>8, <1>10, <1>11, <2>2 DEF SharedLeaves, c, q, n, m
<1>15. l + 1 \in Nat /\ 1 <= l + 1 /\ l + 1 < l + e
  <2> HIDE DEF l, e
  <2> QED BY <1>3
<1>16. Shifted(u, t, p, left, right, l + 1, (l + e) - (l + 1))
  <2>1. /\ Shape(t, g) /\ p \in DOMAIN t.node /\ ~t.node[p].is_leaf /\ i \in 1..Len(t.node[p].keys)
        /\ t.node[p].pointers[i] = left /\ t.node[p].pointers[i + 1] = right
    BY DEF Pair
  <2>2. k = (t.node[left].keys \o t.node[right].keys)[(l + 1) + 1]
    BY <1>9 DEF c, n, m
  <2> HIDE DEF k
  <2>3. l + 1 < Len(t.node[left].keys) + Len(t.node[right].keys)
    BY <1>15 DEF l, e, n, m
  <2>4. Shifted(u, t, p, left, right, l + 1, (Len(t.node[left].keys) + Len(t.node[right].keys)) - (l + 1))
    BY <1>13, <1>14, <1>15, <2>1, <2>2, <2>3, LeafShared
  <2> QED BY <2>4 DEF l, e, n, m
<1> QED BY <1>5, <1>16 DEF u, l, e, n, m

LEMMA LeafTakesFromLeft ==
  ASSUME NEW t, NEW g, NEW p, NEW i, NEW left, NEW right, Pair(t, g, p, i, left, right),
         t.node[left].is_leaf, Len(t.node[left].keys) >= 2
  PROVE  Shifted(TakenFromLeft(t, right, left, i), t, p, left, right, Len(t.node[left].keys) - 1,
                 (Len(t.node[left].keys) + Len(t.node[right].keys)) - (Len(t.node[left].keys) - 1))
<1> DEFINE n == t.node[left]
           m == t.node[right]
           k == Last(n.keys)
           ak == Front(n.keys)
           ap == Front(n.pointers)
           bk == <<k>> \o m.keys
           bp == <<Last(n.pointers)>> \o m.pointers
           a == [n EXCEPT !.keys = ak, !.pointers = ap]
           b == [m EXCEPT !.keys = bk, !.pointers = bp]
           y == [t.node[p] EXCEPT !.keys[i] = k]
           c == n.keys \o m.keys
           q == n.pointers \o m.pointers
           u == Lent(t, right, b, left, a, p, y)
           l == Len(n.keys)
           e == Len(m.keys)
<1>1. /\ Heap(t) /\ left \in DOMAIN t.node /\ right \in DOMAIN t.node /\ p \in DOMAIN t.node
      /\ left # right /\ left # p /\ right # p /\ n.parent = p /\ m.parent = p
      /\ n \in NodeType /\ m \in NodeType /\ t.node[p] \in NodeType
      /\ left \in Nat \ {Null} /\ right \in Nat \ {Null} /\ p \in Nat \ {Null}
      /\ n.keys \in Seq(Int) /\ n.pointers \in Seq(Int) /\ m.keys \in Seq(Int) /\ m.pointers \in Seq(Int)
  <2>1. Paired(t, p, i, left, right)
    BY PairOfNodes
  <2> QED BY <2>1 DEF Paired
<1>2. Len(n.pointers) = l /\ Len(m.pointers) = e /\ l \in Nat /\ e \in Nat /\ l >= 2
  <2>1. l \in Nat /\ e \in Nat
    <3>1. n.keys \in Seq(Int) /\ m.keys \in Seq(Int)
      BY <1>1
    <3> HIDE DEF n, m
    <3> QED BY <3>1
  <2>2. Len(n.pointers) = l + (IF n.is_leaf THEN 0 ELSE 1) /\ Len(m.pointers) = e + (IF n.is_leaf THEN 0 ELSE 1)
    BY PairOfNodes DEF Paired
  <2>3. Len(n.pointers) = l + 0 /\ Len(m.pointers) = e + 0 /\ l >= 2
    BY <2>2
  <2> HIDE DEF l, e, n, m
  <2> QED BY <2>1, <2>3
<1>3. n.keys # <<>> /\ n.pointers # <<>>
  <2> DEFINE x == n.keys
             z == n.pointers
  <2>1. x \in Seq(Int) /\ z \in Seq(Int) /\ Len(x) = l /\ Len(z) = l
    BY <1>1, <1>2
  <2> HIDE DEF x, z, e, l, n, m
  <2>2. x # <<>> /\ z # <<>>
    BY <1>2, <2>1
  <2> QED BY <2>2 DEF x, z
<1>4. TakenFromLeft(t, right, left, i) = u
  BY <1>1 DEF TakenFromLeft
<1> HIDE DEF n, m
<1>5. LastMoved(n.keys, m.keys, c) /\ LastMoved(n.pointers, m.pointers, q)
  BY <1>1, <1>3, LastGoes
<1>6. Len(c) = l + e /\ Len(q) = l + e
  <2>1. Joined(c, n.keys, m.keys) /\ Joined(q, n.pointers, m.pointers)
    BY <1>1, JoinedOf
  <2> HIDE DEF c, q
  <2> QED BY <1>2, <2>1 DEF Joined
<1>7. /\ ak = SubSeq(c, 1, l - 1) /\ bk = SubSeq(c, l, Len(c)) /\ ak \in Seq(Int) /\ bk \in Seq(Int) /\ k = c[l]
      /\ ap = SubSeq(q, 1, l - 1) /\ bp = SubSeq(q, l, Len(c)) /\ ap \in Seq(Int) /\ bp \in Seq(Int)
  <2>1. /\ ak = SubSeq(c, 1, Len(n.keys) - 1) /\ bk = SubSeq(c, Len(n.keys), Len(c))
        /\ ak \in Seq(Int) /\ bk \in Seq(Int) /\ k = c[Len(n.keys)]
    BY <1>5 DEF LastMoved
  <2>2. /\ ap = SubSeq(q, 1, Len(n.pointers) - 1) /\ bp = SubSeq(q, Len(n.pointers), Len(q))
        /\ ap \in Seq(Int) /\ bp \in Seq(Int)
    BY <1>5 DEF LastMoved
  <2> HIDE DEF c, q, ak, ap, bk, bp, k
  <2> QED BY <1>2, <1>6, <2>1, <2>2 DEF l
<1>8. k \in Int
  BY <1>1, <1>3, EndsOf
<1> HIDE DEF k, c, q, ak, ap, bk, bp
<1>9. /\ a \in NodeType /\ a.keys = ak /\ a.pointers = ap /\ a.is_leaf = n.is_leaf /\ a.parent = n.parent /\ a.next = n.next
  BY <1>1, <1>7 DEF NodeType
<1>10. /\ b \in NodeType /\ b.keys = bk /\ b.pointers = bp
       /\ b.is_leaf = m.is_leaf /\ b.parent = m.parent /\ b.next = m.next
  BY <1>1, <1>7 DEF NodeType
<1>11. y \in NodeType
  <2>1. i \in 1..Len(t.node[p].keys)
    BY DEF Pair
  <2> QED BY <1>1, <1>8, <2>1, KeyWritten
<1> HIDE DEF a, b
<1>12. Exchanged(u, t, left, a, right, b, p, y, {}, Null)
  <2> HIDE DEF y
  <2>1. WroteThree(u, t, right, b, left, a, p, y)
    BY <1>1, <1>9, <1>10, <1>11, LentNodes
  <2> HIDE DEF u
  <2>2. WroteThree(u, t, left, a, right, b, p, y)
    BY <2>1 DEF WroteThree
  <2> QED BY <1>1, <2>2, WrittenAndAdopted DEF Null
<1> HIDE DEF u
<1>13. (l - 1) + 1 = l
  <2> HIDE DEF l
  <2> QED BY <1>2
<1>14. SharedLeaves(t, left, right, l - 1, a, b)
  <2>1. b.keys = SubSeq(c, (l - 1) + 1, Len(c)) /\ b.pointers = SubSeq(q, (l - 1) + 1, Len(c))
    BY <1>7, <1>10, <1>13
  <2> HIDE DEF l
  <2> QED BY <1>7, <1>9, <1>10, <2>1 DEF SharedLeaves, c, q, n, m
<1>15. l - 1 \in Nat /\ 1 <= l - 1 /\ l - 1 < l + e
  <2> HIDE DEF l, e
  <2> QED BY <1>2
<1>16. Shifted(u, t, p, left, right, l - 1, (l + e) - (l - 1))
  <2>1. /\ Shape(t, g) /\ p \in DOMAIN t.node /\ ~t.node[p].is_leaf /\ i \in 1..Len(t.node[p].keys)
        /\ t.node[p].pointers[i] = left /\ t.node[p].pointers[i + 1] = right
    BY DEF Pair
  <2>2. k = (t.node[left].keys \o t.node[right].keys)[(l - 1) + 1]
    BY <1>7, <1>13 DEF c, n, m
  <2> HIDE DEF k
  <2>3. l - 1 < Len(t.node[left].keys) + Len(t.node[right].keys)
    BY <1>15 DEF l, e, n, m
  <2>4. Shifted(u, t, p, left, right, l - 1, (Len(t.node[left].keys) + Len(t.node[right].keys)) - (l - 1))
    BY <1>12, <1>14, <1>15, <2>1, <2>2, <2>3, LeafShared
  <2> QED BY <2>4 DEF l, e, n, m
<1> QED BY <1>4, <1>16 DEF u, l, e, n, m

LEMMA NodeTakesFromLeft ==
  ASSUME NEW t, NEW g, NEW p, NEW i, NEW left, NEW right, Pair(t, g, p, i, left, right),
         ~t.node[left].is_leaf, Len(t.node[left].keys) >= 1
  PROVE  Shifted(TakenFromLeft(t, right, left, i), t, p, left, right, Len(t.node[left].keys) - 1,
                 ((Len(t.node[left].keys) + Len(t.node[right].keys)) + 1) - Len(t.node[left].keys))
<1> DEFINE n == t.node[left]
           m == t.node[right]
           k0 == t.node[p].keys[i]
           k == Last(n.keys)
           d == Last(n.pointers)
           ak == Front(n.keys)
           ap == Front(n.pointers)
           bk == <<k0>> \o m.keys
           bp == <<d>> \o m.pointers
           a == [n EXCEPT !.keys = ak, !.pointers = ap]
           b == [m EXCEPT !.keys = bk, !.pointers = bp]
           y == [t.node[p] EXCEPT !.keys[i] = k]
           c == n.keys \o <<k0>> \o m.keys
           q == n.pointers \o m.pointers
           v == Lent(t, right, b, left, a, p, y)
           u == Adopt(v, right, {d})
           l == Len(n.keys)
           e == Len(m.keys)
<1>1. /\ Heap(t) /\ left \in DOMAIN t.node /\ right \in DOMAIN t.node /\ p \in DOMAIN t.node
      /\ left # right /\ left # p /\ right # p /\ n.parent = p /\ m.parent = p
      /\ n \in NodeType /\ m \in NodeType /\ t.node[p] \in NodeType /\ k0 \in Int
      /\ left \in Nat \ {Null} /\ right \in Nat \ {Null} /\ p \in Nat \ {Null}
      /\ n.keys \in Seq(Int) /\ n.pointers \in Seq(Int) /\ m.keys \in Seq(Int) /\ m.pointers \in Seq(Int)
  <2>1. Paired(t, p, i, left, right)
    BY PairOfNodes
  <2> QED BY <2>1 DEF Paired
<1>2. Len(n.pointers) = l + 1 /\ Len(m.pointers) = e + 1 /\ l \in Nat /\ e \in Nat /\ l >= 1
  <2>1. l \in Nat /\ e \in Nat
    <3>1. n.keys \in Seq(Int) /\ m.keys \in Seq(Int)
      BY <1>1
    <3> HIDE DEF n, m
    <3> QED BY <3>1
  <2>4. Paired(t, p, i, left, right)
    BY PairOfNodes
  <2>2. Len(n.pointers) = l + (IF n.is_leaf THEN 0 ELSE 1) /\ Len(m.pointers) = e + (IF n.is_leaf THEN 0 ELSE 1)
    BY <2>4 DEF Paired
  <2>3. Len(n.pointers) = l + 1 /\ Len(m.pointers) = e + 1 /\ l >= 1
    BY <2>2
  <2> HIDE DEF l, e, n, m
  <2> QED BY <2>1, <2>3
<1>3. n.keys # <<>> /\ n.pointers # <<>>
  <2> DEFINE x == n.keys
             z == n.pointers
  <2>1. x \in Seq(Int) /\ z \in Seq(Int) /\ Len(x) = l /\ Len(z) = l + 1
    BY <1>1, <1>2
  <2> HIDE DEF x, z, e, l, n, m
  <2>2. x # <<>> /\ z # <<>>
    BY <1>2, <2>1
  <2> QED BY <2>2 DEF x, z
<1>4. TakenFromLeft(t, right, left, i) = u
  BY <1>1 DEF TakenFromLeft
<1>5. /\ Shape(t, g) /\ p \in DOMAIN t.node /\ ~t.node[p].is_leaf /\ i \in 1..Len(t.node[p].keys)
      /\ t.node[p].pointers[i] = left /\ t.node[p].pointers[i + 1] = right
  BY DEF Pair
<1>6. SidesChanged(t, left, right, l, {d}, right) /\ d \notin {left, right, p}
  BY <1>5, EndChildren
<1>7. ~n.is_leaf
  OBVIOUS
<1> HIDE DEF n, m, k0, d
<1>8. LastBetween(n.keys, k0, m.keys, c) /\ LastMoved(n.pointers, m.pointers, q)
  BY <1>1, <1>3, LastGoes, LastGoesBetween DEF d
<1>9. Len(c) = (l + e) + 1 /\ Len(q) = ((l + e) + 1) + 1
  <2> DEFINE x == n.keys \o <<k0>>
  <2>1. x \in Seq(Int) /\ Len(x) = l + 1
    BY <1>1, OneMore
  <2> HIDE DEF x
  <2>2. Joined(x \o m.keys, x, m.keys) /\ Joined(q, n.pointers, m.pointers)
    BY <1>1, <2>1, JoinedOf
  <2>3. c = x \o m.keys
    BY DEF x
  <2> HIDE DEF c, q
  <2>4. Len(c) = (l + 1) + e /\ Len(q) = (l + 1) + (e + 1)
    BY <1>2, <2>1, <2>2, <2>3 DEF Joined
  <2> HIDE DEF l, e
  <2> QED BY <1>2, <2>4
<1>10. /\ ak = SubSeq(c, 1, l - 1) /\ bk = SubSeq(c, l + 1, Len(c)) /\ ak \in Seq(Int) /\ bk \in Seq(Int) /\ k = c[l]
       /\ ap = SubSeq(q, 1, l) /\ bp = SubSeq(q, l + 1, Len(c) + 1) /\ ap \in Seq(Int) /\ bp \in Seq(Int)
  <2>1. /\ ak = SubSeq(c, 1, l - 1) /\ bk = SubSeq(c, l + 1, Len(c))
        /\ ak \in Seq(Int) /\ bk \in Seq(Int) /\ k = c[l]
    BY <1>8 DEF LastBetween
  <2>2. /\ ap = SubSeq(q, 1, Len(n.pointers) - 1) /\ bp = SubSeq(q, Len(n.pointers), Len(q))
        /\ ap \in Seq(Int) /\ bp \in Seq(Int)
    BY <1>8 DEF LastMoved, d
  <2>3. Len(n.pointers) = l + 1 /\ (l + 1) - 1 = l /\ Len(q) = Len(c) + 1
    <3> DEFINE x == Len(q)
               z == Len(c)
    <3>1. x = ((l + e) + 1) + 1 /\ z = (l + e) + 1
      BY <1>9
    <3> HIDE DEF x, z, l, e
    <3>2. x = z + 1 /\ (l + 1) - 1 = l
      BY <1>2, <3>1
    <3>3. Len(n.pointers) = l + 1
      BY <1>2
    <3> QED BY <3>2, <3>3 DEF x, z
  <2> HIDE DEF c, q, ak, ap, bk, bp, k, l
  <2> QED BY <2>1, <2>2, <2>3
<1>11. k \in Int
  BY <1>1, <1>3, EndsOf
<1> HIDE DEF k, c, q, ak, ap, bk, bp
<1>12. /\ a \in NodeType /\ a.keys = ak /\ a.pointers = ap /\ a.is_leaf = n.is_leaf /\ a.parent = n.parent
  BY <1>1, <1>10 DEF NodeType
<1>13. /\ b \in NodeType /\ b.keys = bk /\ b.pointers = bp /\ b.is_leaf = m.is_leaf /\ b.parent = m.parent
  BY <1>1, <1>10 DEF NodeType
<1>14. y \in NodeType
  BY <1>1, <1>5, <1>11, KeyWritten
<1> HIDE DEF a, b
<1>15. Exchanged(u, t, left, a, right, b, p, y, {d}, right)
  <2> HIDE DEF y
  <2>1. WroteThree(v, t, right, b, left, a, p, y)
    BY <1>1, <1>12, <1>13, <1>14, LentNodes
  <2> HIDE DEF v
  <2>2. WroteThree(v, t, left, a, right, b, p, y)
    BY <2>1 DEF WroteThree
  <2>3. left \notin {d} /\ right \notin {d} /\ p \notin {d} /\ right \in Nat
    BY <1>1, <1>6
  <2> QED BY <1>1, <2>2, <2>3, WrittenAndAdopted
<1> HIDE DEF u
<1>16. SharedNodes(t, left, right, k0, l, a, b)
  <2> HIDE DEF l
  <2> QED BY <1>10, <1>12, <1>13 DEF SharedNodes, c, q, n, m
<1>17. l \in Nat /\ 1 <= l /\ l <= (l + e) + 1
  <2> HIDE DEF l, e
  <2> QED BY <1>2
<1>18. NodesShare(t, u, p, i, left, right, k, l, a, b, {d}, right)
  <2>1. k = (t.node[left].keys \o <<t.node[p].keys[i]>> \o t.node[right].keys)[l]
    BY <1>10 DEF c, n, m, k0
  <2>2. l <= (Len(t.node[left].keys) + Len(t.node[right].keys)) + 1
    BY <1>17 DEF l, e, n, m
  <2>3. SharedNodes(t, left, right, t.node[p].keys[i], l, a, b)
    BY <1>16 DEF k0
  <2>4. ~t.node[left].is_leaf
    OBVIOUS
  <2> HIDE DEF l, k, e
  <2> QED BY <1>5, <1>6, <1>15, <1>17, <2>1, <2>2, <2>3, <2>4 DEF NodesShare
<1>19. Shifted(u, t, p, left, right, l - 1, ((l + e) + 1) - l)
  <2>1. Shifted(u, t, p, left, right, l - 1, ((Len(t.node[left].keys) + Len(t.node[right].keys)) + 1) - l)
    <3> HIDE DEF l
    <3> QED BY <1>5, <1>18, NodeShared
  <2> QED BY <2>1 DEF l, e, n, m
<1> QED BY <1>4, <1>19 DEF u, l, e, n, m, d, k0

LEMMA NodeTakesFromRight ==
  ASSUME NEW t, NEW g, NEW p, NEW i, NEW left, NEW right, Pair(t, g, p, i, left, right),
         ~t.node[left].is_leaf, Len(t.node[right].keys) >= 1
  PROVE  Shifted(TakenFromRight(t, left, right, i), t, p, left, right, (Len(t.node[left].keys) + 2) - 1,
                 ((Len(t.node[left].keys) + Len(t.node[right].keys)) + 1) - (Len(t.node[left].keys) + 2))
<1> DEFINE n == t.node[left]
           m == t.node[right]
           k0 == t.node[p].keys[i]
           k == Head(m.keys)
           d == Head(m.pointers)
           ak == Append(n.keys, k0)
           ap == Append(n.pointers, d)
           bk == Tail(m.keys)
           bp == Tail(m.pointers)
           a == [n EXCEPT !.keys = ak, !.pointers = ap]
           b == [m EXCEPT !.keys = bk, !.pointers = bp]
           y == [t.node[p] EXCEPT !.keys[i] = k]
           c == n.keys \o <<k0>> \o m.keys
           q == n.pointers \o m.pointers
           v == Lent(t, left, a, right, b, p, y)
           u == Adopt(v, left, {d})
           l == Len(n.keys)
           e == Len(m.keys)
<1>1. /\ Heap(t) /\ left \in DOMAIN t.node /\ right \in DOMAIN t.node /\ p \in DOMAIN t.node
      /\ left # right /\ left # p /\ right # p /\ n.parent = p /\ m.parent = p
      /\ n \in NodeType /\ m \in NodeType /\ t.node[p] \in NodeType /\ k0 \in Int
      /\ left \in Nat \ {Null} /\ right \in Nat \ {Null} /\ p \in Nat \ {Null}
      /\ n.keys \in Seq(Int) /\ n.pointers \in Seq(Int) /\ m.keys \in Seq(Int) /\ m.pointers \in Seq(Int)
  <2>1. Paired(t, p, i, left, right)
    BY PairOfNodes
  <2> QED BY <2>1 DEF Paired
<1>2. Len(n.pointers) = l + 1 /\ Len(m.pointers) = e + 1 /\ l \in Nat /\ e \in Nat /\ e >= 1
  <2>1. l \in Nat /\ e \in Nat
    <3>1. n.keys \in Seq(Int) /\ m.keys \in Seq(Int)
      BY <1>1
    <3> HIDE DEF n, m
    <3> QED BY <3>1
  <2>4. Paired(t, p, i, left, right)
    BY PairOfNodes
  <2>2. Len(n.pointers) = l + (IF n.is_leaf THEN 0 ELSE 1) /\ Len(m.pointers) = e + (IF n.is_leaf THEN 0 ELSE 1)
    BY <2>4 DEF Paired
  <2>3. Len(n.pointers) = l + 1 /\ Len(m.pointers) = e + 1 /\ e >= 1
    BY <2>2
  <2> HIDE DEF l, e, n, m
  <2> QED BY <2>1, <2>3
<1>3. m.keys # <<>> /\ m.pointers # <<>>
  <2> DEFINE x == m.keys
             z == m.pointers
  <2>1. x \in Seq(Int) /\ z \in Seq(Int) /\ Len(x) = e /\ Len(z) = e + 1
    BY <1>1, <1>2
  <2> HIDE DEF x, z, e, l, n, m
  <2>2. x # <<>> /\ z # <<>>
    BY <1>2, <2>1
  <2> QED BY <2>2 DEF x, z
<1>4. TakenFromRight(t, left, right, i) = u
  <2>3. Paired(t, p, i, left, right)
    BY PairOfNodes
  <2>1. m.is_leaf = n.is_leaf
    BY <2>3 DEF Paired
  <2>2. ~m.is_leaf
    BY <2>1, Zenon
  <2> QED BY <1>1, <2>2 DEF TakenFromRight
<1>5. /\ Shape(t, g) /\ p \in DOMAIN t.node /\ ~t.node[p].is_leaf /\ i \in 1..Len(t.node[p].keys)
      /\ t.node[p].pointers[i] = left /\ t.node[p].pointers[i + 1] = right
  BY DEF Pair
<1>6. SidesChanged(t, left, right, l + 2, {d}, left) /\ d \notin {left, right, p}
  BY <1>5, EndChildren
<1>7. ~n.is_leaf
  OBVIOUS
<1> HIDE DEF n, m, k0, d
<1>8. HeadBetween(n.keys, k0, m.keys, c) /\ HeadMoved(n.pointers, m.pointers, q)
  BY <1>1, <1>3, HeadGoes, HeadGoesBetween
<1>9. Len(c) = (l + e) + 1 /\ Len(q) = ((l + e) + 1) + 1
  <2> DEFINE x == n.keys \o <<k0>>
  <2>1. x \in Seq(Int) /\ Len(x) = l + 1
    BY <1>1, OneMore
  <2> HIDE DEF x
  <2>2. Joined(x \o m.keys, x, m.keys) /\ Joined(q, n.pointers, m.pointers)
    BY <1>1, <2>1, JoinedOf
  <2>3. c = x \o m.keys
    BY DEF x
  <2> HIDE DEF c, q
  <2>4. Len(c) = (l + 1) + e /\ Len(q) = (l + 1) + (e + 1)
    BY <1>2, <2>1, <2>2, <2>3 DEF Joined
  <2> HIDE DEF l, e
  <2> QED BY <1>2, <2>4
<1>10. /\ ak = SubSeq(c, 1, (l + 2) - 1) /\ bk = SubSeq(c, (l + 2) + 1, Len(c)) /\ ak \in Seq(Int) /\ bk \in Seq(Int) /\ k = c[l + 2]
       /\ ap = SubSeq(q, 1, l + 2) /\ bp = SubSeq(q, (l + 2) + 1, Len(c) + 1) /\ ap \in Seq(Int) /\ bp \in Seq(Int)
  <2>1. /\ ak = SubSeq(c, 1, l + 1) /\ bk = SubSeq(c, l + 3, Len(c))
        /\ ak \in Seq(Int) /\ bk \in Seq(Int) /\ k = c[l + 2]
    BY <1>8 DEF HeadBetween
  <2>2. /\ ap = SubSeq(q, 1, Len(n.pointers) + 1) /\ bp = SubSeq(q, Len(n.pointers) + 2, Len(q))
        /\ ap \in Seq(Int) /\ bp \in Seq(Int)
    BY <1>8 DEF HeadMoved, d
  <2>3. Len(n.pointers) + 1 = l + 2 /\ Len(n.pointers) + 2 = l + 3 /\ Len(q) = Len(c) + 1
    <3> DEFINE x == Len(q)
               z == Len(c)
    <3>1. x = ((l + e) + 1) + 1 /\ z = (l + e) + 1
      BY <1>9
    <3> HIDE DEF x, z, l, e
    <3>2. x = z + 1
      BY <1>2, <3>1
    <3>3. Len(n.pointers) = l + 1
      BY <1>2
    <3>4. (l + 1) + 1 = l + 2 /\ (l + 1) + 2 = l + 3
      BY <1>2
    <3> QED BY <3>2, <3>3, <3>4 DEF x, z
  <2>4. (l + 2) - 1 = l + 1 /\ (l + 2) + 1 = l + 3
    <3> HIDE DEF l, e
    <3> QED BY <1>2
  <2> HIDE DEF c, q, ak, ap, bk, bp, k, l
  <2> QED BY <2>1, <2>2, <2>3, <2>4
<1>11. k \in Int
  BY <1>1, <1>3, EndsOf
<1> HIDE DEF k, c, q, ak, ap, bk, bp
<1>12. /\ a \in NodeType /\ a.keys = ak /\ a.pointers = ap /\ a.is_leaf = n.is_leaf /\ a.parent = n.parent
  BY <1>1, <1>10 DEF NodeType
<1>13. /\ b \in NodeType /\ b.keys = bk /\ b.pointers = bp /\ b.is_leaf = m.is_leaf /\ b.parent = m.parent
  BY <1>1, <1>10 DEF NodeType
<1>14. y \in NodeType
  BY <1>1, <1>5, <1>11, KeyWritten
<1> HIDE DEF a, b
<1>15. Exchanged(u, t, left, a, right, b, p, y, {d}, left)
  <2> HIDE DEF y
  <2>2. WroteThree(v, t, left, a, right, b, p, y)
    BY <1>1, <1>12, <1>13, <1>14, LentNodes
  <2> HIDE DEF v
  <2>3. left \notin {d} /\ right \notin {d} /\ p \notin {d} /\ left \in Nat
    BY <1>1, <1>6
  <2> QED BY <1>1, <2>2, <2>3, WrittenAndAdopted
<1> HIDE DEF u
<1>16. SharedNodes(t, left, right, k0, l + 2, a, b)
  <2> HIDE DEF l
  <2> QED BY <1>10, <1>12, <1>13 DEF SharedNodes, c, q, n, m
<1>17. l + 2 \in Nat /\ 1 <= l + 2 /\ l + 2 <= (l + e) + 1
  <2> HIDE DEF l, e
  <2> QED BY <1>2
<1>18. NodesShare(t, u, p, i, left, right, k, l + 2, a, b, {d}, left)
  <2>1. k = (t.node[left].keys \o <<t.node[p].keys[i]>> \o t.node[right].keys)[l + 2]
    BY <1>10 DEF c, n, m, k0
  <2>2. l + 2 <= (Len(t.node[left].keys) + Len(t.node[right].keys)) + 1
    BY <1>17 DEF l, e, n, m
  <2>3. SharedNodes(t, left, right, t.node[p].keys[i], l + 2, a, b)
    BY <1>16 DEF k0
  <2>4. ~t.node[left].is_leaf
    OBVIOUS
  <2> HIDE DEF l, k, e
  <2> QED BY <1>5, <1>6, <1>15, <1>17, <2>1, <2>2, <2>3, <2>4 DEF NodesShare
<1>19. Shifted(u, t, p, left, right, (l + 2) - 1, ((l + e) + 1) - (l + 2))
  <2>1. Shifted(u, t, p, left, right, (l + 2) - 1, ((Len(t.node[left].keys) + Len(t.node[right].keys)) + 1) - (l + 2))
    <3> HIDE DEF l
    <3> QED BY <1>5, <1>18, NodeShared
  <2> QED BY <2>1 DEF l, e, n, m
<1> QED BY <1>4, <1>19 DEF u, l, e, n, m, d, k0

LEMMA TreeOf == tree.root = root /\ tree.node = node
BY DEF tree

\* The child_index of a node that is not the root, and the pointers of its parent.
LEMMA IndexOfChild ==
  ASSUME NEW g, Shape(tree, g), at \in DOMAIN node, at # root
  PROVE  /\ node[at].parent \in DOMAIN node /\ ~parent.is_leaf /\ Len(parent.pointers) = Len(parent.keys) + 1
         /\ Len(parent.keys) \in Nat /\ child_index \in 1..Len(parent.pointers) /\ parent.pointers[child_index] = at
<1> DEFINE p == node[at].parent
<1>1. IsChild(tree, at)
  BY TreeOf DEF Shape, Under
<1>2. p \in DOMAIN node /\ ~parent.is_leaf /\ \E i \in 1..Len(parent.pointers) : parent.pointers[i] = at
  BY <1>1, TreeOf DEF IsChild, parent
<1>3. Placed(tree, g) /\ Heap(tree) /\ Body(tree, g, p)
  BY <1>2, TreeOf DEF Shape, Placed
<1>4. parent \in NodeType /\ parent.pointers \in Seq(Int) /\ Len(parent.keys) \in Nat /\ Len(parent.pointers) \in Nat
  BY <1>2, <1>3, TreeOf, NodeFields DEF parent
<1>5. Len(parent.pointers) = Len(parent.keys) + 1
  BY <1>2, <1>3, TreeOf DEF Body, Fenced, parent
<1>6. PICK i \in 1..Len(parent.pointers) : parent.pointers[i] = at
  BY <1>2
<1>7. \A j \in 1..Len(parent.pointers) : parent.pointers[j] = at => j = i
  <2>1. ASSUME NEW j \in 1..Len(tree.node[p].pointers), NEW k \in 1..Len(tree.node[p].pointers),
               tree.node[p].pointers[j] = tree.node[p].pointers[k]
        PROVE  j = k
    BY <1>2, <1>3, <2>1, TreeOf, DistinctChildren DEF parent
  <2> QED BY <1>6, <2>1, TreeOf DEF parent
<1>8. Position(parent.pointers, parent.pointers[i]) = i
  BY <1>4, <1>6, <1>7, PositionOf
<1>9. child_index = i
  BY <1>6, <1>8 DEF child_index
<1> QED BY <1>2, <1>4, <1>5, <1>6, <1>9

\* The neighbor is the child of the parent before the node, or after it if it is the first one.
LEMMA NeighborBeside ==
  ASSUME NEW g, Shape(tree, g), at \in DOMAIN node, at # root, Len(parent.keys) >= 1
  PROVE  /\ leftmost => Pair(tree, g, node[at].parent, k_prime_index, at, neighbor)
         /\ ~leftmost => Pair(tree, g, node[at].parent, k_prime_index, neighbor, at)
<1> DEFINE p == node[at].parent
           i == child_index
           l == Len(parent.keys)
<1>1. /\ p \in DOMAIN node /\ ~parent.is_leaf /\ Len(parent.pointers) = l + 1
      /\ l \in Nat /\ i \in 1..(l + 1) /\ parent.pointers[i] = at
  BY IndexOfChild
<1>2. ASSUME NEW j \in 1..l, NEW left, NEW right, parent.pointers[j] = left, parent.pointers[j + 1] = right
      PROVE  Pair(tree, g, p, j, left, right)
  BY <1>1, <1>2, TreeOf DEF Pair, parent
<1>3. CASE leftmost
  <2>1. i = 1 /\ k_prime_index = 1 /\ neighbor = parent.pointers[1 + 1] /\ 1 \in 1..l
    BY <1>1, <1>3 DEF leftmost, k_prime_index, neighbor
  <2> HIDE DEF i, l
  <2>2. parent.pointers[1] = at
    BY <1>1, <2>1
  <2> QED BY <1>2, <1>3, <2>1, <2>2
<1>4. CASE ~leftmost
  <2>1. i # 1 /\ k_prime_index = i - 1 /\ neighbor = parent.pointers[i - 1]
    BY <1>4 DEF leftmost, k_prime_index, neighbor
  <2> HIDE DEF i, l
  <2>2. i - 1 \in 1..l /\ (i - 1) + 1 = i
    BY <1>1, <2>1
  <2>3. parent.pointers[(i - 1) + 1] = at
    BY <1>1, <2>2
  <2> QED BY <1>2, <1>4, <2>1, <2>2, <2>3
<1> QED BY <1>3, <1>4

\* A node of the tree and what it is called when the tree is renamed.
SameNode(x, y, name) ==
  /\ x \in NodeType /\ x.is_leaf = y.is_leaf /\ x.keys = y.keys /\ x.parent = name[y.parent]
  /\ Len(x.pointers) = Len(y.pointers)
  /\ y.is_leaf => x.next = name[y.next] /\ x.pointers = y.pointers
  /\ ~y.is_leaf => \A i \in 1..Len(y.pointers) : x.pointers[i] = name[y.pointers[i]]

Naming(t, name) ==
  /\ name \in [DOMAIN t.node \cup {Null} -> Nat] /\ name[Null] = Null
  /\ \A m, n \in DOMAIN t.node \cup {Null} : name[m] = name[n] => m = n

RenamedBy(u, t, name) ==
  /\ Heap(u) /\ u.root = name[t.root] /\ DOMAIN u.node = {name[n] : n \in DOMAIN t.node}
  /\ \A n \in DOMAIN t.node : SameNode(u.node[name[n]], t.node[n], name)

\* What a node points to has a name.
Pointed(t, n) ==
  /\ t.node[n].parent \in DOMAIN t.node \cup {Null}
  /\ t.node[n].is_leaf => t.node[n].next \in DOMAIN t.node \cup {Null}
  /\ ~t.node[n].is_leaf => \A i \in 1..Len(t.node[n].pointers) : t.node[n].pointers[i] \in DOMAIN t.node

LEMMA ShapePoints ==
  ASSUME NEW t, NEW g, Shape(t, g), NEW n \in DOMAIN t.node
  PROVE  Pointed(t, n)
<1>1. Body(t, g, n) /\ (n = t.root => t.node[n].parent = Null) /\ (n # t.root => IsChild(t, n))
  BY DEF Shape, RootOK, Under
<1>2. t.node[n].parent \in DOMAIN t.node \cup {Null}
  BY <1>1 DEF IsChild
<1>3. t.node[n].is_leaf => t.node[n].next \in DOMAIN t.node \cup {Null}
  BY <1>1 DEF Body, Link
<1>4. ASSUME ~t.node[n].is_leaf, NEW i \in 1..Len(t.node[n].pointers) PROVE t.node[n].pointers[i] \in DOMAIN t.node
  BY <1>1, <1>4 DEF Body, Hangs
<1> QED BY <1>2, <1>3, <1>4 DEF Pointed

LEMMA NodeRenamed ==
  ASSUME NEW t, NEW name, Naming(t, name), NEW n \in DOMAIN t.node, t.node[n] \in NodeType, Pointed(t, n)
  PROVE  SameNode(IF t.node[n].is_leaf THEN [t.node[n] EXCEPT !.parent = name[@], !.next = name[@]]
                  ELSE [t.node[n] EXCEPT !.parent = name[@], !.pointers = [p \in DOMAIN @ |-> name[@[p]]]],
                  t.node[n], name)
<1> DEFINE y == t.node[n]
           q == [p \in DOMAIN y.pointers |-> name[y.pointers[p]]]
<1>1. y \in NodeType /\ y.pointers \in Seq(Int) /\ y.parent \in Nat /\ y.next \in Nat /\ DOMAIN y.pointers = 1..Len(y.pointers)
      /\ Len(y.pointers) \in Nat
  BY DEF NodeType
<1>2. \A m \in DOMAIN t.node \cup {Null} : name[m] \in Nat
  BY DEF Naming
<1>3. name[y.parent] \in Nat /\ (y.is_leaf => name[y.next] \in Nat)
      /\ (~y.is_leaf => \A i \in 1..Len(y.pointers) : name[y.pointers[i]] \in Nat)
  BY <1>2 DEF Pointed
<1> HIDE DEF y
<1>4. CASE y.is_leaf
  <2>1. SameNode([y EXCEPT !.parent = name[y.parent], !.next = name[y.next]], y, name)
    BY <1>1, <1>3, <1>4 DEF SameNode, NodeType
  <2> QED BY <1>4, <2>1 DEF y
<1>5. CASE ~y.is_leaf
  <2> DEFINE l == Len(y.pointers)
  <2>1. q = [p \in 1..l |-> name[y.pointers[p]]]
    BY <1>1
  <2> HIDE DEF q
  <2>2. q \in Seq(Int) /\ Len(q) = l /\ \A i \in 1..l : q[i] = name[y.pointers[i]]
    <3>1. \A i \in 1..l : name[y.pointers[i]] \in Int
      BY <1>3, <1>5
    <3> HIDE DEF l
    <3>2. l \in Nat
      BY <1>1 DEF l
    <3> QED BY <2>1, <3>1, <3>2
  <2>3. SameNode([y EXCEPT !.parent = name[y.parent], !.pointers = q], y, name)
    BY <1>1, <1>3, <1>5, <2>2 DEF SameNode, NodeType
  <2> QED BY <1>5, <2>3 DEF y, q
<1> QED BY <1>4, <1>5

LEMMA RenamedTree ==
  ASSUME NEW t, NEW g, Shape(t, g), NEW name, Naming(t, name)
  PROVE  RenamedBy(Renamed(t, name), t, name)
<1> DEFINE D == DOMAIN t.node
           E == {name[n] : n \in D}
           new(y) == IF y.is_leaf THEN [y EXCEPT !.parent = name[@], !.next = name[@]]
                     ELSE [y EXCEPT !.parent = name[@], !.pointers = [p \in DOMAIN @ |-> name[@[p]]]]
           u == Renamed(t, name)
<1>1. u = [root |-> name[t.root], node |-> [i \in E |-> new(t.node[CHOOSE n \in D : name[n] = i])]]
  BY DEF Renamed
<1>2. ASSUME NEW n \in D PROVE (CHOOSE m \in D : name[m] = name[n]) = n
  BY DEF Naming
<1>3. ASSUME NEW n \in D PROVE SameNode(new(t.node[n]), t.node[n], name)
  <2>1. t.node[n] \in NodeType /\ Pointed(t, n)
    BY NodeFields, ShapePoints DEF Shape, Placed
  <2> QED BY <2>1, NodeRenamed
<1> HIDE DEF new, u
<1>4. /\ u = [root |-> u.root, node |-> u.node] /\ u.root = name[t.root] /\ DOMAIN u.node = E
      /\ u.node = [i \in E |-> u.node[i]] /\ \A n \in D : u.node[name[n]] = new(t.node[n])
  <2> DEFINE f == [i \in E |-> new(t.node[CHOOSE n \in D : name[n] = i])]
  <2>1. u.root = name[t.root] /\ u.node = f /\ u = [root |-> u.root, node |-> u.node]
    BY <1>1
  <2>2. DOMAIN f = E /\ f = [i \in E |-> f[i]]
    OBVIOUS
  <2>3. ASSUME NEW n \in D PROVE f[name[n]] = new(t.node[n])
    BY <1>2
  <2> HIDE DEF f, E
  <2> QED BY <2>1, <2>2, <2>3
<1>5. ASSUME NEW n \in D PROVE SameNode(u.node[name[n]], t.node[n], name)
  BY <1>3, <1>4
<1>6. IsFiniteSet(E)
  <2>1. IsFiniteSet(D)
    BY DEF Shape, Placed, Heap
  <2> DEFINE f == [n \in D |-> name[n]]
  <2>2. f \in Surjection(D, E)
    BY DEF Surjection
  <2> HIDE DEF f, D, E
  <2> QED BY <2>1, <2>2, FS_Surjection
<1>7. E \subseteq Nat \ {Null}
  <2>1. ASSUME NEW n \in D PROVE name[n] \in Nat \ {Null}
    <3>1. n # Null
      BY NodeFields DEF Shape, Placed
    <3> QED BY <3>1 DEF Naming
  <2> QED BY <2>1
<1>8. u.node \in [E -> NodeType]
  <2>1. ASSUME NEW i \in E PROVE u.node[i] \in NodeType
    BY <1>5 DEF SameNode
  <2> QED BY <1>4, <2>1
<1>9. Heap(u)
  <2> HIDE DEF E
  <2> QED BY <1>4, <1>6, <1>7, <1>8 DEF Heap
<1> QED BY <1>4, <1>5, <1>9 DEF RenamedBy, u

LEMMA BodyRenamed ==
  ASSUME NEW t, NEW g, Shape(t, g), NEW name, Naming(t, name), NEW u, RenamedBy(u, t, name),
         NEW h, \A n \in DOMAIN t.node : h[name[n]] = g[n], NEW n \in DOMAIN t.node
  PROVE  Body(u, h, name[n])
<1> DEFINE D == DOMAIN t.node
           x == u.node[name[n]]
           y == t.node[n]
<1>1. Body(t, g, n) /\ Pointed(t, n)
  BY ShapePoints DEF Shape
<1>2. /\ \A m \in D : u.node[name[m]].is_leaf = t.node[m].is_leaf /\ u.node[name[m]].parent = name[t.node[m].parent]
      /\ \A m \in D : name[m] \in DOMAIN u.node
      /\ SameNode(x, y, name)
  BY DEF RenamedBy, SameNode
<1>3. h[name[n]] = g[n] /\ \A m \in D : name[m] # Null
  <2>1. ASSUME NEW m \in D PROVE name[m] # Null
    <3>1. m # Null
      BY NodeFields DEF Shape, Placed
    <3> QED BY <3>1 DEF Naming
  <2> QED BY <2>1
<1>4. g[n].lo < g[n].hi
  BY <1>1 DEF Body
<1> HIDE DEF x, y
<1>5. CASE y.is_leaf
  <2>1. x.is_leaf
    BY <1>2, <1>5, Zenon DEF SameNode
  <2>2. g[n].ht = 0 /\ LeafBody(y, g[n]) /\ Link(t, g, n)
    BY <1>1, <1>5 DEF Body, y
  <2>3. x.keys = y.keys /\ x.pointers = y.pointers /\ x.next = name[y.next]
    BY <1>2, <1>5 DEF SameNode
  <2>4. LeafBody(x, g[n])
    BY <2>2, <2>3 DEF LeafBody
  <2>5. Link(u, h, name[n])
    <3>1. CASE y.next = Null
      <4>1. x.next = Null /\ g[n].hi = MaxKey + 1
        BY <2>2, <2>3, <3>1 DEF Link, Naming, y
      <4> QED BY <1>3, <4>1 DEF Link, x
    <3>2. CASE y.next # Null
      <4>1. y.next \in D /\ t.node[y.next].is_leaf /\ g[y.next].lo = g[n].hi
        BY <2>2, <3>2 DEF Link, y
      <4>2. x.next # Null /\ x.next \in DOMAIN u.node /\ u.node[x.next].is_leaf = t.node[y.next].is_leaf
            /\ h[x.next] = g[y.next]
        <5> DEFINE e == y.next
        <5>1. e \in D /\ x.next = name[e]
          BY <2>3, <4>1
        <5> HIDE DEF e, D
        <5>2. name[e] # Null /\ name[e] \in DOMAIN u.node /\ u.node[name[e]].is_leaf = t.node[e].is_leaf
          BY <1>2, <1>3, <5>1
        <5>3. h[name[e]] = g[e]
          BY <5>1 DEF D
        <5>4. x.next # Null /\ x.next \in DOMAIN u.node /\ h[x.next] = g[e]
          BY <5>1, <5>2, <5>3
        <5>5. u.node[x.next].is_leaf = t.node[e].is_leaf
          BY <5>1, <5>2, Zenon
        <5> QED BY <5>4, <5>5 DEF e
      <4>3. u.node[x.next].is_leaf
        BY <4>1, <4>2, Zenon
      <4> QED BY <1>3, <4>1, <4>2, <4>3 DEF Link, x
    <3> QED BY <3>1, <3>2
  <2> QED BY <1>3, <1>4, <2>1, <2>2, <2>4, <2>5 DEF Body, x
<1>6. CASE ~y.is_leaf
  <2>1. ~x.is_leaf
    BY <1>2, <1>6, Zenon DEF SameNode
  <2>2. g[n].ht # 0 /\ Fenced(y, g[n]) /\ \A i \in 1..Len(y.pointers) : Hangs(t, g, n, i)
    BY <1>1, <1>6 DEF Body, y
  <2>3. x.keys = y.keys /\ Len(x.pointers) = Len(y.pointers)
        /\ \A i \in 1..Len(y.pointers) : x.pointers[i] = name[y.pointers[i]]
    BY <1>2, <1>6 DEF SameNode
  <2>4. \A z, i : Bound(x, z, i) = Bound(y, z, i)
    BY <2>3 DEF Bound
  <2>5. Fenced(x, g[n])
    BY <2>2, <2>3, <2>4 DEF Fenced
  <2>6. ASSUME NEW i \in 1..Len(x.pointers) PROVE Hangs(u, h, name[n], i)
    <3> DEFINE c == y.pointers[i]
    <3>1. /\ c \in D /\ t.node[c].parent = n /\ g[n].ht = g[c].ht + 1
          /\ g[c].lo = Bound(y, g[n], i - 1) /\ g[c].hi = Bound(y, g[n], i)
      BY <2>2, <2>3, <2>6 DEF Hangs, y
    <3>2. x.pointers[i] = name[c]
      BY <2>3, <2>6
    <3> HIDE DEF c
    <3>3. name[c] \in DOMAIN u.node /\ u.node[name[c]].parent = name[n] /\ h[name[c]] = g[c]
      BY <1>2, <3>1
    <3> QED BY <1>3, <2>4, <3>1, <3>2, <3>3 DEF Hangs, x
  <2> QED BY <1>3, <1>4, <2>1, <2>2, <2>5, <2>6 DEF Body, x
<1> QED BY <1>5, <1>6

\* The tree with other names for its nodes.
RenamedTo(u, t, name) ==
  /\ IsTree(u) /\ RenamedBy(u, t, name) /\ KeysOf(u) = KeysOf(t)

LEMMA RenamedIsTree ==
  ASSUME NEW t, IsTree(t), NEW name, Naming(t, name)
  PROVE  RenamedTo(Renamed(t, name), t, name)
<1> PICK g : Shape(t, g)
  BY DEF IsTree
<1> DEFINE D == DOMAIN t.node
           u == Renamed(t, name)
           h == [i \in DOMAIN u.node |-> g[CHOOSE n \in D : name[n] = i]]
<1>1. RenamedBy(u, t, name)
  BY RenamedTree
<1> HIDE DEF u
<1>2. /\ Heap(u) /\ u.root = name[t.root] /\ DOMAIN u.node = {name[n] : n \in D}
      /\ \A n \in D : SameNode(u.node[name[n]], t.node[n], name)
  BY <1>1 DEF RenamedBy
<1>3. ASSUME NEW n \in D PROVE h[name[n]] = g[n]
  <2>1. (CHOOSE m \in D : name[m] = name[n]) = n
    BY DEF Naming
  <2> QED BY <1>2, <2>1
<1>4. DOMAIN h = DOMAIN u.node /\ h = [i \in DOMAIN u.node |-> h[i]]
  OBVIOUS
<1> HIDE DEF h
<1>5. Placed(u, h)
  <2>1. ASSUME NEW i \in DOMAIN u.node PROVE h[i] \in PlaceType
    <3>1. PICK n \in D : i = name[n]
      BY <1>2
    <3> QED BY <1>3, <3>1, PlaceFields DEF Shape
  <2> QED BY <1>2, <1>4, <2>1 DEF Placed
<1>6. t.root \in D /\ t.node[t.root].parent = Null /\ g[t.root].lo = MinKey /\ g[t.root].hi = MaxKey + 1
  BY DEF Shape, RootOK
<1>7. RootOK(u, h)
  <2>1. u.root \in DOMAIN u.node /\ h[u.root] = g[t.root]
    BY <1>2, <1>3, <1>6
  <2>2. u.node[u.root].parent = Null
    BY <1>2, <1>6 DEF SameNode, Naming
  <2> QED BY <1>6, <2>1, <2>2 DEF RootOK
<1>8. ASSUME NEW i \in DOMAIN u.node PROVE Body(u, h, i) /\ (i # u.root => Under(u, h, i))
  <2>1. PICK n \in D : i = name[n]
    BY <1>2
  <2>2. Body(u, h, i)
    BY <1>1, <1>3, <2>1, BodyRenamed
  <2>3. ASSUME i # u.root PROVE Under(u, h, i)
    <3> DEFINE p == t.node[n].parent
    <3>1. IsChild(t, n) /\ g[n].ht < g[t.root].ht
      BY <1>2, <2>1, <2>3 DEF Shape, Under
    <3>2. p \in D /\ ~t.node[p].is_leaf /\ \E j \in 1..Len(t.node[p].pointers) : t.node[p].pointers[j] = n
      BY <3>1 DEF IsChild
    <3>3. u.node[i].parent = name[p]
      BY <1>2, <2>1 DEF SameNode
    <3> HIDE DEF p
    <3>4. SameNode(u.node[name[p]], t.node[p], name) /\ name[p] \in DOMAIN u.node
      BY <1>2, <3>2
    <3>5. ~u.node[name[p]].is_leaf
      BY <3>2, <3>4, Zenon DEF SameNode
    <3>6. PICK j \in 1..Len(t.node[p].pointers) : t.node[p].pointers[j] = n
      BY <3>2
    <3>7. j \in 1..Len(u.node[name[p]].pointers) /\ u.node[name[p]].pointers[j] = i
      BY <2>1, <3>2, <3>4, <3>6 DEF SameNode
    <3>8. IsChild(u, i)
      BY <3>3, <3>4, <3>5, <3>7 DEF IsChild
    <3> QED BY <1>2, <1>3, <1>6, <2>1, <3>1, <3>8 DEF Under
  <2> QED BY <2>2, <2>3
<1>9. IsTree(u)
  BY <1>5, <1>7, <1>8 DEF Shape, IsTree
<1>10. KeysOf(u) = KeysOf(t)
  <2>1. ASSUME NEW n \in D, NEW v PROVE Holds(u, name[n], v) <=> Holds(t, n, v)
    <3>1. u.node[name[n]].is_leaf = t.node[n].is_leaf /\ u.node[name[n]].keys = t.node[n].keys
      BY <1>2 DEF SameNode
    <3> QED BY <3>1 DEF Holds, HasKey
  <2>2. ASSUME NEW v PROVE (\E m \in DOMAIN u.node : Holds(u, m, v)) <=> (\E m \in D : Holds(t, m, v))
    BY <1>2, <2>1
  <2>3. Heap(t)
    BY DEF Shape, Placed
  <2> QED BY <1>2, <2>2, <2>3, SameKeys
<1> QED BY <1>1, <1>9, <1>10 DEF RenamedTo, u

\* The number of keys of a node is within its limits, which are others for the root.
Sized(t, n) ==
  /\ Len(t.node[n].keys) <= order - 1
  /\ Len(t.node[n].keys) >= IF n = t.root THEN 1 ELSE min_keys(t.node[n])

\* That is so for all nodes but x.
Settled(t, x) == \A n \in DOMAIN t.node \ {x} : Sized(t, n)

\* What the call is doing with the node x.
Waiting(t, what, x) ==
  /\ Settled(t, x)
  /\ \/ what = "none" /\ x = Null
     \/ what = "insert" /\ x \in DOMAIN t.node /\ Len(t.node[x].keys) = order
     \/ /\ what = "delete" /\ x \in DOMAIN t.node /\ x # t.root
        /\ Len(t.node[x].keys) = min_keys(t.node[x]) - 1

Growing == IsTree(tree) /\ Waiting(tree, op, at)
Empty == node = <<>> /\ op = "none" /\ at = Null

(* The tree has the shape of one, and at most one node, that the call goes  *)
(* on with, has a key too many or too few; what it has keys for is listed.  *)
BptInv ==
  /\ root = Null => Empty
  /\ root # Null => Growing
  /\ KeysOf(tree) = listed

LEMMA MinKeys ==
  ASSUME NEW n
  PROVE  min_keys(n) \in 1..(order - 1) /\ order \in Nat /\ order >= 3
<1> DEFINE a == CUT(order - 1)
           b == CUT(order)
<1>1. order \in Nat /\ order >= 3 /\ a \in 1..(order - 1) /\ b \in 2..(order - 1)
  BY Halves
<1>2. min_keys(n) = IF n.is_leaf THEN a ELSE b - 1
  BY DEF min_keys
<1> HIDE DEF a, b
<1> QED BY <1>1, <1>2

LEMMA NotEmpty ==
  ASSUME NEW t, Heap(t), NEW n \in DOMAIN t.node, Sized(t, n)
  PROVE  Len(t.node[n].keys) >= 1 /\ t.node[n].keys # <<>> /\ Head(t.node[n].keys) \in Int
<1> DEFINE s == t.node[n].keys
           m == min_keys(t.node[n])
<1>1. s \in Seq(Int) /\ m \in 1..(order - 1) /\ order \in Nat
  BY MinKeys, NodeFields
<1>2. Len(s) >= IF n = t.root THEN 1 ELSE m
  BY DEF Sized
<1> HIDE DEF s, m
<1>3. Len(s) >= 1
  BY <1>1, <1>2
<1>4. s # <<>> /\ Head(s) \in Int
  BY <1>1, <1>3
<1> QED BY <1>3, <1>4 DEF s

\* Nodes of the same size.
LEMMA SameSize ==
  ASSUME NEW t, NEW n, Sized(t, n), NEW u, NEW m, u.node[m].is_leaf = t.node[n].is_leaf,
         Len(u.node[m].keys) = Len(t.node[n].keys), (m = u.root) = (n = t.root)
  PROVE  Sized(u, m)
<1>1. min_keys(u.node[m]) = min_keys(t.node[n])
  BY Zenon DEF min_keys
<1> QED BY <1>1 DEF Sized

LEMMA RankIsNatural ==
  ASSUME NEW t, Heap(t), Settled(t, Null), NEW n \in DOMAIN t.node
  PROVE  Rank(t)[n] \in Nat /\ Rank(t)[n] # 0
<1> DEFINE S == {m \in DOMAIN t.node :
                   \/ ~t.node[m].is_leaf /\ t.node[n].is_leaf
                   \/ t.node[m].is_leaf = t.node[n].is_leaf /\ Head(t.node[m].keys) <= Head(t.node[n].keys)}
<1>1. IsFiniteSet(DOMAIN t.node) /\ S \in SUBSET DOMAIN t.node
  BY DEF Heap
<1>2. Head(t.node[n].keys) \in Int
  <2>1. n # Null
    BY NodeFields
  <2>2. Sized(t, n)
    BY <2>1 DEF Settled
  <2> QED BY <2>2, NotEmpty
<1>3. n \in S
  BY <1>2
<1>4. Rank(t)[n] = Cardinality(S)
  BY DEF Rank
<1> HIDE DEF S
<1>5. IsFiniteSet(S) /\ Cardinality(S) \in Nat
  BY <1>1, FS_Subset, FS_CardinalityType
<1>6. Cardinality(S) # 0
  BY <1>3, <1>5, FS_EmptySet
<1> QED BY <1>4, <1>5, <1>6

LEMMA NamesAreNames ==
  ASSUME NEW t, Heap(t), Settled(t, Null)
  PROVE  Naming(t, Names(t))
<1> DEFINE D == DOMAIN t.node
           name == Names(t)
<1>1. Null \notin D /\ D \subseteq Nat /\ Null \in Nat
  BY DEF Heap, Null
<1>2. name[Null] = Null /\ DOMAIN name = D \cup {Null} /\ name = [n \in D \cup {Null} |-> name[n]]
  BY DEF Names
<1>3. CASE IsInjective(Rank(t))
  <2>1. \A n \in D : name[n] = Rank(t)[n]
    BY <1>1, <1>3 DEF Names
  <2>2. \A n \in D : Rank(t)[n] \in Nat /\ Rank(t)[n] # 0
    BY RankIsNatural
  <2>3. DOMAIN Rank(t) = D
    BY DEF Rank
  <2>4. \A m, n \in D : Rank(t)[m] = Rank(t)[n] => m = n
    BY <1>3, <2>3 DEF IsInjective
  <2> HIDE DEF name, D
  <2> QED BY <1>1, <1>2, <2>1, <2>2, <2>4 DEF Naming, D, name, Null
<1>4. CASE ~IsInjective(Rank(t))
  <2>1. \A n \in D : name[n] = n
    BY <1>1, <1>4 DEF Names
  <2> HIDE DEF name, D
  <2> QED BY <1>1, <1>2, <2>1 DEF Naming, D, name
<1> QED BY <1>3, <1>4

\* A call ends with a tree all of whose nodes are of the right size.
LEMMA ReturnsTree ==
  ASSUME NEW t, IsTree(t), Settled(t, Null), Returns(t), KeysOf(t) = listed'
  PROVE  BptInv'
<1> DEFINE name == Names(t)
           u == Renamed(t, name)
<1>1. Heap(t) /\ t.root \in DOMAIN t.node
  BY DEF IsTree, Shape, Placed, RootOK
<1>2. Naming(t, name)
  BY <1>1, NamesAreNames
<1>3. root' = u.root /\ node' = u.node /\ op' = "none" /\ at' = Null
  BY DEF Returns
<1> HIDE DEF name
<1>4. RenamedTo(u, t, name)
  BY <1>2, RenamedIsTree
<1> HIDE DEF u
<1>5. /\ IsTree(u) /\ Heap(u) /\ u.root = name[t.root] /\ DOMAIN u.node = {name[n] : n \in DOMAIN t.node}
      /\ \A n \in DOMAIN t.node : SameNode(u.node[name[n]], t.node[n], name)
      /\ KeysOf(u) = KeysOf(t)
  BY <1>4 DEF RenamedTo, RenamedBy
<1>6. u = tree' /\ u.root # Null
  <2>1. u = [root |-> u.root, node |-> u.node]
    BY <1>5 DEF Heap
  <2>2. u.root # Null
    BY <1>1, <1>2, <1>5, NodeFields DEF Naming
  <2> QED BY <1>3, <2>1, <2>2 DEF tree
<1>7. Settled(u, Null)
  <2>1. SUFFICES ASSUME NEW i \in DOMAIN u.node PROVE Sized(u, i)
    BY DEF Settled
  <2>2. PICK n \in DOMAIN t.node : i = name[n]
    BY <1>5
  <2>3. Sized(t, n)
    BY <1>1, NodeFields DEF Settled
  <2>4. u.node[i].is_leaf = t.node[n].is_leaf /\ Len(u.node[i].keys) = Len(t.node[n].keys)
    BY <1>5, <2>2 DEF SameNode
  <2>5. (i = u.root) = (n = t.root)
    BY <1>1, <1>2, <1>5, <2>2 DEF Naming
  <2> QED BY <2>3, <2>4, <2>5, SameSize
<1>8. Growing'
  BY <1>3, <1>5, <1>6, <1>7 DEF Growing, Waiting
<1>9. KeysOf(tree)' = listed'
  BY <1>5, <1>6
<1>10. root' # Null
  BY <1>3, <1>6
<1> QED BY <1>8, <1>9, <1>10 DEF BptInv

LEMMA NothingKept ==
  ASSUME NEW t, DOMAIN t.node = {}
  PROVE  KeysOf(t) = {}
BY DEF KeysOf

\* or without any node.
LEMMA ReturnsEmpty ==
  ASSUME NEW t, t.root = Null, t.node = <<>>, Returns(t), listed' = {}
  PROVE  BptInv'
<1> DEFINE name == Names(t)
           u == Renamed(t, name)
<1>1. DOMAIN t.node = {}
  OBVIOUS
<1>2. name[Null] = Null
  BY DEF Names
<1>3. root' = u.root /\ node' = u.node /\ op' = "none" /\ at' = Null
  BY DEF Returns
<1> HIDE DEF name
<1>4. u.root = Null /\ DOMAIN u.node = {} /\ u.node = [i \in {} |-> u.node[i]]
  <2> DEFINE E == {name[n] : n \in DOMAIN t.node}
             f(i) == LET n == t.node[CHOOSE n \in DOMAIN t.node : name[n] = i]
                     IN  IF n.is_leaf THEN [n EXCEPT !.parent = name[@], !.next = name[@]]
                         ELSE [n EXCEPT !.parent = name[@], !.pointers = [p \in DOMAIN @ |-> name[@[p]]]]
  <2>1. u.root = name[t.root] /\ u.node = [i \in E |-> f(i)]
    BY DEF Renamed
  <2>2. E = {}
    BY <1>1
  <2> HIDE DEF f, E, u
  <2>3. DOMAIN u.node = {} /\ u.node = [i \in {} |-> u.node[i]]
    BY <2>1, <2>2
  <2> QED BY <1>2, <2>1, <2>3
<1> HIDE DEF u
<1>5. u.node = <<>>
  BY <1>4
<1>6. KeysOf(tree)' = {}
  <2>1. tree'.node = u.node
    BY <1>3 DEF tree
  <2>2. KeysOf(tree') = {}
    BY <1>4, <2>1, NothingKept
  <2> QED BY <2>2
<1> QED BY <1>3, <1>4, <1>5, <1>6 DEF BptInv, Empty

\* Going on with a node.
LEMMA GoesOnWith ==
  ASSUME NEW t, IsTree(t), NEW what, NEW n, GoesOn(t, what, n), Waiting(t, what, n), KeysOf(t) = listed'
  PROVE  BptInv'
<1>1. t = [root |-> t.root, node |-> t.node] /\ t.root # Null
  BY DEF IsTree, Shape, Placed, RootOK, Heap
<1>2. tree' = t /\ root' # Null /\ op' = what /\ at' = n
  BY <1>1 DEF GoesOn, tree
<1>3. Growing'
  BY <1>2 DEF Growing
<1>4. KeysOf(tree)' = listed'
  BY <1>2
<1> QED BY <1>2, <1>3, <1>4 DEF BptInv

LEMMA GrownTree ==
  ASSUME NEW t, IsTree(t), NEW n \in DOMAIN t.node, Settled(t, n), Len(t.node[n].keys) <= order,
         Len(t.node[n].keys) >= (IF n = t.root THEN 1 ELSE min_keys(t.node[n])),
         Grown(t, n), KeysOf(t) = listed'
  PROVE  BptInv'
<1>1. Len(t.node[n].keys) \in Nat /\ order \in Nat
  BY NodeFields, BptAssumption DEF IsTree, Shape, Placed
<1>2. CASE Len(t.node[n].keys) < order
  <2>1. Returns(t)
    BY <1>2 DEF Grown
  <2>2. Sized(t, n)
    <3>1. Len(t.node[n].keys) <= order - 1
      <4> DEFINE l == Len(t.node[n].keys)
      <4>1. l \in Nat /\ l < order
        BY <1>1, <1>2
      <4> HIDE DEF l
      <4>2. l <= order - 1
        BY <1>1, <4>1
      <4> QED BY <4>2 DEF l
    <3> QED BY <3>1 DEF Sized
  <2>3. Settled(t, Null)
    BY <2>2 DEF Settled
  <2> QED BY <2>1, <2>3, ReturnsTree
<1>3. CASE ~(Len(t.node[n].keys) < order)
  <2>1. GoesOn(t, "insert", n)
    BY <1>3 DEF Grown
  <2>2. Len(t.node[n].keys) = order
    BY <1>1, <1>3
  <2>3. Waiting(t, "insert", n)
    BY <2>2 DEF Waiting
  <2> QED BY <2>1, <2>3, GoesOnWith
<1> QED BY <1>2, <1>3

\* The root may have lost its last key.
LEMMA RootAdjusted ==
  ASSUME NEW t, IsTree(t), Settled(t, t.root), Len(t.node[t.root].keys) <= order - 1,
         Returns(adjust_root(t)), KeysOf(t) = listed'
  PROVE  BptInv'
<1> DEFINE s == t.node[t.root].keys
<1>1. Heap(t) /\ t.root \in DOMAIN t.node /\ t.root # Null
  BY NodeFields DEF IsTree, Shape, Placed, RootOK
<1>2. CASE s # <<>>
  <2>1. adjust_root(t) = t
    BY <1>2 DEF adjust_root
  <2>2. Len(s) >= 1
    <3>1. s \in Seq(Int)
      BY <1>1, NodeFields
    <3> HIDE DEF s
    <3> QED BY <1>2, <3>1
  <2>3. Sized(t, t.root)
    BY <2>2 DEF Sized
  <2>4. Settled(t, Null)
    BY <2>3 DEF Settled
  <2> QED BY <2>1, <2>4, ReturnsTree
<1>3. CASE s = <<>> /\ t.node[t.root].is_leaf
  <2> DEFINE u == adjust_root(t)
  <2>1. u.root = Null /\ u.node = <<>> /\ KeysOf(t) = {}
    BY <1>3, LastLeafFreed
  <2> HIDE DEF u
  <2> QED BY <2>1, ReturnsEmpty DEF u
<1>4. CASE s = <<>> /\ ~t.node[t.root].is_leaf
  <2> DEFINE u == adjust_root(t)
             c == t.node[t.root].pointers[1]
  <2>1. Lowered(u, t, c)
    BY <1>4, RootLowered
  <2> HIDE DEF u, c
  <2>2. /\ IsTree(u) /\ u.root = c /\ c \in DOMAIN u.node /\ c # t.root /\ DOMAIN u.node = DOMAIN t.node \ {t.root}
        /\ \A m \in DOMAIN u.node : SameContent(u.node[m], t.node[m])
        /\ KeysOf(u) = KeysOf(t)
    BY <2>1 DEF Lowered
  <2>3. ASSUME NEW m \in DOMAIN u.node PROVE Sized(u, m)
    <3>1. u.node[m].is_leaf = t.node[m].is_leaf /\ u.node[m].keys = t.node[m].keys
      BY <2>2 DEF SameContent
    <3>2. Sized(t, m) /\ m # t.root
      BY <2>2 DEF Settled
    <3>3. min_keys(u.node[m]) = min_keys(t.node[m])
      BY <3>1, Zenon DEF min_keys
    <3>4. Len(t.node[m].keys) <= order - 1 /\ Len(t.node[m].keys) >= min_keys(t.node[m])
      BY <3>2 DEF Sized
    <3>5. min_keys(t.node[m]) \in 1..(order - 1) /\ order \in Nat
      BY MinKeys
    <3>6. Len(t.node[m].keys) \in Nat
      BY <1>1, <2>2, NodeFields
    <3>7. Len(t.node[m].keys) >= 1
      BY <3>4, <3>5, <3>6
    <3> QED BY <3>1, <3>3, <3>4, <3>7 DEF Sized
  <2>4. Settled(u, Null)
    BY <2>3 DEF Settled
  <2> QED BY <2>2, <2>4, ReturnsTree DEF u
<1> QED BY <1>2, <1>3, <1>4

LEMMA ShrunkTree ==
  ASSUME NEW t, IsTree(t), NEW n \in DOMAIN t.node, Settled(t, n), Len(t.node[n].keys) <= order - 1,
         n # t.root => Len(t.node[n].keys) >= min_keys(t.node[n]) - 1,
         Shrunk(t, n), KeysOf(t) = listed'
  PROVE  BptInv'
<1>1. Len(t.node[n].keys) \in Nat /\ min_keys(t.node[n]) \in Nat
  BY NodeFields, MinKeys DEF IsTree, Shape, Placed
<1>2. CASE n = t.root
  <2>1. Returns(adjust_root(t))
    BY <1>2 DEF Shrunk
  <2> QED BY <1>2, <2>1, RootAdjusted
<1>3. CASE n # t.root /\ Len(t.node[n].keys) >= min_keys(t.node[n])
  <2>1. Returns(t)
    BY <1>3 DEF Shrunk
  <2>2. Sized(t, n)
    BY <1>3 DEF Sized
  <2>3. Settled(t, Null)
    BY <2>2 DEF Settled
  <2> QED BY <2>1, <2>3, ReturnsTree
<1>4. CASE n # t.root /\ ~(Len(t.node[n].keys) >= min_keys(t.node[n]))
  <2>1. GoesOn(t, "delete", n)
    BY <1>4 DEF Shrunk
  <2>2. Len(t.node[n].keys) = min_keys(t.node[n]) - 1
    BY <1>1, <1>4
  <2>3. Waiting(t, "delete", n)
    BY <1>4, <2>2 DEF Waiting
  <2> QED BY <2>1, <2>3, GoesOnWith
<1> QED BY <1>2, <1>3, <1>4

\* A tree of one leaf with one key.
LEMMA NewTree ==
  ASSUME NEW t, Heap(t), DOMAIN t.node = {}, NEW k \in Key
  PROVE  LET u == start_new_tree(t, k, k)
         IN  IsTree(u) /\ DOMAIN u.node = {u.root} /\ Len(u.node[u.root].keys) = 1 /\ KeysOf(u) = {k}
<1> DEFINE n == NewNode(t)
           x == [is_leaf |-> TRUE, keys |-> <<k>>, pointers |-> <<k>>, parent |-> Null, next |-> Null]
           w == With(t, n, x)
           u == start_new_tree(t, k, k)
           place == [ht |-> 0, lo |-> MinKey, hi |-> MaxKey + 1]
           g == [m \in {n} |-> place]
<1>1. /\ n \in Nat \ {Null} /\ x \in NodeType
      /\ MinKey \in Int /\ MaxKey \in Int /\ MinKey <= k /\ k < MaxKey + 1 /\ k \in Int /\ MinKey < MaxKey + 1
  BY NewNodeIsNew, BptAssumption DEF NodeType, Key, Null
<1>2. place \in PlaceType
  BY <1>1 DEF PlaceType
<1>3. x.is_leaf /\ x.keys = <<k>> /\ x.pointers = <<k>> /\ x.parent = Null /\ x.next = Null
  OBVIOUS
<1> HIDE DEF x
<1>4. Wrote(w, t, n, x)
  BY <1>1, WithOne
<1>5. u = [w EXCEPT !.root = n]
  BY DEF start_new_tree, x
<1> HIDE DEF w
<1>6. Heap(u) /\ u.root = n /\ DOMAIN u.node = {n} /\ u.node[n] = x
  <2>1. Heap(w) /\ DOMAIN w.node = {n} /\ w.node[n] = x
    BY <1>4 DEF Wrote
  <2> QED BY <1>5, <2>1, RootedElsewhere
<1> HIDE DEF u, n
<1>7. g[n] = place /\ g \in [{n} -> PlaceType]
  BY <1>2
<1> HIDE DEF g
<1>8. LeafBody(x, place)
  BY <1>1, <1>3 DEF LeafBody
<1>9. Body(u, g, n) /\ RootOK(u, g) /\ Placed(u, g)
  BY <1>1, <1>3, <1>6, <1>7, <1>8 DEF Body, Link, RootOK, Placed
<1>10. IsTree(u)
  BY <1>6, <1>9 DEF Shape, IsTree
<1>11. KeysOf(u) = {k}
  <2>1. ToSet(x.keys) = {k}
    BY <1>3 DEF ToSet
  <2> QED BY <1>3, <1>6, <2>1 DEF KeysOf
<1>12. Len(u.node[u.root].keys) = 1
  BY <1>3, <1>6
<1> QED BY <1>6, <1>10, <1>11, <1>12 DEF u

LEMMA FirstInserted ==
  ASSUME BptInv, NEW k \in Key, InsertFirst(k)
  PROVE  BptInv'
<1> DEFINE u == start_new_tree(tree, k, k)
<1>1. root = Null /\ Returns(u) /\ listed' = listed \cup {k}
  BY DEF InsertFirst
<1>2. node = <<>> /\ KeysOf(tree) = listed
  BY <1>1 DEF BptInv, Empty
<1>3. DOMAIN tree.node = {}
  BY <1>2 DEF tree
<1>4. Heap(tree)
  <2>1. tree = [root |-> tree.root, node |-> tree.node]
    BY DEF tree
  <2>2. tree.node \in [{} -> NodeType]
    BY <1>2, TreeOf
  <2> QED BY <1>3, <2>1, <2>2, FS_EmptySet DEF Heap
<1>5. IsTree(u) /\ DOMAIN u.node = {u.root} /\ Len(u.node[u.root].keys) = 1 /\ KeysOf(u) = {k}
  BY <1>3, <1>4, NewTree
<1> HIDE DEF u
<1>6. Settled(u, Null)
  <2>1. 1 <= order - 1 /\ 1 >= 1
    BY BptAssumption
  <2>2. Sized(u, u.root)
    BY <1>5, <2>1 DEF Sized
  <2> QED BY <1>5, <2>2 DEF Settled
<1>7. KeysOf(u) = listed'
  BY <1>1, <1>2, <1>3, <1>5, NothingKept
<1> QED BY <1>1, <1>5, <1>6, <1>7, ReturnsTree

\* The tree a call begins with.
LEMMA CallBegins ==
  ASSUME BptInv, op = "none", root # Null
  PROVE  IsTree(tree) /\ Settled(tree, Null) /\ KeysOf(tree) = listed /\ tree.node = node /\ tree.root = root
BY TreeOf DEF BptInv, Growing, Waiting

LEMMA OtherSizes ==
  ASSUME NEW t, NEW u, NEW n, u.root = t.root, DOMAIN u.node = DOMAIN t.node, Settled(t, Null),
         Null \notin DOMAIN t.node,
         \A m \in DOMAIN t.node : m # n => u.node[m] = t.node[m]
  PROVE  Settled(u, n)
<1>1. ASSUME NEW m \in DOMAIN t.node, m # n PROVE Sized(u, m)
  BY <1>1 DEF Settled, Sized
<1> QED BY <1>1 DEF Settled

LEMMA MoreInserted ==
  ASSUME BptInv, NEW k \in Key, InsertMore(k)
  PROVE  BptInv'
<1> DEFINE n == Find_Leaf(tree, k)
           u == insert_into_leaf(tree, n, k, k)
<1>1. op = "none" /\ root # Null /\ Find_Record(tree, k) = NoRecord /\ Grown(u, n) /\ listed' = listed \cup {k}
  BY DEF InsertMore
<1>2. IsTree(tree) /\ Settled(tree, Null) /\ KeysOf(tree) = listed
  BY <1>1, CallBegins
<1>3. /\ IsTree(u) /\ u.root = tree.root /\ DOMAIN u.node = DOMAIN tree.node /\ n \in DOMAIN tree.node
      /\ \A m \in DOMAIN tree.node : m # n => u.node[m] = tree.node[m]
      /\ u.node[n].is_leaf = tree.node[n].is_leaf
      /\ Len(u.node[n].keys) = Len(tree.node[n].keys) + 1
      /\ KeysOf(u) = KeysOf(tree) \cup {k}
  BY <1>1, <1>2, InsertedIntoLeaf
<1> HIDE DEF u, n
<1>4. Heap(tree) /\ Null \notin DOMAIN tree.node
  BY <1>2 DEF IsTree, Shape, Placed, Heap
<1>5. Settled(u, n)
  BY <1>2, <1>3, <1>4, OtherSizes
<1>6. Sized(tree, n) /\ min_keys(u.node[n]) = min_keys(tree.node[n]) /\ Len(tree.node[n].keys) \in Nat
      /\ min_keys(tree.node[n]) \in Nat /\ order \in Nat
  <2>1. min_keys(u.node[n]) = min_keys(tree.node[n])
    BY <1>3, Zenon DEF min_keys
  <2> QED BY <1>2, <1>3, <1>4, <2>1, NodeFields, MinKeys DEF Settled
<1>7. /\ Len(tree.node[n].keys) <= order - 1
      /\ Len(tree.node[n].keys) >= (IF n = u.root THEN 1 ELSE min_keys(u.node[n]))
  BY <1>3, <1>6 DEF Sized
<1>8. /\ Len(u.node[n].keys) <= order
      /\ Len(u.node[n].keys) >= (IF n = u.root THEN 1 ELSE min_keys(u.node[n]))
  BY <1>3, <1>6, <1>7
<1>9. KeysOf(u) = listed'
  BY <1>1, <1>2, <1>3
<1>10. n \in DOMAIN u.node
  BY <1>3
<1> QED BY <1>1, <1>3, <1>5, <1>8, <1>9, <1>10, GrownTree

LEMMA NothingFound ==
  ASSUME NEW k, root = Null
  PROVE  Find_Record(tree, k) = NoRecord
<1>1. Find_Leaf(tree, k) = Null
  BY TreeOf DEF Find_Leaf
<1> QED BY <1>1 DEF Find_Record

LEMMA OneDeleted ==
  ASSUME BptInv, NEW k \in Key, Delete(k)
  PROVE  BptInv'
<1> DEFINE n == Find_Leaf(tree, k)
           u == remove_entry_from_node(tree, n, k, Find_Record(tree, k))
<1>1. op = "none" /\ Find_Record(tree, k) # NoRecord /\ Shrunk(u, n) /\ listed' = listed \ {k}
  BY DEF Delete
<1>2. IsTree(tree) /\ Settled(tree, Null) /\ KeysOf(tree) = listed
  BY <1>1, CallBegins, NothingFound
<1>3. /\ IsTree(u) /\ u.root = tree.root /\ DOMAIN u.node = DOMAIN tree.node /\ n \in DOMAIN tree.node
      /\ \A m \in DOMAIN tree.node : m # n => u.node[m] = tree.node[m]
      /\ u.node[n].is_leaf /\ tree.node[n].is_leaf
      /\ Len(u.node[n].keys) = Len(tree.node[n].keys) - 1
      /\ KeysOf(u) = KeysOf(tree) \ {k}
  BY <1>1, <1>2, RemovedFromLeaf
<1> HIDE DEF u, n
<1>4. Heap(tree) /\ Null \notin DOMAIN tree.node
  BY <1>2 DEF IsTree, Shape, Placed, Heap
<1>5. Settled(u, n)
  BY <1>2, <1>3, <1>4, OtherSizes
<1>6. Sized(tree, n) /\ min_keys(u.node[n]) = min_keys(tree.node[n]) /\ Len(tree.node[n].keys) \in Nat
      /\ min_keys(tree.node[n]) \in Nat /\ order \in Nat
  <2>1. min_keys(u.node[n]) = min_keys(tree.node[n])
    BY <1>3 DEF min_keys
  <2> QED BY <1>2, <1>3, <1>4, <2>1, NodeFields, MinKeys DEF Settled
<1>7. /\ Len(tree.node[n].keys) <= order - 1
      /\ n # u.root => Len(tree.node[n].keys) >= min_keys(u.node[n])
  BY <1>3, <1>6 DEF Sized
<1>8. /\ Len(u.node[n].keys) <= order - 1
      /\ n # u.root => Len(u.node[n].keys) >= min_keys(u.node[n]) - 1
  BY <1>3, <1>6, <1>7
<1>9. KeysOf(u) = listed'
  BY <1>1, <1>2, <1>3
<1>10. n \in DOMAIN u.node
  BY <1>3
<1> QED BY <1>1, <1>3, <1>5, <1>8, <1>9, <1>10, ShrunkTree

LEMMA TreeDestroyed ==
  ASSUME BptInv, Destroy_Tree
  PROVE  BptInv'
<1> DEFINE u == Destroyed(tree)
<1>1. op = "none" /\ Returns(u) /\ listed' = {}
  BY DEF Destroy_Tree
<1>2. CASE root = Null
  <2>1. u = tree /\ tree.node = <<>> /\ tree.root = Null
    BY <1>2, TreeOf DEF Destroyed, BptInv, Empty
  <2> QED BY <1>1, <2>1, ReturnsEmpty
<1>3. CASE root # Null
  <2>1. IsTree(tree)
    BY <1>1, <1>3, CallBegins
  <2>2. Below(tree) = DOMAIN tree.node
    BY <2>1, AllBelow DEF IsTree
  <2>3. u = [root |-> Null, node |-> [n \in DOMAIN tree.node \ Below(tree) |-> tree.node[n]]]
    BY <1>3, TreeOf DEF Destroyed
  <2>4. u.root = Null /\ u.node = <<>>
    <3>1. DOMAIN tree.node \ Below(tree) = {}
      BY <2>2
    <3> QED BY <2>3, <3>1
  <2> HIDE DEF u
  <2> QED BY <1>1, <2>4, ReturnsEmpty
<1> QED BY <1>2, <1>3

\* The sizes of what a split leaves.
Enough(n) == Len(n.keys) <= order - 1 /\ Len(n.keys) >= min_keys(n)

Cut(t, u, n, right, k) ==
  /\ \E h : Halved(u, h, n, right, k)
  /\ Heap(u) /\ u.root = t.root /\ right \notin DOMAIN t.node /\ DOMAIN u.node = DOMAIN t.node \cup {right}
  /\ u.node[n].parent = t.node[n].parent /\ u.node[n].is_leaf = t.node[n].is_leaf
  /\ Enough(u.node[n]) /\ Enough(u.node[right])
  /\ \A m \in DOMAIN t.node : m # n => u.node[m].is_leaf = t.node[m].is_leaf /\ u.node[m].keys = t.node[m].keys
  /\ KeysOf(u) = KeysOf(t)

LEMMA LeafCut ==
  ASSUME NEW t, NEW g, Shape(t, g), NEW n \in DOMAIN t.node, t.node[n].is_leaf, Len(t.node[n].keys) = order
  PROVE  Cut(t, SplitLeaf(t, n), n, NewNode(t), t.node[n].keys[CUT(order - 1) + 1])
<1> DEFINE u == SplitLeaf(t, n)
           right == NewNode(t)
           k == t.node[n].keys[CUT(order - 1) + 1]
           c == CUT(order - 1)
<1>1. LeafHalved(t, u, n, right, k)
  BY LeafSplit
<1>2. Heap(t)
  BY DEF Shape, Placed
<1> HIDE DEF u, right, k
<1>3. /\ \E h : Halved(u, h, n, right, k)
      /\ u.root = t.root /\ right \notin DOMAIN t.node /\ DOMAIN u.node = DOMAIN t.node \cup {right}
      /\ u.node[n].is_leaf /\ u.node[right].is_leaf /\ u.node[n].parent = t.node[n].parent
      /\ Len(u.node[n].keys) = c /\ Len(u.node[right].keys) = order - c
      /\ \A v : HasKey(t.node[n], v) <=> (HasKey(u.node[n], v) \/ HasKey(u.node[right], v))
      /\ \A m \in DOMAIN t.node : m # n => u.node[m] = t.node[m]
  BY <1>1 DEF LeafHalved
<1>4. Heap(u)
  BY <1>3 DEF Halved, Placed
<1>5. Enough(u.node[n]) /\ Enough(u.node[right])
  <2>1. order \in Nat /\ c \in 1..(order - 1) /\ order - c >= c
    BY Halves
  <2>2. min_keys(u.node[n]) = c /\ min_keys(u.node[right]) = c
    BY <1>3 DEF min_keys
  <2> HIDE DEF c
  <2>3. c <= order - 1 /\ c >= c /\ order - c <= order - 1
    BY <2>1
  <2> QED BY <1>3, <2>1, <2>2, <2>3 DEF Enough
<1>6. ASSUME NEW v
      PROVE  (\E m \in DOMAIN u.node : Holds(u, m, v)) <=> (\E m \in DOMAIN t.node : Holds(t, m, v))
  <2>1. \A m \in DOMAIN t.node : m # n => (Holds(u, m, v) <=> Holds(t, m, v))
    BY <1>3 DEF Holds
  <2>2. Holds(t, n, v) <=> (Holds(u, n, v) \/ Holds(u, right, v))
    BY <1>3 DEF Holds
  <2> QED BY <1>3, <2>1, <2>2
<1>7. KeysOf(u) = KeysOf(t)
  BY <1>2, <1>4, <1>6, SameKeys
<1>8. Cut(t, u, n, right, k)
  BY <1>3, <1>4, <1>5, <1>7 DEF Cut
<1> QED BY <1>8 DEF u, right, k

LEMMA NodeCut ==
  ASSUME NEW t, NEW g, Shape(t, g), NEW n \in DOMAIN t.node, ~t.node[n].is_leaf, Len(t.node[n].keys) = order
  PROVE  Cut(t, SplitNode(t, n), n, NewNode(t), t.node[n].keys[CUT(order)])
<1> DEFINE u == SplitNode(t, n)
           right == NewNode(t)
           k == t.node[n].keys[CUT(order)]
           c == CUT(order)
<1>1. NodeHalved(t, u, n, right, k)
  BY NodeSplit
<1>2. Heap(t) /\ t.node[n].is_leaf \in BOOLEAN
  BY NodeFields DEF Shape, Placed
<1> HIDE DEF u, right, k
<1>3. /\ \E h : Halved(u, h, n, right, k)
      /\ u.root = t.root /\ right \notin DOMAIN t.node /\ DOMAIN u.node = DOMAIN t.node \cup {right}
      /\ ~u.node[n].is_leaf /\ ~u.node[right].is_leaf /\ u.node[n].parent = t.node[n].parent
      /\ Len(u.node[n].keys) = c - 1 /\ Len(u.node[right].keys) = order - c
      /\ \A m \in DOMAIN t.node : m # n => SameContent(u.node[m], t.node[m])
  BY <1>1 DEF NodeHalved
<1>4. Heap(u) /\ u.node[n].is_leaf \in BOOLEAN
  <2>1. Heap(u)
    BY <1>3 DEF Halved, Placed
  <2> QED BY <1>3, <2>1, NodeFields
<1>5. Enough(u.node[n]) /\ Enough(u.node[right])
  <2>1. order \in Nat /\ c \in 2..(order - 1) /\ order - c >= c - 1
    BY Halves
  <2>2. min_keys(u.node[n]) = c - 1 /\ min_keys(u.node[right]) = c - 1
    BY <1>3 DEF min_keys
  <2> HIDE DEF c
  <2>3. c - 1 <= order - 1 /\ c - 1 >= c - 1 /\ order - c <= order - 1
    BY <2>1
  <2> QED BY <1>3, <2>1, <2>2, <2>3 DEF Enough
<1>6. ASSUME NEW v
      PROVE  (\E m \in DOMAIN u.node : Holds(u, m, v)) <=> (\E m \in DOMAIN t.node : Holds(t, m, v))
  <2>1. \A m \in DOMAIN t.node : m # n => (Holds(u, m, v) <=> Holds(t, m, v))
    BY <1>3 DEF Holds, HasKey, SameContent
  <2>2. ~Holds(t, n, v) /\ ~Holds(u, n, v) /\ ~Holds(u, right, v)
    BY <1>3 DEF Holds
  <2> QED BY <1>3, <2>1, <2>2
<1>7. KeysOf(u) = KeysOf(t)
  BY <1>2, <1>4, <1>6, SameKeys
<1>8. u.node[n].is_leaf = t.node[n].is_leaf
  BY <1>2, <1>3, <1>4
<1>9. Cut(t, u, n, right, k)
  BY <1>3, <1>4, <1>5, <1>7, <1>8 DEF Cut, SameContent
<1> QED BY <1>9 DEF u, right, k

\* The sizes of the nodes when right has been hung next to n.
LEMMA CutSizes ==
  ASSUME NEW t, NEW u, NEW n \in DOMAIN t.node, NEW right, NEW k, Cut(t, u, n, right, k), Settled(t, n),
         NEW w, NEW m \in DOMAIN u.node, w.node[m].is_leaf = u.node[m].is_leaf, w.node[m].keys = u.node[m].keys,
         m # w.root, m = t.root => m = n
  PROVE  Sized(w, m)
<1>1. min_keys(w.node[m]) = min_keys(u.node[m])
  BY Zenon DEF min_keys
<1>2. CASE m \in {n, right}
  <2>1. Enough(u.node[m])
    BY <1>2 DEF Cut
  <2> QED BY <1>1, <2>1 DEF Enough, Sized
<1>3. CASE m \notin {n, right}
  <2>1. m \in DOMAIN t.node /\ u.node[m].is_leaf = t.node[m].is_leaf /\ u.node[m].keys = t.node[m].keys
    BY <1>3 DEF Cut
  <2>2. min_keys(u.node[m]) = min_keys(t.node[m])
    BY <2>1, Zenon DEF min_keys
  <2>3. Sized(t, m) /\ m # t.root
    BY <1>3, <2>1 DEF Settled
  <2> QED BY <1>1, <2>1, <2>2, <2>3 DEF Sized
<1> QED BY <1>2, <1>3

LEMMA RootCut ==
  ASSUME NEW t, IsTree(t), NEW u, NEW right, NEW k, Cut(t, u, t.root, right, k), Settled(t, t.root), KeysOf(t) = listed',
         Returns(insert_into_new_root(u, t.root, k, right))
  PROVE  BptInv'
<1> DEFINE w == insert_into_new_root(u, u.root, k, right)
           n == NewNode(u)
<1>1. PICK h : Halved(u, h, u.root, right, k)
  BY DEF Cut
<1>2. /\ IsTree(w) /\ w.root = n /\ n \notin DOMAIN u.node /\ DOMAIN w.node = DOMAIN u.node \cup {n}
      /\ Len(w.node[n].keys) = 1 /\ ~w.node[n].is_leaf
      /\ \A m \in DOMAIN u.node : w.node[m].is_leaf = u.node[m].is_leaf /\ w.node[m].keys = u.node[m].keys
  <2>1. NewlyRooted(w, u, n)
    BY <1>1, HungUnderNewRoot
  <2> HIDE DEF w, n
  <2> QED BY <2>1 DEF NewlyRooted
<1>3. u.root = t.root /\ Heap(u) /\ KeysOf(u) = KeysOf(t)
  BY DEF Cut
<1>4. Returns(w)
  BY <1>3
<1> HIDE DEF w, n
<1>5. t.root \in DOMAIN t.node
  BY DEF IsTree, Shape, RootOK
<1>6. ASSUME NEW m \in DOMAIN w.node PROVE Sized(w, m)
  <2>1. CASE m = n
    <3>1. 1 <= order - 1 /\ 1 >= 1
      BY BptAssumption
    <3> QED BY <1>2, <2>1, <3>1 DEF Sized
  <2>2. CASE m # n
    <3>1. m \in DOMAIN u.node /\ m # w.root
      BY <1>2, <2>2
    <3> QED BY <1>2, <1>5, <3>1, CutSizes
  <2> QED BY <2>1, <2>2
<1>7. KeysOf(w) = KeysOf(u)
  <2>1. Heap(w)
    BY <1>2 DEF IsTree, Shape, Placed
  <2>2. ASSUME NEW v PROVE (\E m \in DOMAIN w.node : Holds(w, m, v)) <=> (\E m \in DOMAIN u.node : Holds(u, m, v))
    BY <1>2 DEF Holds, HasKey
  <2> QED BY <1>3, <2>1, <2>2, SameKeys
<1>8. Settled(w, Null) /\ KeysOf(w) = listed'
  BY <1>3, <1>6, <1>7 DEF Settled
<1> QED BY <1>2, <1>4, <1>8, ReturnsTree

LEMMA ChildCut ==
  ASSUME NEW t, IsTree(t), NEW n \in DOMAIN t.node, n # t.root,
         NEW u, NEW right, NEW k, Cut(t, u, n, right, k), Settled(t, n), KeysOf(t) = listed',
         Grown(insert_into_node(u, t.node[n].parent, n, k, right), t.node[n].parent)
  PROVE  BptInv'
<1> DEFINE p == u.node[n].parent
           w == insert_into_node(u, p, n, k, right)
<1>1. PICK h : Halved(u, h, n, right, k)
  BY DEF Cut
<1>2. /\ u.root = t.root /\ Heap(u) /\ KeysOf(u) = KeysOf(t) /\ p = t.node[n].parent
      /\ right \notin DOMAIN t.node /\ DOMAIN u.node = DOMAIN t.node \cup {right}
      /\ \A m \in DOMAIN t.node : m # n => u.node[m].is_leaf = t.node[m].is_leaf /\ u.node[m].keys = t.node[m].keys
  BY DEF Cut
<1>3. /\ Shape(w, Until(h, n, k)) /\ w.root = u.root /\ DOMAIN w.node = DOMAIN u.node
      /\ p \in DOMAIN u.node /\ ~u.node[p].is_leaf /\ ~w.node[p].is_leaf
      /\ Len(w.node[p].keys) = Len(u.node[p].keys) + 1
      /\ \A m \in DOMAIN u.node : m # p => w.node[m] = u.node[m]
  <2>1. n # u.root
    BY <1>2
  <2>2. LET q == u.node[n].parent
             v == insert_into_node(u, q, n, k, right)
         IN  /\ Shape(v, Until(h, n, k)) /\ v.root = u.root /\ DOMAIN v.node = DOMAIN u.node
             /\ q \in DOMAIN u.node /\ ~u.node[q].is_leaf /\ ~v.node[q].is_leaf
             /\ Len(v.node[q].keys) = Len(u.node[q].keys) + 1
             /\ \A m \in DOMAIN u.node : m # q => v.node[m] = u.node[m]
    BY <1>1, <2>1, HungUnderParent
  <2> QED BY <2>2, Zenon
<1>4. Grown(w, p)
  <2>1. p = t.node[n].parent
    BY <1>2
  <2> QED BY <2>1, Zenon
<1>5. p \in DOMAIN t.node /\ p # n
  <2> PICK g : Shape(t, g)
    BY DEF IsTree
  <2>1. IsChild(t, n)
    BY DEF Shape, Under
  <2>2. p \in DOMAIN t.node /\ ~t.node[p].is_leaf /\ \E i \in 1..Len(t.node[p].pointers) : t.node[p].pointers[i] = n
    BY <1>2, <2>1 DEF IsChild
  <2>3. PICK i \in 1..Len(t.node[p].pointers) : t.node[p].pointers[i] = n
    BY <2>2
  <2> HIDE DEF p
  <2>4. Hangs(t, g, p, i)
    BY <2>2 DEF Shape, Body
  <2>5. g[p].ht = g[n].ht + 1
    BY <2>3, <2>4 DEF Hangs
  <2>6. g[n].ht \in Nat
    BY PlaceFields DEF Shape
  <2> QED BY <2>2, <2>5, <2>6
<1> HIDE DEF w, p
<1>6. IsTree(w) /\ Heap(w)
  BY <1>3 DEF IsTree, Shape, Placed
<1>7. ASSUME NEW m \in DOMAIN w.node, m # p PROVE Sized(w, m)
  <2>1. m \in DOMAIN u.node /\ w.node[m] = u.node[m]
    BY <1>3, <1>7
  <2>2. CASE m \in {n, right}
    <3>1. m # w.root
      <4>1. t.root \in DOMAIN t.node
        BY DEF IsTree, Shape, RootOK
      <4> QED BY <1>2, <1>3, <2>2, <4>1
    <3>2. Enough(u.node[m])
      BY <2>2 DEF Cut
    <3> QED BY <2>1, <3>1, <3>2 DEF Enough, Sized
  <2>3. CASE m \notin {n, right}
    <3>1. m \in DOMAIN t.node /\ w.node[m].is_leaf = t.node[m].is_leaf /\ Len(w.node[m].keys) = Len(t.node[m].keys)
          /\ (m = w.root) = (m = t.root)
      BY <1>2, <1>3, <2>1, <2>3
    <3>2. Sized(t, m)
      BY <2>3, <3>1 DEF Settled
    <3> QED BY <3>1, <3>2, SameSize
  <2> QED BY <2>2, <2>3
<1>8. Settled(w, p)
  BY <1>7 DEF Settled
<1>9. /\ Len(w.node[p].keys) <= order
      /\ Len(w.node[p].keys) >= (IF p = w.root THEN 1 ELSE min_keys(w.node[p]))
  <2> DEFINE l == Len(t.node[p].keys)
  <2>1. Sized(t, p)
    BY <1>5 DEF Settled
  <2>2. w.node[p].is_leaf = t.node[p].is_leaf /\ Len(w.node[p].keys) = l + 1 /\ p \in DOMAIN w.node
    <3>1. u.node[p].is_leaf = t.node[p].is_leaf /\ u.node[p].keys = t.node[p].keys
      BY <1>2, <1>5
    <3>2. w.node[p].is_leaf \in BOOLEAN /\ u.node[p].is_leaf \in BOOLEAN
      BY <1>2, <1>3, <1>6, NodeFields
    <3>3. w.node[p].is_leaf = u.node[p].is_leaf
      BY <1>3, <3>2
    <3> QED BY <1>3, <3>1, <3>3
  <2>3. min_keys(w.node[p]) = min_keys(t.node[p])
    BY <2>2, Zenon DEF min_keys
  <2>4. l \in Nat /\ min_keys(t.node[p]) \in Nat /\ order \in Nat
    <3>1. Heap(t)
      BY DEF IsTree, Shape, Placed
    <3>2. l \in Nat
      BY <1>5, <3>1, NodeFields
    <3> HIDE DEF l
    <3> QED BY <3>2, MinKeys
  <2>5. l <= order - 1 /\ l >= (IF p = w.root THEN 1 ELSE min_keys(t.node[p]))
    BY <1>2, <1>3, <2>1 DEF Sized
  <2> HIDE DEF l
  <2> QED BY <2>2, <2>3, <2>4, <2>5
<1>10. KeysOf(w) = KeysOf(u)
  <2>1. ASSUME NEW v PROVE (\E m \in DOMAIN w.node : Holds(w, m, v)) <=> (\E m \in DOMAIN u.node : Holds(u, m, v))
    BY <1>3 DEF Holds
  <2> QED BY <1>2, <1>6, <2>1, SameKeys
<1>11. KeysOf(w) = listed' /\ p \in DOMAIN w.node
  BY <1>2, <1>3, <1>10
<1> QED BY <1>4, <1>6, <1>8, <1>9, <1>11, GrownTree

LEMMA NodeSplitUp ==
  ASSUME BptInv, Split
  PROVE  BptInv'
<1> DEFINE n == tree.node[at]
           right == NewNode(tree)
           k == IF n.is_leaf THEN n.keys[CUT(order - 1) + 1] ELSE n.keys[CUT(order)]
           t == IF n.is_leaf THEN SplitLeaf(tree, at) ELSE SplitNode(tree, at)
<1>1. /\ op = "insert" /\ listed' = listed
      /\ IF n.parent = Null THEN Returns(insert_into_new_root(t, at, k, right))
         ELSE Grown(insert_into_node(t, n.parent, at, k, right), n.parent)
  BY TreeOf DEF Split
<1>2. root # Null
  BY <1>1 DEF BptInv, Empty
<1>3. IsTree(tree) /\ Settled(tree, at) /\ at \in DOMAIN tree.node /\ Len(n.keys) = order /\ KeysOf(tree) = listed'
  BY <1>1, <1>2 DEF BptInv, Growing, Waiting
<1> PICK g : Shape(tree, g)
  BY <1>3 DEF IsTree
<1>4. Cut(tree, t, at, right, k)
  <2>1. CASE n.is_leaf
    <3>1. t = SplitLeaf(tree, at) /\ k = n.keys[CUT(order - 1) + 1]
      BY <2>1
    <3> HIDE DEF t, k
    <3> QED BY <1>3, <2>1, <3>1, LeafCut
  <2>2. CASE ~n.is_leaf
    <3>1. t = SplitNode(tree, at) /\ k = n.keys[CUT(order)]
      BY <2>2
    <3> HIDE DEF t, k
    <3> QED BY <1>3, <2>2, <3>1, NodeCut
  <2> QED BY <2>1, <2>2
<1> HIDE DEF t, k, right
<1>5. CASE at = tree.root
  <2>1. n.parent = Null
    BY <1>5 DEF Shape, RootOK
  <2> QED BY <1>1, <1>3, <1>4, <1>5, <2>1, RootCut
<1>6. CASE at # tree.root
  <2>1. IsChild(tree, at)
    BY <1>3, <1>6 DEF Shape, Under
  <2>2. n.parent \in DOMAIN tree.node
    BY <2>1 DEF IsChild
  <2>3. n.parent # Null
    BY <2>2, NodeFields DEF Shape, Placed
  <2> QED BY <1>1, <1>3, <1>4, <1>6, <2>3, ChildCut
<1> QED BY <1>5, <1>6

\* What delete_entry finds: a node with too few keys and its neighbor, left and right, below the parent.
Joining(g, left, right) ==
  /\ Shape(tree, g) /\ Settled(tree, at) /\ KeysOf(tree) = listed
  /\ Pair(tree, g, node[at].parent, k_prime_index, left, right)
  /\ {left, right} = {at, neighbor}
  /\ at \in DOMAIN tree.node /\ at # tree.root /\ Len(tree.node[at].keys) = min_keys(tree.node[at]) - 1

LEMMA DeletionGoesOn ==
  ASSUME BptInv, op = "delete"
  PROVE  /\ leftmost => \E g : Joining(g, at, neighbor)
         /\ ~leftmost => \E g : Joining(g, neighbor, at)
<1>1. root # Null
  BY DEF BptInv, Empty
<1>2. /\ IsTree(tree) /\ Settled(tree, at) /\ KeysOf(tree) = listed
      /\ at \in DOMAIN tree.node /\ at # tree.root /\ Len(tree.node[at].keys) = min_keys(tree.node[at]) - 1
  BY <1>1 DEF BptInv, Growing, Waiting
<1> PICK g : Shape(tree, g)
  BY <1>2 DEF IsTree
<1> DEFINE p == node[at].parent
<1>3. p \in DOMAIN tree.node /\ p # at
  <2>1. IsChild(tree, at)
    BY <1>2 DEF Shape, Under
  <2>2. p \in DOMAIN tree.node /\ ~tree.node[p].is_leaf
        /\ \E i \in 1..Len(tree.node[p].pointers) : tree.node[p].pointers[i] = at
    BY <2>1, TreeOf DEF IsChild
  <2>3. PICK i \in 1..Len(tree.node[p].pointers) : tree.node[p].pointers[i] = at
    BY <2>2
  <2> HIDE DEF p
  <2>4. Hangs(tree, g, p, i)
    BY <2>2 DEF Shape, Body
  <2>5. g[p].ht = g[at].ht + 1
    BY <2>3, <2>4 DEF Hangs
  <2>6. g[at].ht \in Nat
    BY <1>2, PlaceFields DEF Shape
  <2> QED BY <2>2, <2>5, <2>6
<1>4. Len(parent.keys) >= 1
  <2>1. Sized(tree, p)
    BY <1>2, <1>3 DEF Settled
  <2>2. Heap(tree)
    BY DEF Shape, Placed
  <2> HIDE DEF p
  <2>3. Len(tree.node[p].keys) >= 1
    BY <1>3, <2>1, <2>2, NotEmpty
  <2> QED BY <2>3, TreeOf DEF parent, p
<1>5. /\ leftmost => Pair(tree, g, p, k_prime_index, at, neighbor)
      /\ ~leftmost => Pair(tree, g, p, k_prime_index, neighbor, at)
  <2>1. at \in DOMAIN node /\ at # root
    BY <1>2, TreeOf
  <2> QED BY <1>4, <2>1, NeighborBeside
<1> HIDE DEF p
<1>6. leftmost => Joining(g, at, neighbor)
  BY <1>2, <1>5 DEF Joining, p
<1>7. ~leftmost => Joining(g, neighbor, at)
  BY <1>2, <1>5 DEF Joining, p
<1> QED BY <1>6, <1>7

\* The numbers of keys of the two nodes.
Counted(left, right) ==
  LET m == min_keys(tree.node[left])
      l == Len(tree.node[left].keys)
      r == Len(tree.node[right].keys)
      rest == IF tree.node[left].is_leaf THEN 0 ELSE 1
  IN  /\ l \in Nat /\ r \in Nat /\ m \in 1..(order - 1) /\ order \in Nat
      /\ min_keys(tree.node[right]) = m
      /\ \/ left = at /\ l = m - 1 /\ m <= r /\ r <= order - 1
         \/ right = at /\ r = m - 1 /\ m <= l /\ l <= order - 1
      /\ FitTogether <=> (l + r) + rest < order
      /\ (order - rest) - (m - 1) > m

LEMMA KeysCounted ==
  ASSUME NEW g, NEW left, NEW right, Joining(g, left, right)
  PROVE  Counted(left, right)
<1> DEFINE n == tree.node[left]
           x == tree.node[right]
           l == Len(n.keys)
           r == Len(x.keys)
           m == min_keys(n)
           rest == IF n.is_leaf THEN 0 ELSE 1
<1>1. /\ Shape(tree, g) /\ Settled(tree, at) /\ {left, right} = {at, neighbor}
      /\ Pair(tree, g, node[at].parent, k_prime_index, left, right)
      /\ Len(tree.node[at].keys) = min_keys(tree.node[at]) - 1
  BY DEF Joining
<1>2. Paired(tree, node[at].parent, k_prime_index, left, right)
  BY <1>1, PairOfNodes
<1>3. /\ left \in DOMAIN tree.node /\ right \in DOMAIN tree.node /\ left # right
      /\ x.is_leaf = n.is_leaf /\ n.keys \in Seq(Int) /\ x.keys \in Seq(Int)
  BY <1>2 DEF Paired
<1>4. left # tree.root /\ right # tree.root
  <2>1. node[at].parent \in DOMAIN tree.node /\ ~tree.node[node[at].parent].is_leaf
        /\ k_prime_index \in 1..Len(tree.node[node[at].parent].keys)
        /\ tree.node[node[at].parent].pointers[k_prime_index] = left
        /\ tree.node[node[at].parent].pointers[k_prime_index + 1] = right
    BY <1>1 DEF Pair
  <2>2. Beside(tree, g, node[at].parent, k_prime_index, left, right, tree.node[node[at].parent].keys[k_prime_index])
    BY <1>1, <2>1, Neighbours
  <2> QED BY <2>2 DEF Beside
<1>5. min_keys(x) = m /\ capacity(x) = capacity(n)
  BY <1>3, Zenon DEF min_keys, capacity
<1>6. l \in Nat /\ r \in Nat
  <2> HIDE DEF n, x
  <2> QED BY <1>3
<1>7. m \in 1..(order - 1) /\ order \in Nat
  BY MinKeys
<1>8. (order - rest) - (m - 1) > m
  <2> DEFINE a == CUT(order - 1)
             b == CUT(order)
  <2>1. order \in Nat /\ a \in 1..(order - 1) /\ order - a >= a /\ b \in 2..(order - 1) /\ order - b >= b - 1
    BY Halves
  <2>2. (n.is_leaf => m = a /\ rest = 0) /\ (~n.is_leaf => m = b - 1 /\ rest = 1)
    BY DEF min_keys
  <2> HIDE DEF m, rest, a, b
  <2>3. CASE n.is_leaf
    <3>1. m = a /\ rest = 0
      BY <2>2, <2>3
    <3> QED BY <2>1, <3>1
  <2>4. CASE ~n.is_leaf
    <3>1. m = b - 1 /\ rest = 1
      BY <2>2, <2>4
    <3> QED BY <2>1, <3>1
  <2> QED BY <2>3, <2>4
<1>9. (left = at /\ l = m - 1 /\ m <= r /\ r <= order - 1) \/ (right = at /\ r = m - 1 /\ m <= l /\ l <= order - 1)
  <2>1. CASE left = at
    <3>1. Sized(tree, right)
      BY <1>1, <1>3, <2>1 DEF Settled
    <3> QED BY <1>1, <1>4, <1>5, <2>1, <3>1 DEF Sized
  <2>2. CASE right = at
    <3>1. Sized(tree, left)
      BY <1>1, <1>3, <2>2 DEF Settled
    <3> QED BY <1>1, <1>4, <1>5, <2>2, <3>1 DEF Sized
  <2> QED BY <1>1, <2>1, <2>2
<1>10. FitTogether <=> (l + r) + rest < order
  <2>1. FitTogether <=> Len(tree.node[neighbor].keys) + Len(tree.node[at].keys) < capacity(tree.node[at])
    BY TreeOf DEF FitTogether
  <2>2. (neighbor = left /\ at = right) \/ (neighbor = right /\ at = left)
    BY <1>1, <1>3
  <2>3. capacity(tree.node[at]) = capacity(n)
    BY <1>5, <2>2
  <2>4. Len(tree.node[neighbor].keys) + Len(tree.node[at].keys) = l + r
    <3>1. l + r = r + l
      <4> HIDE DEF l, r
      <4> QED BY <1>6
    <3> QED BY <2>2, <3>1
  <2>5. capacity(n) = order - rest
    BY BptAssumption DEF capacity
  <2>6. FitTogether <=> l + r < order - rest
    BY <2>1, <2>3, <2>4, <2>5
  <2>7. rest \in Nat
    OBVIOUS
  <2> HIDE DEF l, r, rest
  <2> QED BY <1>6, <1>7, <2>6, <2>7
<1> HIDE DEF n, x, l, r, m, rest
<1>11. /\ l \in Nat /\ r \in Nat /\ m \in 1..(order - 1) /\ order \in Nat
       /\ min_keys(x) = m
       /\ (left = at /\ l = m - 1 /\ m <= r /\ r <= order - 1) \/ (right = at /\ r = m - 1 /\ m <= l /\ l <= order - 1)
       /\ FitTogether <=> (l + r) + rest < order
       /\ (order - rest) - (m - 1) > m
  BY <1>5, <1>6, <1>7, <1>8, <1>9, <1>10
<1> QED BY <1>11 DEF Counted, n, x, l, r, m, rest

\* The two have become one, and the parent has one child less.
LEMMA MergedTree ==
  ASSUME NEW g, NEW left, NEW right, Joining(g, left, right), FitTogether,
         NEW u, NEW p, p = node[at].parent, Merged(u, tree, p, left, right), Shrunk(u, p), listed' = listed
  PROVE  BptInv'
<1> DEFINE D == DOMAIN tree.node
           l == Len(tree.node[left].keys)
           r == Len(tree.node[right].keys)
           m == min_keys(tree.node[left])
           rest == IF tree.node[left].is_leaf THEN 0 ELSE 1
<1>1. /\ IsTree(u) /\ u.root = tree.root /\ DOMAIN u.node = D \ {right}
      /\ p \in DOMAIN u.node /\ left \in DOMAIN u.node /\ left # p /\ right # p
      /\ ~u.node[p].is_leaf /\ u.node[left].is_leaf = tree.node[left].is_leaf
      /\ Len(u.node[p].keys) = Len(tree.node[p].keys) - 1
      /\ Len(u.node[left].keys) = (l + r) + rest
      /\ \A n \in D \ {left, p, right} : SameContent(u.node[n], tree.node[n])
      /\ KeysOf(u) = KeysOf(tree)
  BY DEF Merged
<1>2. /\ Settled(tree, at) /\ {left, right} = {at, neighbor} /\ KeysOf(tree) = listed /\ Heap(tree)
      /\ Pair(tree, g, p, k_prime_index, left, right)
  BY DEF Joining, Shape, Placed
<1>3. /\ l \in Nat /\ r \in Nat /\ m \in 1..(order - 1) /\ order \in Nat
      /\ \/ left = at /\ l = m - 1 /\ m <= r /\ r <= order - 1
         \/ right = at /\ r = m - 1 /\ m <= l /\ l <= order - 1
      /\ (l + r) + rest < order
  <2>1. Counted(left, right)
    BY KeysCounted
  <2> QED BY <2>1 DEF Counted
<1>4. ~tree.node[p].is_leaf
  BY <1>2 DEF Pair
<1>5. at \in {left, right}
  BY <1>2
<1>6. Sized(u, left)
  <2>1. (l + r) + rest <= order - 1 /\ (l + r) + rest >= m /\ m >= 1
    <3>1. rest \in Nat
      OBVIOUS
    <3> HIDE DEF l, r, m, rest
    <3> QED BY <1>3, <3>1
  <2>2. min_keys(u.node[left]) = m
    BY <1>1, Zenon DEF min_keys
  <2>3. Len(u.node[left].keys) <= order - 1 /\ Len(u.node[left].keys) >= m /\ Len(u.node[left].keys) >= 1
    <3> HIDE DEF m, l, r, rest
    <3>1. (l + r) + rest >= 1
      <4>1. (l + r) + rest \in Int
        BY <1>1, NodeFields DEF IsTree, Shape, Placed
      <4> DEFINE z == (l + r) + rest
      <4>2. z \in Int /\ z >= m /\ m >= 1
        BY <2>1, <4>1
      <4> HIDE DEF z
      <4>3. z >= 1
        BY <1>3, <4>2
      <4> QED BY <4>3 DEF z
    <3> QED BY <1>1, <2>1, <3>1
  <2> QED BY <2>2, <2>3 DEF Sized
<1> HIDE DEF l, r, m, rest
<1>7. ASSUME NEW n \in DOMAIN u.node, n # p PROVE Sized(u, n)
  <2>1. CASE n = left
    BY <1>6, <2>1
  <2>2. CASE n # left
    <3>1. n \in D \ {left, p, right} /\ SameContent(u.node[n], tree.node[n])
      BY <1>1, <1>7, <2>2
    <3>2. Sized(tree, n)
      BY <1>2, <1>5, <3>1 DEF Settled
    <3>3. u.node[n].is_leaf = tree.node[n].is_leaf /\ Len(u.node[n].keys) = Len(tree.node[n].keys)
          /\ (n = u.root) = (n = tree.root)
      BY <1>1, <3>1 DEF SameContent
    <3> QED BY <3>2, <3>3, SameSize
  <2> QED BY <2>1, <2>2
<1>8. Settled(u, p)
  BY <1>7 DEF Settled
<1>9. /\ Len(u.node[p].keys) <= order - 1
      /\ p # u.root => Len(u.node[p].keys) >= min_keys(u.node[p]) - 1
  <2> DEFINE z == Len(tree.node[p].keys)
             e == min_keys(tree.node[p])
  <2>1. p \in D /\ p # at
    BY <1>1, <1>5
  <2>2. Sized(tree, p)
    BY <1>2, <2>1 DEF Settled
  <2>3. z \in Nat /\ e \in 1..(order - 1)
    <3>1. z \in Nat
      BY <1>2, <2>1, NodeFields
    <3> HIDE DEF z
    <3> QED BY <3>1, MinKeys
  <2>4. min_keys(u.node[p]) = e
    BY <1>1, <1>4 DEF min_keys
  <2>5. z <= order - 1 /\ (p # u.root => z >= e)
    BY <1>1, <2>2 DEF Sized
  <2> HIDE DEF z, e
  <2>6. z - 1 <= order - 1 /\ (p # u.root => z - 1 >= e - 1)
    BY <1>3, <2>3, <2>5
  <2>7. Len(u.node[p].keys) = z - 1
    BY <1>1 DEF z
  <2> QED BY <2>4, <2>6, <2>7
<1>10. KeysOf(u) = listed'
  BY <1>1, <1>2
<1> QED BY <1>1, <1>8, <1>9, <1>10, ShrunkTree

\* One key went from the neighbor to the node.
LEMMA SharedTree ==
  ASSUME NEW g, NEW left, NEW right, Joining(g, left, right), ~FitTogether,
         NEW u, NEW p, NEW l, NEW r, Shifted(u, tree, p, left, right, l, r),
         IF left = at THEN l = Len(tree.node[left].keys) + 1 /\ r = Len(tree.node[right].keys) - 1
         ELSE l = Len(tree.node[left].keys) - 1 /\ r = Len(tree.node[right].keys) + 1,
         p = node[at].parent, Returns(u), listed' = listed
  PROVE  BptInv'
<1> DEFINE D == DOMAIN tree.node
           l0 == Len(tree.node[left].keys)
           r0 == Len(tree.node[right].keys)
           m == min_keys(tree.node[left])
           rest == IF tree.node[left].is_leaf THEN 0 ELSE 1
<1>1. /\ IsTree(u) /\ u.root = tree.root /\ DOMAIN u.node = D
      /\ p \in D /\ left \in D /\ right \in D
      /\ left # right /\ left # p /\ right # p
      /\ ~u.node[p].is_leaf /\ ~tree.node[p].is_leaf
      /\ u.node[left].is_leaf = tree.node[left].is_leaf /\ u.node[right].is_leaf = tree.node[right].is_leaf
      /\ Len(u.node[p].keys) = Len(tree.node[p].keys) /\ Len(u.node[left].keys) = l /\ Len(u.node[right].keys) = r
      /\ \A n \in D \ {left, p, right} : SameContent(u.node[n], tree.node[n])
      /\ KeysOf(u) = KeysOf(tree)
  BY DEF Shifted
<1>2. /\ Settled(tree, at) /\ {left, right} = {at, neighbor} /\ KeysOf(tree) = listed
      /\ Pair(tree, g, p, k_prime_index, left, right)
  BY DEF Joining
<1>3. /\ l0 \in Nat /\ r0 \in Nat /\ m \in 1..(order - 1) /\ order \in Nat
      /\ min_keys(tree.node[right]) = m
      /\ \/ left = at /\ l0 = m - 1 /\ m <= r0 /\ r0 <= order - 1
         \/ right = at /\ r0 = m - 1 /\ m <= l0 /\ l0 <= order - 1
      /\ ~((l0 + r0) + rest < order) /\ (order - rest) - (m - 1) > m
  <2>1. Counted(left, right)
    BY KeysCounted
  <2> QED BY <2>1 DEF Counted
<1>4. at \in {left, right}
  BY <1>2
<1>5. IF left = at THEN l = l0 + 1 /\ r = r0 - 1 ELSE l = l0 - 1 /\ r = r0 + 1
  OBVIOUS
<1>6. l <= order - 1 /\ r <= order - 1 /\ l >= m /\ r >= m /\ m >= 1 /\ l >= 1 /\ r >= 1
  <2>1. rest \in {0, 1}
    OBVIOUS
  <2> HIDE DEF l0, r0, m, rest
  <2>2. CASE left = at
    <3>1. l0 = m - 1 /\ m <= r0 /\ r0 <= order - 1 /\ l = l0 + 1 /\ r = r0 - 1
      BY <1>1, <1>3, <1>5, <2>2
    <3> QED BY <1>3, <2>1, <3>1
  <2>3. CASE left # at
    <3>1. r0 = m - 1 /\ m <= l0 /\ l0 <= order - 1 /\ l = l0 - 1 /\ r = r0 + 1
      BY <1>3, <1>5, <2>3
    <3> QED BY <1>3, <2>1, <3>1
  <2> QED BY <2>2, <2>3
<1>7. ASSUME NEW n \in DOMAIN u.node PROVE Sized(u, n)
  <2>1. CASE n = left
    <3>1. min_keys(u.node[left]) = m
      BY <1>1, Zenon DEF min_keys
    <3> QED BY <1>1, <1>6, <2>1, <3>1 DEF Sized
  <2>2. CASE n = right
    <3>1. min_keys(u.node[right]) = min_keys(tree.node[right])
      BY <1>1, Zenon DEF min_keys
    <3> QED BY <1>1, <1>3, <1>6, <2>2, <3>1 DEF Sized
  <2>3. CASE n \notin {left, right}
    <3>1. n \in D /\ n # at
      BY <1>1, <1>4, <2>3
    <3>2. Sized(tree, n)
      BY <1>2, <3>1 DEF Settled
    <3>3. (n = u.root) = (n = tree.root)
      BY <1>1
    <3>4. CASE n = p
      <4>1. min_keys(u.node[n]) = min_keys(tree.node[n])
        BY <1>1, <3>4 DEF min_keys
      <4> QED BY <1>1, <3>2, <3>4, <4>1 DEF Sized
    <3>5. CASE n # p
      <4>1. SameContent(u.node[n], tree.node[n])
        BY <1>1, <2>3, <3>1, <3>5
      <4>2. u.node[n].is_leaf = tree.node[n].is_leaf /\ Len(u.node[n].keys) = Len(tree.node[n].keys)
        BY <4>1 DEF SameContent
      <4> QED BY <3>2, <3>3, <4>2, SameSize
    <3> QED BY <3>4, <3>5
  <2> QED BY <2>1, <2>2, <2>3
<1>8. Settled(u, Null) /\ KeysOf(u) = listed'
  BY <1>1, <1>2, <1>7 DEF Settled
<1> QED BY <1>1, <1>8, ReturnsTree

LEMMA Coalescing ==
  ASSUME NEW g, NEW left, NEW right, Joining(g, left, right), FitTogether, listed' = listed,
         NEW k, k = parent.keys[k_prime_index],
         Shrunk(Freed(remove_entry_from_node(Coalesced(tree, left, right, k), node[at].parent, k, right), right), node[at].parent)
  PROVE  BptInv'
<1> DEFINE p == node[at].parent
           i == k_prime_index
           u == Freed(remove_entry_from_node(Coalesced(tree, left, right, k), p, k, right), right)
<1>1. Shape(tree, g) /\ Pair(tree, g, p, i, left, right)
  BY DEF Joining
<1>2. /\ p \in DOMAIN tree.node /\ ~tree.node[p].is_leaf /\ i \in 1..Len(tree.node[p].keys)
      /\ tree.node[p].pointers[i] = left /\ tree.node[p].pointers[i + 1] = right
  BY <1>1 DEF Pair
<1>3. tree.node[p].keys[i] = k
  BY TreeOf DEF parent
<1> HIDE DEF i
<1>4. Merged(u, tree, p, left, right)
  BY <1>1, <1>2, <1>3, CoalescedIsMerged
<1>5. Shrunk(u, p)
  OBVIOUS
<1> HIDE DEF u
<1> QED BY <1>4, <1>5, MergedTree

LEMMA NodesCoalesced ==
  ASSUME BptInv, Coalesce
  PROVE  BptInv'
<1> DEFINE k == parent.keys[k_prime_index]
<1>1. op = "delete" /\ FitTogether /\ listed' = listed
  BY DEF Coalesce
<1>2. CASE leftmost
  <2>1. PICK g : Joining(g, at, neighbor)
    BY <1>1, <1>2, DeletionGoesOn
  <2>2. Shrunk(Freed(remove_entry_from_node(Coalesced(tree, at, neighbor, k), node[at].parent, k, neighbor), neighbor),
               node[at].parent)
    BY <1>2 DEF Coalesce
  <2> HIDE DEF k
  <2>3. k = parent.keys[k_prime_index]
    BY DEF k
  <2> QED BY <1>1, <2>1, <2>2, <2>3, Coalescing
<1>3. CASE ~leftmost
  <2>1. PICK g : Joining(g, neighbor, at)
    BY <1>1, <1>3, DeletionGoesOn
  <2>2. Shrunk(Freed(remove_entry_from_node(Coalesced(tree, neighbor, at, k), node[at].parent, k, at), at),
               node[at].parent)
    BY <1>3 DEF Coalesce
  <2> HIDE DEF k
  <2>3. k = parent.keys[k_prime_index]
    BY DEF k
  <2> QED BY <1>1, <2>1, <2>2, <2>3, Coalescing
<1> QED BY <1>2, <1>3

\* The neighbor can do without a key.
LEMMA NeighborHasMore ==
  ASSUME NEW g, NEW left, NEW right, Joining(g, left, right), ~FitTogether
  PROVE  /\ Len(tree.node[left].keys) \in Nat /\ Len(tree.node[right].keys) \in Nat
         /\ left = at => Len(tree.node[right].keys) >= 2
         /\ right = at => Len(tree.node[left].keys) >= 2
<1> DEFINE l == Len(tree.node[left].keys)
           r == Len(tree.node[right].keys)
           m == min_keys(tree.node[left])
           rest == IF tree.node[left].is_leaf THEN 0 ELSE 1
<1>1. /\ l \in Nat /\ r \in Nat /\ m \in 1..(order - 1) /\ order \in Nat
      /\ \/ left = at /\ l = m - 1 /\ m <= r /\ r <= order - 1
         \/ right = at /\ r = m - 1 /\ m <= l /\ l <= order - 1
      /\ ~((l + r) + rest < order) /\ (order - rest) - (m - 1) > m
  <2>1. Counted(left, right)
    BY KeysCounted
  <2> QED BY <2>1 DEF Counted
<1>2. rest \in {0, 1} /\ left # right
  <2>1. Pair(tree, g, node[at].parent, k_prime_index, left, right)
    BY DEF Joining
  <2>2. Paired(tree, node[at].parent, k_prime_index, left, right)
    BY <2>1, PairOfNodes
  <2> QED BY <2>2 DEF Paired
<1> HIDE DEF l, r, m, rest
<1>3. left = at => r >= 2
  BY <1>1, <1>2
<1>4. right = at => l >= 2
  BY <1>1, <1>2
<1> QED BY <1>1, <1>3, <1>4 DEF l, r

LEMMA TookFromRight ==
  ASSUME NEW g, NEW right, Joining(g, at, right), ~FitTogether, listed' = listed,
         Returns(TakenFromRight(tree, at, right, k_prime_index))
  PROVE  BptInv'
<1> DEFINE p == node[at].parent
           u == TakenFromRight(tree, at, right, k_prime_index)
           l == Len(tree.node[at].keys)
           r == Len(tree.node[right].keys)
<1>1. l \in Nat /\ r \in Nat /\ r >= 2
  BY NeighborHasMore
<1>2. Pair(tree, g, p, k_prime_index, at, right)
  BY DEF Joining
<1>3. Returns(u)
  OBVIOUS
<1>4. Shifted(u, tree, p, at, right, l + 1, r - 1)
  <2>1. CASE tree.node[at].is_leaf
    <3>1. Shifted(u, tree, p, at, right, l + 1, (l + r) - (l + 1))
      BY <1>1, <1>2, <2>1, LeafTakesFromRight
    <3> HIDE DEF u, l, r, p
    <3>2. (l + r) - (l + 1) = r - 1
      BY <1>1
    <3> QED BY <3>1, <3>2
  <2>2. CASE ~tree.node[at].is_leaf
    <3>1. Len(tree.node[right].keys) >= 1
      <4> HIDE DEF u, l, p
      <4>1. r >= 1
        <5> HIDE DEF r
        <5> QED BY <1>1
      <4> QED BY <4>1
    <3>2. Shifted(u, tree, p, at, right, (l + 2) - 1, ((l + r) + 1) - (l + 2))
      BY <1>2, <2>2, <3>1, NodeTakesFromRight
    <3> HIDE DEF u, l, r, p
    <3>3. (l + 2) - 1 = l + 1 /\ ((l + r) + 1) - (l + 2) = r - 1
      BY <1>1
    <3> QED BY <3>2, <3>3
  <2> QED BY <2>1, <2>2
<1> HIDE DEF u
<1>5. IF at = at THEN l + 1 = Len(tree.node[at].keys) + 1 /\ r - 1 = Len(tree.node[right].keys) - 1
      ELSE l + 1 = Len(tree.node[at].keys) - 1 /\ r - 1 = Len(tree.node[right].keys) + 1
  OBVIOUS
<1> QED BY <1>3, <1>4, <1>5, SharedTree

LEMMA TookFromLeft ==
  ASSUME NEW g, NEW left, Joining(g, left, at), ~FitTogether, listed' = listed,
         Returns(TakenFromLeft(tree, at, left, k_prime_index))
  PROVE  BptInv'
<1> DEFINE p == node[at].parent
           u == TakenFromLeft(tree, at, left, k_prime_index)
           l == Len(tree.node[left].keys)
           r == Len(tree.node[at].keys)
<1>1. l \in Nat /\ r \in Nat /\ l >= 2
  BY NeighborHasMore
<1>2. Pair(tree, g, p, k_prime_index, left, at)
  BY DEF Joining
<1>3. Returns(u)
  OBVIOUS
<1>4. Shifted(u, tree, p, left, at, l - 1, r + 1)
  <2>1. CASE tree.node[left].is_leaf
    <3>1. Shifted(u, tree, p, left, at, l - 1, (l + r) - (l - 1))
      BY <1>1, <1>2, <2>1, LeafTakesFromLeft
    <3> HIDE DEF u, l, r, p
    <3>2. (l + r) - (l - 1) = r + 1
      BY <1>1
    <3> QED BY <3>1, <3>2
  <2>2. CASE ~tree.node[left].is_leaf
    <3>1. Len(tree.node[left].keys) >= 1
      <4> HIDE DEF u, r, p
      <4>1. l >= 1
        <5> HIDE DEF l
        <5> QED BY <1>1
      <4> QED BY <4>1
    <3>2. Shifted(u, tree, p, left, at, l - 1, ((l + r) + 1) - l)
      BY <1>2, <2>2, <3>1, NodeTakesFromLeft
    <3> HIDE DEF u, l, r, p
    <3>3. ((l + r) + 1) - l = r + 1
      BY <1>1
    <3> QED BY <3>2, <3>3
  <2> QED BY <2>1, <2>2
<1>5. left # at
  <2>1. Paired(tree, p, k_prime_index, left, at)
    BY <1>2, PairOfNodes
  <2> QED BY <2>1 DEF Paired
<1> HIDE DEF u
<1>6. IF left = at THEN l - 1 = Len(tree.node[left].keys) + 1 /\ r + 1 = Len(tree.node[at].keys) - 1
      ELSE l - 1 = Len(tree.node[left].keys) - 1 /\ r + 1 = Len(tree.node[at].keys) + 1
  BY <1>5
<1> QED BY <1>3, <1>4, <1>6, SharedTree

LEMMA NodesRedistributed ==
  ASSUME BptInv, Redistribute
  PROVE  BptInv'
<1>1. op = "delete" /\ ~FitTogether /\ listed' = listed
  BY DEF Redistribute
<1>2. CASE leftmost
  <2>1. PICK g : Joining(g, at, neighbor)
    BY <1>1, <1>2, DeletionGoesOn
  <2>2. Returns(TakenFromRight(tree, at, neighbor, k_prime_index))
    BY <1>2 DEF Redistribute
  <2> QED BY <1>1, <2>1, <2>2, TookFromRight
<1>3. CASE ~leftmost
  <2>1. PICK g : Joining(g, neighbor, at)
    BY <1>1, <1>3, DeletionGoesOn
  <2>2. Returns(TakenFromLeft(tree, at, neighbor, k_prime_index))
    BY <1>3 DEF Redistribute
  <2> QED BY <1>1, <2>1, <2>2, TookFromLeft
<1> QED BY <1>2, <1>3

(* Insert, Delete and Destroy_Tree, a level of the tree at a time, keep    *)
(* the invariant: between two calls all nodes have the number of keys they *)
(* should, and within one all but the node insert_into_parent or           *)
(* delete_entry goes on with.                                              *)
THEOREM TreeInvariant == BptSpec => []BptInv
<1>1. BptInit => BptInv
  <2>1. SUFFICES ASSUME BptInit PROVE BptInv
    OBVIOUS
  <2>2. root = Null /\ node = <<>> /\ listed = {} /\ op = "none" /\ at = Null
    BY <2>1 DEF BptInit
  <2>3. DOMAIN tree.node = {}
    BY <2>2, TreeOf
  <2> QED BY <2>2, <2>3, NothingKept DEF BptInv, Empty
<1>2. BptInv /\ [BptNext]_bptVars => BptInv'
  <2>1. SUFFICES ASSUME BptInv, [BptNext]_bptVars PROVE BptInv'
    OBVIOUS
  <2>2. CASE \E k \in Key : InsertFirst(k) \/ InsertMore(k) \/ Delete(k)
    <3>1. PICK k \in Key : InsertFirst(k) \/ InsertMore(k) \/ Delete(k)
      BY <2>2
    <3> QED BY <2>1, <3>1, FirstInserted, MoreInserted, OneDeleted
  <2>3. CASE Split
    BY <2>1, <2>3, NodeSplitUp
  <2>4. CASE Coalesce
    BY <2>1, <2>4, NodesCoalesced
  <2>5. CASE Redistribute
    BY <2>1, <2>5, NodesRedistributed
  <2>6. CASE Destroy_Tree
    BY <2>1, <2>6, TreeDestroyed
  <2>7. CASE UNCHANGED bptVars
    BY <2>1, <2>7 DEF bptVars, BptInv, Empty, Growing, Waiting, tree, KeysOf, Settled, Sized
  <2> QED BY <2>1, <2>2, <2>3, <2>4, <2>5, <2>6, <2>7 DEF BptNext
<1> QED BY <1>1, <1>2, PTL DEF BptSpec

LEMMA NodesOfTree ==
  ASSUME BptInv, op = "none"
  PROVE  /\ root = Null => Nodes = {} /\ Leaves = {} /\ DOMAIN node = {} /\ listed = {}
         /\ root # Null => /\ IsTree(tree) /\ Settled(tree, Null) /\ KeysOf(tree) = listed
                           /\ Nodes = DOMAIN tree.node /\ Leaves = {n \in DOMAIN tree.node : tree.node[n].is_leaf}
<1>1. CASE root = Null
  <2>1. DOMAIN node = {} /\ KeysOf(tree) = {}
    <3>1. DOMAIN tree.node = {} /\ DOMAIN node = {}
      BY <1>1, TreeOf DEF BptInv, Empty
    <3> QED BY <3>1, NothingKept
  <2> QED BY <1>1, <2>1 DEF Nodes, Leaves, BptInv
<1>2. CASE root # Null
  <2>1. IsTree(tree) /\ Settled(tree, Null) /\ KeysOf(tree) = listed
    BY <1>2, CallBegins
  <2>2. Nodes = DOMAIN tree.node
    BY <1>2, <2>1, AllBelow DEF IsTree, Nodes
  <2> QED BY <1>2, <2>1, <2>2, TreeOf DEF Leaves
<1> QED BY <1>1, <1>2

LEMMA LeavesAreLow ==
  ASSUME NEW t, NEW g, Shape(t, g), NEW n \in DOMAIN t.node
  PROVE  t.node[n].is_leaf <=> g[n].ht = 0
BY DEF Shape, Body

LEMMA InvBalanced == BptInv => Balanced
<1> SUFFICES ASSUME BptInv, op = "none"
             PROVE  /\ \A n \in Nodes :
                         /\ Len(node[n].keys) <= order - 1
                         /\ Len(node[n].keys) >= (IF n = root THEN 1 ELSE min_keys(node[n]))
                         /\ Len(node[n].pointers) = Len(node[n].keys) + (IF node[n].is_leaf THEN 0 ELSE 1)
                    /\ root # Null => \E d \in DOMAIN Levels(tree) : Leaves = Levels(tree)[d]
  BY DEF Balanced
<1>1. CASE root = Null
  BY <1>1, NodesOfTree
<1>2. CASE root # Null
  <2>1. /\ IsTree(tree) /\ Settled(tree, Null)
        /\ Nodes = DOMAIN tree.node /\ Leaves = {n \in DOMAIN tree.node : tree.node[n].is_leaf}
    BY <1>2, NodesOfTree
  <2> PICK g : Shape(tree, g)
    BY <2>1 DEF IsTree
  <2>2. Heap(tree) /\ Placed(tree, g)
    BY DEF Shape, Placed
  <2>3. ASSUME NEW n \in DOMAIN tree.node
        PROVE  /\ Len(tree.node[n].keys) <= order - 1
               /\ Len(tree.node[n].keys) >= (IF n = tree.root THEN 1 ELSE min_keys(tree.node[n]))
               /\ Len(tree.node[n].pointers) = Len(tree.node[n].keys) + (IF tree.node[n].is_leaf THEN 0 ELSE 1)
    <3>1. Sized(tree, n)
      BY <2>1, <2>2, NodeFields DEF Settled
    <3>2. Body(tree, g, n) /\ Len(tree.node[n].keys) \in Nat
      BY <2>2, NodeFields DEF Shape
    <3>3. CASE tree.node[n].is_leaf
      <4>1. Len(tree.node[n].pointers) = Len(tree.node[n].keys)
        BY <3>2, <3>3 DEF Body, LeafBody
      <4> QED BY <3>1, <3>2, <3>3, <4>1 DEF Sized
    <3>4. CASE ~tree.node[n].is_leaf
      <4>1. Len(tree.node[n].pointers) = Len(tree.node[n].keys) + 1
        BY <3>2, <3>4 DEF Body, Fenced
      <4> QED BY <3>1, <3>4, <4>1 DEF Sized
    <3> QED BY <3>3, <3>4
  <2>4. \E d \in DOMAIN Levels(tree) : Leaves = Levels(tree)[d]
    <3> DEFINE H == g[tree.root].ht
               steps == Cardinality(DOMAIN tree.node)
    <3>1. /\ DOMAIN Levels(tree) = 0..steps
          /\ \A d \in 0..steps : Levels(tree)[d] = {n \in DOMAIN tree.node : g[n].ht + d = H}
      BY LevelsOf
    <3>2. H \in 0..steps
      <4>1. steps \in Nat /\ H \in Nat /\ H < steps
        BY HeightBound, Heights DEF Shape, RootOK
      <4> HIDE DEF H, steps
      <4> QED BY <4>1
    <3>3. Levels(tree)[H] = {n \in DOMAIN tree.node : g[n].ht + H = H}
      BY <3>1, <3>2
    <3>4. ASSUME NEW n \in DOMAIN tree.node PROVE g[n].ht + H = H <=> tree.node[n].is_leaf
      <4>1. g[n].ht \in Nat /\ H \in Nat
        BY <2>2, PlaceFields DEF Shape, RootOK
      <4>2. tree.node[n].is_leaf <=> g[n].ht = 0
        BY LeavesAreLow
      <4> HIDE DEF H
      <4> QED BY <4>1, <4>2
    <3>5. Levels(tree)[H] = Leaves
      <4> HIDE DEF H
      <4> QED BY <2>1, <3>3, <3>4
    <3> QED BY <3>1, <3>2, <3>5
  <2> QED BY <2>1, <2>3, <2>4, TreeOf
<1> QED BY <1>1, <1>2

LEMMA InvLinks == BptInv => LinksAgree
<1> SUFFICES ASSUME BptInv, op = "none"
             PROVE  /\ DOMAIN node = Nodes
                    /\ \A n \in Nodes \ Leaves : \A c \in ToSet(node[n].pointers) : node[c].parent = n
                    /\ root # Null => node[root].parent = Null
  BY DEF LinksAgree
<1>1. CASE root = Null
  BY <1>1, NodesOfTree
<1>2. CASE root # Null
  <2>1. /\ IsTree(tree)
        /\ Nodes = DOMAIN tree.node /\ Leaves = {n \in DOMAIN tree.node : tree.node[n].is_leaf}
    BY <1>2, NodesOfTree
  <2> PICK g : Shape(tree, g)
    BY <2>1 DEF IsTree
  <2>2. ASSUME NEW n \in Nodes \ Leaves, NEW c \in ToSet(tree.node[n].pointers) PROVE tree.node[c].parent = n
    <3>1. n \in DOMAIN tree.node /\ ~tree.node[n].is_leaf
      BY <2>1
    <3>2. tree.node[n].pointers \in Seq(Int)
      BY <3>1, NodeFields DEF Shape, Placed
    <3>3. PICK i \in 1..Len(tree.node[n].pointers) : tree.node[n].pointers[i] = c
      BY <3>2 DEF ToSet
    <3>4. Hangs(tree, g, n, i)
      BY <3>1 DEF Shape, Body
    <3> QED BY <3>3, <3>4 DEF Hangs
  <2>3. tree.node[tree.root].parent = Null
    BY DEF Shape, RootOK
  <2> QED BY <2>1, <2>2, <2>3, TreeOf
<1> QED BY <1>1, <1>2

LEMMA InvFinds == BptInv => FindsWhatIsListed
<1> SUFFICES ASSUME BptInv, op = "none", NEW k \in Key
             PROVE  Find_Record(tree, k) = (IF k \in listed THEN k ELSE NoRecord)
  BY DEF FindsWhatIsListed
<1>1. CASE root = Null
  BY <1>1, NodesOfTree, NothingFound
<1>2. CASE root # Null
  <2>1. IsTree(tree) /\ KeysOf(tree) = listed
    BY <1>2, NodesOfTree
  <2> QED BY <2>1, RecordFound DEF IsTree
<1> QED BY <1>1, <1>2

\* No range goes beyond that of the root.
LEMMA WithinRoot ==
  ASSUME NEW t, NEW g, Shape(t, g), NEW n \in DOMAIN t.node
  PROVE  g[n].hi <= MaxKey + 1
<1> DEFINE H == g[t.root].ht
           Beyond(d, a) == g[a].ht = H - d /\ ~(g[a].hi <= MaxKey + 1)
           Bad == {d \in 0..H : \E a \in DOMAIN t.node : Beyond(d, a)}
<1>1. H \in Nat
  BY Heights
<1>2. SUFFICES ASSUME ~(g[n].hi <= MaxKey + 1) PROVE FALSE
  OBVIOUS
<1>3. H - g[n].ht \in Bad
  <2>1. H - g[n].ht \in 0..H /\ g[n].ht = H - (H - g[n].ht)
    <3>1. g[n].ht \in Nat /\ g[n].ht <= H
      BY Heights
    <3> HIDE DEF H
    <3> QED BY <1>1, <3>1
  <2> QED BY <1>2, <2>1
<1>4. PICK d \in Bad : \A e \in Bad : d <= e
  <2>1. Bad \in SUBSET Nat /\ Bad # {}
    BY <1>1, <1>3
  <2> HIDE DEF Bad
  <2> QED BY <2>1, LeastExists
<1>5. d \in 0..H
  OBVIOUS
<1>6. PICK a \in DOMAIN t.node : Beyond(d, a)
  OBVIOUS
<1>7. a # t.root
  <2>1. g[t.root].hi = MaxKey + 1 /\ MaxKey + 1 \in Int
    BY BptAssumption DEF Shape, RootOK
  <2> QED BY <1>6, <2>1
<1> DEFINE p == t.node[a].parent
<1>8. p \in DOMAIN t.node /\ g[p].ht = g[a].ht + 1 /\ g[a].hi <= g[p].hi
  BY <1>7, Above
<1>9. g[a].hi \in Int /\ g[p].hi \in Int /\ g[a].ht \in Nat /\ g[p].ht \in Nat /\ g[p].ht <= H /\ MaxKey + 1 \in Int
  BY <1>8, PlaceFields, Heights, BptAssumption DEF Shape
<1> HIDE DEF p, H
<1>10. d - 1 \in 0..H /\ Beyond(d - 1, p) /\ ~(d <= d - 1)
  BY <1>1, <1>5, <1>6, <1>8, <1>9
<1>11. d - 1 \in Bad
  BY <1>8, <1>10
<1> HIDE DEF Bad
<1> QED BY <1>4, <1>10, <1>11

\* The first key of a leaf, which it has and no other leaf has a place for.
LEMMA FirstKeys ==
  ASSUME NEW t, NEW g, Shape(t, g), Settled(t, Null), NEW n \in DOMAIN t.node, t.node[n].is_leaf
  PROVE  LET k == Head(t.node[n].keys)
         IN  /\ k \in Int /\ g[n].lo \in Int /\ g[n].hi \in Int /\ g[n].lo <= k /\ k < g[n].hi /\ k <= MaxKey
             /\ \A m \in DOMAIN t.node : t.node[m].is_leaf /\ g[m].lo <= k /\ k < g[m].hi => m = n
<1> DEFINE s == t.node[n].keys
           k == Head(s)
<1>1. Heap(t) /\ Placed(t, g) /\ s \in Seq(Int) /\ n # Null /\ g[n].lo \in Int /\ g[n].hi \in Int
  BY NodeFields, PlaceFields DEF Shape, Placed
<1>2. s # <<>> /\ k \in Int /\ Len(s) >= 1
  <2>1. Sized(t, n)
    BY <1>1 DEF Settled
  <2> QED BY <1>1, <2>1, NotEmpty
<1>3. k = s[1] /\ 1 \in 1..Len(s)
  <2> HIDE DEF s
  <2> QED BY <1>1, <1>2
<1>4. g[n].lo <= k /\ k < g[n].hi
  <2>1. LeafBody(t.node[n], g[n])
    BY DEF Shape, Body
  <2>2. \A i \in 1..Len(s) : g[n].lo <= s[i] /\ s[i] < g[n].hi
    BY <2>1 DEF LeafBody
  <2> QED BY <1>3, <2>2
<1>5. g[n].hi <= MaxKey + 1
  BY WithinRoot
<1>6. k <= MaxKey
  <2> HIDE DEF k
  <2> QED BY <1>1, <1>2, <1>4, <1>5, BptAssumption
<1> HIDE DEF k
<1>7. ASSUME NEW m \in DOMAIN t.node, t.node[m].is_leaf, g[m].lo <= k, k < g[m].hi PROVE m = n
  <2>1. g[m].ht = 0 /\ g[n].ht = 0
    BY <1>7, LeavesAreLow
  <2> QED BY <1>2, <1>4, <1>7, <2>1, SamePlace
<1> QED BY <1>1, <1>2, <1>4, <1>6, <1>7 DEF k

LEMMA NextLeaf ==
  ASSUME NEW t, NEW g, Shape(t, g), Settled(t, Null), NEW n \in DOMAIN t.node, t.node[n].is_leaf
  PROVE  LET leaves == {m \in DOMAIN t.node : t.node[m].is_leaf}
             later == {m \in leaves : Head(t.node[m].keys) > Head(t.node[n].keys)}
         IN  t.node[n].next = (IF later = {} THEN Null
                               ELSE CHOOSE m \in later : \A x \in later : Head(t.node[m].keys) <= Head(t.node[x].keys))
<1> DEFINE L == {m \in DOMAIN t.node : t.node[m].is_leaf}
           k(m) == Head(t.node[m].keys)
           later == {m \in L : k(m) > k(n)}
           c == t.node[n].next
<1>1. ASSUME NEW m \in L
      PROVE  /\ k(m) \in Int /\ g[m].lo \in Int /\ g[m].hi \in Int /\ g[m].lo <= k(m) /\ k(m) < g[m].hi /\ k(m) <= MaxKey
             /\ \A x \in L : g[x].lo <= k(m) /\ k(m) < g[x].hi => x = m
  BY FirstKeys
<1>2. Link(t, g, n)
  BY DEF Shape, Body
<1>3. n \in L
  OBVIOUS
<1> HIDE DEF k
<1>4. ASSUME NEW m \in later PROVE g[n].hi <= k(m)
  <2>1. m \in L /\ k(m) > k(n)
    OBVIOUS
  <2>2. ~(k(m) < g[n].hi)
    <3>1. SUFFICES ASSUME k(m) < g[n].hi PROVE FALSE
      OBVIOUS
    <3>2. g[n].lo <= k(m)
      BY <1>1, <1>3, <2>1
    <3>3. n = m
      BY <1>1, <1>3, <2>1, <3>1, <3>2
    <3> QED BY <1>1, <1>3, <2>1, <3>3
  <2> QED BY <1>1, <1>3, <2>1, <2>2
<1>5. CASE c = Null
  <2>1. g[n].hi = MaxKey + 1
    BY <1>2, <1>5 DEF Link
  <2>2. later = {}
    <3>1. SUFFICES ASSUME NEW m \in later PROVE FALSE
      OBVIOUS
    <3>2. k(m) \in Int /\ k(m) <= MaxKey /\ g[n].hi <= k(m)
      BY <1>1, <1>4
    <3> QED BY <2>1, <3>2, BptAssumption
  <2> QED BY <1>5, <2>2 DEF k
<1>6. CASE c # Null
  <2>1. c \in L /\ g[c].lo = g[n].hi
    BY <1>2, <1>6 DEF Link
  <2> HIDE DEF c
  <2>2. c \in later
    BY <1>1, <1>3, <2>1
  <2>3. ASSUME NEW x \in later PROVE k(c) <= k(x) /\ (k(x) <= k(c) => x = c)
    <3>1. x \in L /\ g[n].hi <= k(x) /\ k(x) \in Int /\ k(c) \in Int /\ g[c].lo <= k(c) /\ k(c) < g[c].hi /\ g[c].hi \in Int
      BY <1>1, <1>4, <2>1
    <3>2. k(x) <= k(c) => x = c
      <4>1. SUFFICES ASSUME k(x) <= k(c) PROVE x = c
        OBVIOUS
      <4>2. g[c].lo <= k(x) /\ k(x) < g[c].hi
        BY <2>1, <3>1, <4>1
      <4> QED BY <1>1, <2>1, <3>1, <4>2
    <3> QED BY <3>1, <3>2
  <2> HIDE DEF later
  <2>4. (CHOOSE m \in later : \A x \in later : k(m) <= k(x)) = c
    <3>1. \A x \in later : k(c) <= k(x)
      BY <2>3
    <3>2. \A m \in later : (\A x \in later : k(m) <= k(x)) => m = c
      BY <2>2, <2>3
    <3> QED BY <2>2, <3>1, <3>2
  <2>5. later # {}
    BY <2>2
  <2> QED BY <2>4, <2>5 DEF k, c, later
<1> QED BY <1>5, <1>6

LEMMA InvInOrder == BptInv => LeavesInOrder
<1> SUFFICES ASSUME BptInv, op = "none", NEW n \in Leaves
             PROVE  LET later == {m \in Leaves : Head(node[m].keys) > Head(node[n].keys)}
                    IN  node[n].next = (IF later = {} THEN Null
                                        ELSE CHOOSE m \in later :
                                               \A x \in later : Head(node[m].keys) <= Head(node[x].keys))
  BY DEF LeavesInOrder
<1>1. root # Null
  BY NodesOfTree
<1>2. IsTree(tree) /\ Settled(tree, Null) /\ Leaves = {m \in DOMAIN tree.node : tree.node[m].is_leaf}
  BY <1>1, NodesOfTree
<1> PICK g : Shape(tree, g)
  BY <1>2 DEF IsTree
<1>3. n \in DOMAIN tree.node /\ tree.node[n].is_leaf
  BY <1>2
<1>4. LET later == {m \in {x \in DOMAIN tree.node : tree.node[x].is_leaf} :
                      Head(tree.node[m].keys) > Head(tree.node[n].keys)}
      IN  tree.node[n].next = (IF later = {} THEN Null
                               ELSE CHOOSE m \in later : \A x \in later : Head(tree.node[m].keys) <= Head(tree.node[x].keys))
  BY <1>2, <1>3, NextLeaf
<1> QED BY <1>2, <1>4, TreeOf

(* Whatever is inserted and deleted, in whatever order, the leaves stay at *)
(* one level, and between two calls the numbers of keys of all nodes are   *)
(* within the limits that cut of the order sets.                           *)
THEOREM StaysBalanced == BptSpec => []Balanced
BY TreeInvariant, InvBalanced, PTL

(* When a call returns, however many nodes it has split, merged or evened  *)
(* out, each child names the node that points to it as its parent, the     *)
(* root names none, and no node is kept that the root does not lead to.    *)
THEOREM LinksAlwaysAgree == BptSpec => []LinksAgree
BY TreeInvariant, InvLinks, PTL

(* When a call returns, each leaf is linked to the leaf with the next      *)
(* keys: a leaf that is split or merged is linked again where it was.      *)
THEOREM LeavesStayInOrder == BptSpec => []LeavesInOrder
BY TreeInvariant, InvInOrder, PTL

(* When a call returns, Find_Record finds the records of exactly the keys  *)
(* inserted and not deleted since, whatever was rearranged in between.     *)
THEOREM AlwaysFindsWhatIsListed == BptSpec => []FindsWhatIsListed
BY TreeInvariant, InvFinds, PTL
=============================================================================
