------------------------------- MODULE BPTree -------------------------------
(***************************************************************************)
(* The B+ tree of bpt_find.c, bpt_insert.c, bpt_delete.c and bpt_util.c,   *)
(* which the policies keep the blocks of the pool in.  Nodes are entries   *)
(* of a heap; a node has its keys and pointers, a pointer to its parent    *)
(* and, in a leaf, one to the leaf to its right.  The record of key k is   *)
(* named k.  num_keys is the length of keys.                               *)
(*                                                                         *)
(* A call of Insert or Delete changes a leaf and, if that has become too   *)
(* large or too small, goes up the tree, a level a step.  Calls follow     *)
(* each other: the read/write thread makes them, and a stop destroys the   *)
(* tree; what happens when the two meet is in StartStop.  An operator      *)
(* works on a tree t = [root, node] and returns the tree it leaves behind, *)
(* as the C functions return the root.                                     *)
(***************************************************************************)
EXTENDS Integers, FiniteSets, SequencesExt

CONSTANTS
  MinKey, MaxKey,  \* the range of a KEY_T
  order            \* pointers of a node; 128 in bpt.h

ASSUME BptAssumption == MinKey \in Int /\ MaxKey \in Int /\ order \in Nat /\ order >= 3

Key == MinKey..MaxKey

VARIABLES
  root,    \* the root, or Null
  node,    \* the allocated nodes
  listed,  \* the blocks of the list the pool keeps beside the tree
  op,      \* the call that is being made, if any,
  at       \* and the node it has made too large or too small

bptVars == <<root, node, listed, op, at>>
Null == 0
NoRecord == MinKey - 1  \* NULL where a record is looked for
tree == [root |-> root, node |-> node]

CUT(length) == IF length % 2 = 0 THEN length \div 2 ELSE length \div 2 + 1

-----------------------------------------------------------------------------
(* bpt_find.c                                                              *)

\* The first of some positions of s, or the one after the last.
First(positions, s) == Min(positions \cup {Len(s) + 1})
Position(s, x) == First({i \in DOMAIN s : s[i] = x}, s)

\* The child of n to go on with.
Child(n, k) == n.pointers[First({i \in DOMAIN n.keys : k < n.keys[i]}, n.keys)]

\* A way down has no more steps than the tree has nodes.
Find_Leaf(t, k) ==
  LET steps == Cardinality(DOMAIN t.node)
      way[i \in 0..steps] ==
        IF i = 0 THEN t.root
        ELSE LET c == way[i - 1] IN IF t.node[c].is_leaf THEN c ELSE Child(t.node[c], k)
  IN  IF t.root = Null THEN Null ELSE way[steps]

Find_Record(t, k) ==
  LET c == Find_Leaf(t, k)
  IN  IF c = Null \/ k \notin ToSet(t.node[c].keys) THEN NoRecord
      ELSE t.node[c].pointers[Position(t.node[c].keys, k)]

-----------------------------------------------------------------------------
(* bpt_insert.c                                                            *)

\* Make_Node: any node not in use.
NewNode(t) == Min((1..(Cardinality(DOMAIN t.node) + 1)) \ DOMAIN t.node)

\* t with x as the node n.
With(t, n, x) ==
  [t EXCEPT !.node = [m \in {n} \cup DOMAIN t.node |-> IF m = n THEN x ELSE t.node[m]]]

\* t with n as the parent of the nodes cs.
Adopt(t, n, cs) ==
  [t EXCEPT !.node = [c \in DOMAIN t.node |->
                       IF c \in cs THEN [t.node[c] EXCEPT !.parent = n] ELSE t.node[c]]]

insert_into_new_root(t, left, k, right) ==
  LET n == NewNode(t)
      r == [is_leaf |-> FALSE, keys |-> <<k>>, pointers |-> <<left, right>>,
            parent |-> Null, next |-> Null]
  IN  Adopt([With(t, n, r) EXCEPT !.root = n], n, {left, right})

\* Slip: the children that went to the new node keep their parent.
SplitNodeUnadopted(t, old) ==
  LET split == CUT(order)
      n == t.node[old]
      new == [n EXCEPT !.keys = SubSeq(@, split + 1, order), !.pointers = SubSeq(@, split + 1, order + 1)]
  IN  With(With(t, NewNode(t), new),
           old, [n EXCEPT !.keys = SubSeq(@, 1, split - 1), !.pointers = SubSeq(@, 1, split)])

\* The node old, with one key and pointer too many, and a new one that takes half of them.
SplitNode(t, old) ==
  LET split == CUT(order)
      n == t.node[old]
      new == NewNode(t)
      moved == SubSeq(n.pointers, split + 1, order + 1)
  IN  Adopt(With(With(t, new, [n EXCEPT !.keys = SubSeq(@, split + 1, order), !.pointers = moved]),
                 old, [n EXCEPT !.keys = SubSeq(@, 1, split - 1), !.pointers = SubSeq(@, 1, split)]),
            new, ToSet(moved))

\* The new key and the node right come after the child left.
insert_into_node(t, n, left, k, right) ==
  LET left_index == Position(t.node[n].pointers, left)
  IN  With(t, n, [t.node[n] EXCEPT !.keys = InsertAt(@, left_index, k),
                                   !.pointers = InsertAt(@, left_index + 1, right)])

\* Slip: the leaf that was split is not linked to its new neighbour.
SplitLeafUnlinked(t, leaf) ==
  LET split == CUT(order - 1)
      n == t.node[leaf]
      new == [n EXCEPT !.keys = SubSeq(@, split + 1, order), !.pointers = SubSeq(@, split + 1, order)]
  IN  With(With(t, NewNode(t), new),
           leaf, [n EXCEPT !.keys = SubSeq(@, 1, split), !.pointers = SubSeq(@, 1, split)])

SplitLeaf(t, leaf) ==
  LET split == CUT(order - 1)
      n == t.node[leaf]
      new == [n EXCEPT !.keys = SubSeq(@, split + 1, order), !.pointers = SubSeq(@, split + 1, order)]
  IN  With(With(t, NewNode(t), new),
           leaf, [n EXCEPT !.keys = SubSeq(@, 1, split), !.pointers = SubSeq(@, 1, split), !.next = NewNode(t)])

start_new_tree(t, k, r) ==
  LET n == NewNode(t)
      leaf == [is_leaf |-> TRUE, keys |-> <<k>>, pointers |-> <<r>>, parent |-> Null, next |-> Null]
  IN  [With(t, n, leaf) EXCEPT !.root = n]

insert_into_leaf(t, leaf, k, r) ==
  LET i == First({j \in DOMAIN t.node[leaf].keys : t.node[leaf].keys[j] >= k}, t.node[leaf].keys)
  IN  With(t, leaf, [t.node[leaf] EXCEPT !.keys = InsertAt(@, i, k), !.pointers = InsertAt(@, i, r)])

-----------------------------------------------------------------------------
(* bpt_delete.c                                                            *)

Freed(t, n) == [t EXCEPT !.node = [m \in DOMAIN t.node \ {n} |-> t.node[m]]]

remove_entry_from_node(t, n, k, p) ==
  With(t, n, [t.node[n] EXCEPT !.keys = RemoveAt(@, Position(@, k)),
                               !.pointers = RemoveAt(@, Position(@, p))])

\* The empty root is freed; the only child it may have becomes the root.
adjust_root(t) ==
  LET r == t.node[t.root]
  IN  IF r.keys # <<>> THEN t
      ELSE IF r.is_leaf THEN [Freed(t, t.root) EXCEPT !.root = Null]
      ELSE [Freed(Adopt(t, Null, {r.pointers[1]}), t.root) EXCEPT !.root = r.pointers[1]]

\* The entries of right are appended to left, with the key k between them in an inner node.
Coalesced(t, left, right, k) ==
  LET l == t.node[left]
      r == t.node[right]
  IN  IF l.is_leaf
      THEN With(t, left, [l EXCEPT !.keys = @ \o r.keys, !.pointers = @ \o r.pointers,
                                   !.next = r.next])
      ELSE Adopt(With(t, left, [l EXCEPT !.keys = @ \o <<k>> \o r.keys,
                                         !.pointers = @ \o r.pointers]),
                 left, ToSet(r.pointers))

\* The nodes n, its neighbour m and their parent p are written.
Lent(t, n, x, m, y, p, z) == With(With(With(t, n, x), m, y), p, z)

\* redistribute_nodes: n takes the last entry of its neighbour to the left,
TakenFromLeft(t, n, left, ki) ==
  LET p == t.node[n].parent
      l == t.node[left]
      k == IF l.is_leaf THEN Last(l.keys) ELSE t.node[p].keys[ki]
      moved == Lent(t, n, [t.node[n] EXCEPT !.keys = <<k>> \o @, !.pointers = <<Last(l.pointers)>> \o @],
                    left, [l EXCEPT !.keys = Front(@), !.pointers = Front(@)],
                    p, [t.node[p] EXCEPT !.keys[ki] = Last(l.keys)])
  IN  IF l.is_leaf THEN moved ELSE Adopt(moved, n, {Last(l.pointers)})

\* Slip: the parent is given the key that was moved, not the first one that stayed.
TakenFromRightOldKey(t, n, right, ki) ==
  LET p == t.node[n].parent
      r == t.node[right]
      k == IF r.is_leaf THEN Head(r.keys) ELSE t.node[p].keys[ki]
      moved == Lent(t, n, [t.node[n] EXCEPT !.keys = Append(@, k), !.pointers = Append(@, Head(r.pointers))],
                    right, [r EXCEPT !.keys = Tail(@), !.pointers = Tail(@)],
                    p, [t.node[p] EXCEPT !.keys[ki] = Head(r.keys)])
  IN  IF r.is_leaf THEN moved ELSE Adopt(moved, n, {Head(r.pointers)})

\* or, being the leftmost child, the first one of its neighbour to the right.
TakenFromRight(t, n, right, ki) ==
  LET p == t.node[n].parent
      r == t.node[right]
      k == IF r.is_leaf THEN Head(r.keys) ELSE t.node[p].keys[ki]
      moved == Lent(t, n, [t.node[n] EXCEPT !.keys = Append(@, k), !.pointers = Append(@, Head(r.pointers))],
                    right, [r EXCEPT !.keys = Tail(@), !.pointers = Tail(@)],
                    p, [t.node[p] EXCEPT !.keys[ki] = IF r.is_leaf THEN r.keys[2] ELSE Head(r.keys)])
  IN  IF r.is_leaf THEN moved ELSE Adopt(moved, n, {Head(r.pointers)})

min_keys(n) == IF n.is_leaf THEN CUT(order - 1) ELSE CUT(order) - 1

\* Slip: an inner node is given as much room as a leaf, one key too many with the one between.
capacityForLeaf(n) == order

\* The number of keys two neighbours must stay below to be put into one node.
capacity(n) == IF n.is_leaf THEN order ELSE order - 1

\* destroy_tree_nodes frees the nodes found from the root, level by level.
Levels(t) ==
  LET level[d \in 0..Cardinality(DOMAIN t.node)] ==
        IF d = 0 THEN {t.root}
        ELSE UNION {ToSet(t.node[n].pointers) : n \in {m \in level[d - 1] : ~t.node[m].is_leaf}}
  IN  level

Below(t) == UNION {Levels(t)[d] : d \in DOMAIN Levels(t)}

Destroyed(t) ==
  IF t.root = Null THEN t
  ELSE [root |-> Null, node |-> [n \in DOMAIN t.node \ Below(t) |-> t.node[n]]]

-----------------------------------------------------------------------------
BptInit == root = Null /\ node = <<>> /\ listed = {} /\ op = "none" /\ at = Null

(* The call returns a tree.  The allocator's choice of addresses says      *)
(* nothing: nodes are renamed by their rank, inner ones first, then by     *)
(* their first keys, as long as that tells them apart.                     *)
Rank(t) ==
  [n \in DOMAIN t.node |->
    Cardinality({m \in DOMAIN t.node :
      \/ ~t.node[m].is_leaf /\ t.node[n].is_leaf
      \/ t.node[m].is_leaf = t.node[n].is_leaf /\ Head(t.node[m].keys) <= Head(t.node[n].keys)})]

Names(t) ==
  [n \in DOMAIN t.node \cup {Null} |->
    IF n = Null THEN Null ELSE IF IsInjective(Rank(t)) THEN Rank(t)[n] ELSE n]

Renamed(t, name) ==
  [root |-> name[t.root],
   node |-> [i \in {name[n] : n \in DOMAIN t.node} |->
     LET n == t.node[CHOOSE n \in DOMAIN t.node : name[n] = i]
     IN  IF n.is_leaf THEN [n EXCEPT !.parent = name[@], !.next = name[@]]
         ELSE [n EXCEPT !.parent = name[@], !.pointers = [p \in DOMAIN @ |-> name[@[p]]]]]]

Returns(result) ==
  /\ \E t \in {result} : \E name \in {Names(t)} : \E new \in {Renamed(t, name)} :
       root' = new.root /\ node' = new.node
  /\ op' = "none" /\ at' = Null

GoesOn(t, what, n) == root' = t.root /\ node' = t.node /\ op' = what /\ at' = n

\* The node n has one key more: it fits, or n is to be split.
Grown(result, n) ==
  \E t \in {result} :
    IF Len(t.node[n].keys) < order THEN Returns(t) ELSE GoesOn(t, "insert", n)

\* The node n has one key less: there are enough of them, or it needs some of a neighbour.
Shrunk(result, n) ==
  \E t \in {result} :
    IF n = t.root THEN Returns(adjust_root(t))
    ELSE IF Len(t.node[n].keys) >= min_keys(t.node[n]) THEN Returns(t)
    ELSE GoesOn(t, "delete", n)

\* Insert(root, k, r); what is in the tree already is ignored.
InsertFirst(k) ==
  /\ op = "none" /\ root = Null
  /\ Returns(start_new_tree(tree, k, k))
  /\ listed' = listed \cup {k}

InsertMore(k) ==
  /\ op = "none" /\ root # Null /\ Find_Record(tree, k) = NoRecord
  /\ \E leaf \in {Find_Leaf(tree, k)} : Grown(insert_into_leaf(tree, leaf, k, k), leaf)
  /\ listed' = listed \cup {k}

\* ..._after_splitting and insert_into_parent: half of the node goes to a new one, its neighbour.
Split ==
  LET n == node[at]
      right == NewNode(tree)
      k == IF n.is_leaf THEN n.keys[CUT(order - 1) + 1] ELSE n.keys[CUT(order)]
      t == IF n.is_leaf THEN SplitLeaf(tree, at) ELSE SplitNode(tree, at)
  IN  /\ op = "insert"
      /\ IF n.parent = Null THEN Returns(insert_into_new_root(t, at, k, right))
         ELSE Grown(insert_into_node(t, n.parent, at, k, right), n.parent)
      /\ UNCHANGED listed

Delete(k) ==
  /\ op = "none" /\ Find_Record(tree, k) # NoRecord
  /\ \E leaf \in {Find_Leaf(tree, k)} :
       Shrunk(remove_entry_from_node(tree, leaf, k, Find_Record(tree, k)), leaf)
  /\ listed' = listed \ {k}

\* The rest of delete_entry for a node with too few keys.
parent == node[node[at].parent]
child_index == Position(parent.pointers, at)
leftmost == child_index = 1
k_prime_index == IF leftmost THEN 1 ELSE child_index - 1
neighbor == parent.pointers[IF leftmost THEN 2 ELSE child_index - 1]
FitTogether == Len(node[neighbor].keys) + Len(node[at].keys) < capacity(node[at])

\* coalesce_nodes, up to the removal of the entry of the right one, which is freed.
Coalesce ==
  LET left == IF leftmost THEN at ELSE neighbor
      right == IF leftmost THEN neighbor ELSE at
      k_prime == parent.keys[k_prime_index]
      t == Coalesced(tree, left, right, k_prime)
  IN  /\ op = "delete" /\ FitTogether
      /\ Shrunk(Freed(remove_entry_from_node(t, node[at].parent, k_prime, right), right), node[at].parent)
      /\ UNCHANGED listed

Redistribute ==
  /\ op = "delete" /\ ~FitTogether
  /\ Returns(IF leftmost THEN TakenFromRight(tree, at, neighbor, k_prime_index)
                         ELSE TakenFromLeft(tree, at, neighbor, k_prime_index))
  /\ UNCHANGED listed

Destroy_Tree ==
  /\ op = "none"
  /\ Returns(Destroyed(tree))
  /\ listed' = {}

BptNext ==
  \/ \E k \in Key : InsertFirst(k) \/ InsertMore(k) \/ Delete(k)
  \/ Split \/ Coalesce \/ Redistribute
  \/ Destroy_Tree

BptSpec == BptInit /\ [][BptNext]_bptVars

-----------------------------------------------------------------------------
(* Properties.                                                             *)

Nodes == IF root = Null THEN {} ELSE Below(tree)
Leaves == {n \in Nodes : node[n].is_leaf}

(* Splitting, merging and moving entries up to the root keep the number of  *)
(* keys of a node within what its arrays hold and the minimum bpt_delete.c  *)
(* counts on, and all the leaves at the same depth.                         *)
Balanced ==
  op = "none" =>
    /\ \A n \in Nodes :
         /\ Len(node[n].keys) <= order - 1
         /\ Len(node[n].keys) >= (IF n = root THEN 1 ELSE min_keys(node[n]))
         /\ Len(node[n].pointers) = Len(node[n].keys) + (IF node[n].is_leaf THEN 0 ELSE 1)
    /\ root # Null => \E d \in DOMAIN Levels(tree) : Leaves = Levels(tree)[d]

(* Pointers up and down agree at every node, whichever of them a split or a *)
(* merge moved, and what is not found from the root has been freed.         *)
LinksAgree ==
  op = "none" =>
    /\ DOMAIN node = Nodes
    /\ \A n \in Nodes \ Leaves : \A c \in ToSet(node[n].pointers) : node[c].parent = n
    /\ root # Null => node[root].parent = Null

(* The leaves are linked in the order of their keys.                        *)
LeavesInOrder ==
  op = "none" =>
    \A n \in Leaves :
      LET later == {m \in Leaves : Head(node[m].keys) > Head(node[n].keys)}
      IN  node[n].next = (IF later = {} THEN Null
                          ELSE CHOOSE m \in later :
                                 \A x \in later : Head(node[m].keys) <= Head(node[x].keys))

(* The tree finds a block by its index as long as the pool has it in its    *)
(* list, and finds nothing else, through any rearrangement.                 *)
FindsWhatIsListed ==
  op = "none" => \A k \in Key : Find_Record(tree, k) = (IF k \in listed THEN k ELSE NoRecord)
=============================================================================
