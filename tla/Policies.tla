------------------------------ MODULE Policies ------------------------------
(***************************************************************************)
(* The replacement policies of Cache_OCP.c, Cache_SLRU.c and Cache_LRU.c,  *)
(* one of which is compiled in (Cache.h:8-10).                             *)
(*                                                                         *)
(* All of them enter new blocks into a list, here low, and replace in it   *)
(* the last block that is not marked Modified.  LRU has no other list.     *)
(* SLRU moves a block that is used again from its probationary list to a   *)
(* protected one, here high, whose last block comes back.  OCP moves the   *)
(* blocks at the tail of its cold list that were used twice to a hot list, *)
(* high, when the cold one is full, and what the hot list then has too     *)
(* many back.  Each block has a slot of the storage pool (Storage.c).      *)
(*                                                                         *)
(* One action is what CacheCommon.c does for one block of a request.  The  *)
(* write-back queue is seen as the number of marked blocks: a write that   *)
(* finds it full has it emptied first, which clears all the marks.         *)
(***************************************************************************)
EXTENDS Pool, SequencesExt

CONSTANTS
  Block,
  Build    \* [policy, high, queue]: the policy, HotSize or ProtectedSize, WB_QUEUE_NUM_BLOCKS

(* high and low make up the pool, as InitCachePool of each policy divides   *)
(* it; common.h has 12800 blocks in it, half of them in high, and 3000 in   *)
(* the queue.                                                               *)
ASSUME PoliciesAssumption ==
  \A x \in Build :
    /\ x.policy \in {"LRU", "SLRU", "OCP"} /\ x.high \in Nat /\ x.queue \in Nat \ {0}
    /\ x.policy = "LRU" => x.high = 0
    /\ x.policy # "LRU" => x.high > 0
    /\ x.queue < PoolSize - x.high

VARIABLES
  build,     \* how the driver was built; no step changes it
  low,       \* List, ProbationaryList or ColdList, head first
  high,      \* ProtectedList or HotList, head first
  refs,      \* ReferenceCount of the cached blocks, where 2 stands for any more
  slot,      \* StorageIndex of the cached blocks
  hint,      \* HintIndex of the storage pool
  modified   \* blocks with Modified = TRUE

lists == <<low, high>>
polVars == <<build, lists, refs, slot, hint, modified>>

cached == ToSet(low) \cup ToSet(high)
HighSize == build.high
LowSize == PoolSize - build.high
QueueSize == build.queue

PolInit ==
  /\ build \in Build
  /\ low = <<>> /\ high = <<>>
  /\ refs = <<>> /\ slot = <<>> /\ hint = 0
  /\ modified = {}

-----------------------------------------------------------------------------
(* The lists.                                                              *)

\* Slip: the block is entered at the head and not taken out of its place.
PutBeside(list, k) == <<list[k]>> \o list

\* ListMoveToHead of the k-th block.
PutFirst(list, k) == <<list[k]>> \o RemoveAt(list, k)

\* A block of the probationary list is protected, a protected one comes back for it.
Protect(b, k) ==
  IF Len(high) = HighSize
  THEN high' = <<b>> \o Front(high) /\ low' = <<Last(high)>> \o RemoveAt(low, k)
  ELSE high' = <<b>> \o high /\ low' = RemoveAt(low, k)

\* _IncreaseBlockReference
Reference(b) ==
  /\ \/ \E k \in DOMAIN high : high[k] = b /\ high' = PutFirst(high, k) /\ low' = low
     \/ \E k \in DOMAIN low :
          /\ low[k] = b
          /\ \/ build.policy = "SLRU" /\ Protect(b, k)
             \/ build.policy # "SLRU" /\ low' = PutFirst(low, k) /\ high' = high
  /\ refs' = IF build.policy = "OCP" /\ refs[b] < 2 THEN [refs EXCEPT ![b] = @ + 1] ELSE refs

\* StoragePoolAlloc: the first free slot from the hint on, or else from the start.
Free == (0..(PoolSize - 1)) \ {slot[b] : b \in cached}
IsAllocated(s) ==
  /\ s \in Free
  /\ LET later == {f \in Free : f >= hint}
         range == IF later # {} THEN later ELSE Free
     IN  s \in range /\ \A f \in range : s <= f

\* _AddNewBlockToPool, the list being c.
AddNew(b, c) ==
  \E s \in Free :
    /\ IsAllocated(s)
    /\ low' = <<b>> \o c
    /\ slot' = [x \in cached \cup {b} |-> IF x = b THEN s ELSE slot[x]]
    /\ hint' = s

\* OCP: the length of low without the blocks at its tail with ReferenceCount >= 2,
IsStaying(n) ==
  /\ n \in 0..Len(low)
  /\ \A k \in (n + 1)..Len(low) : refs[low[k]] = 2
  /\ n > 0 => refs[low[n]] # 2

\* the blocks that are moved, the hot list with them in it, and what is then too many.
Moved(n) == SubSeq(low, n + 1, Len(low))
HighAfter(n) == Moved(n) \o high

\* Slip: the block that is one too many stays in the hot list.
KeptOneMore(n) == Len(HighAfter(n)) - (IF Len(HighAfter(n)) > HighSize + 1
                                       THEN Len(HighAfter(n)) - HighSize - 1 ELSE 0)

\* How many blocks of the hot list stay in it,
Kept(n) == IF Len(HighAfter(n)) > HighSize THEN HighSize ELSE Len(HighAfter(n))

\* and the lists after the promotion and the demotion.
HighThen(n) == SubSeq(HighAfter(n), 1, Kept(n))
LowThen(n) == SubSeq(HighAfter(n), Kept(n) + 1, Len(HighAfter(n))) \o SubSeq(low, 1, n)
RefsThen(n) == [x \in cached |-> IF x \in ToSet(Moved(n)) THEN 0 ELSE refs[x]]

\* Slip: the block at the tail is the victim, whether it is marked or not.
IsTail(c, k) == k \in DOMAIN c /\ k = Len(c)

\* The victim is the last block of the list c that is not marked.
IsVictim(c, k) ==
  /\ k \in DOMAIN c
  /\ c[k] \notin modified
  /\ \A j \in (k + 1)..Len(c) : c[j] \in modified

\* Block b takes the place and the slot of the k-th block of c; others are referenced as r.
Replace(b, c, k, r) ==
  LET v == c[k]
  IN  /\ low' = <<b>> \o RemoveAt(c, k)
      /\ slot' = [x \in (cached \ {v}) \cup {b} |-> IF x = b THEN slot[v] ELSE slot[x]]
      /\ refs' = [x \in (cached \ {v}) \cup {b} |->
                    IF x # b THEN r[x] ELSE IF build.policy = "OCP" THEN 1 ELSE 0]
      /\ hint' = hint

\* b is new in the pool and not referenced yet; others are referenced as r.
Unreferenced(b, r) == refs' = [x \in cached \cup {b} |-> IF x = b THEN 0 ELSE r[x]]

\* _FindBlockToReplace
FindBlockToReplace(b) ==
  \/ /\ build.policy # "OCP"
     /\ high' = high
     /\ \E k \in DOMAIN low : IsVictim(low, k) /\ Replace(b, low, k, refs)
  \/ /\ build.policy = "OCP"
     /\ \E n \in 0..Len(low) :
          /\ IsStaying(n)
          /\ high' = HighThen(n)
          /\ \/ /\ Len(LowThen(n)) < LowSize
                /\ AddNew(b, LowThen(n)) /\ Unreferenced(b, RefsThen(n))
             \/ /\ ~(Len(LowThen(n)) < LowSize)
                /\ \E k \in DOMAIN LowThen(n) :
                     IsVictim(LowThen(n), k) /\ Replace(b, LowThen(n), k, RefsThen(n))

\* Slip: the high list counts too.
IsFullInAll == Len(low) + Len(high) = PoolSize

\* With LRU, Used == Size is the same: its one list has all the blocks.
IsFull == Len(low) = LowSize

Insert(b) ==
  \/ ~IsFull /\ AddNew(b, low) /\ Unreferenced(b, refs) /\ high' = high
  \/ IsFull /\ FindBlockToReplace(b)

-----------------------------------------------------------------------------
(* What a request does to one of its blocks.                               *)

\* Slip: a write that finds the queue full is queued all the same.
MarkedBeyond(b) == modified \cup {b}

\* The block is marked, after the queue has been emptied if it was full.
Marked(b) ==
  IF Cardinality(modified) = QueueSize THEN {b} ELSE modified \cup {b}

ReadHit(b) ==
  /\ b \in cached
  /\ Reference(b)
  /\ UNCHANGED <<build, slot, hint, modified>>

WriteHit(b) ==
  /\ b \in cached
  /\ Reference(b)
  /\ modified' = Marked(b)
  /\ UNCHANGED <<build, slot, hint>>

ReadInsert(b) ==
  /\ b \notin cached
  /\ Insert(b)
  /\ UNCHANGED <<build, modified>>

WriteInsert(b) ==
  /\ b \notin cached
  /\ Insert(b)
  /\ modified' = Marked(b)
  /\ UNCHANGED build

\* IOCTL_DF_STOP and IOCTL_DF_START: DestroyCachePool, InitCachePool.
Reset ==
  /\ low' = <<>> /\ high' = <<>>
  /\ refs' = <<>> /\ slot' = <<>> /\ hint' = 0
  /\ modified' = {}
  /\ UNCHANGED build

PolNext ==
  \/ \E b \in Block : ReadHit(b) \/ WriteHit(b) \/ ReadInsert(b) \/ WriteInsert(b)
  \/ Reset

PolSpec == PolInit /\ [][PolNext]_polVars

-----------------------------------------------------------------------------
(* Properties.                                                             *)

\* Type invariant; what is known of blocks is known of the cached ones.
PolTypeOK ==
  /\ build \in Build
  /\ low \in Seq(Block) /\ high \in Seq(Block)
  /\ refs \in [cached -> 0..2]
  /\ slot \in [cached -> 0..(PoolSize - 1)]
  /\ hint \in 0..(PoolSize - 1)
  /\ modified \in SUBSET cached

(* Whatever a hit, a promotion, a demotion or a replacement moves from list *)
(* to list, a block is in one place of one list, so that it has one owner   *)
(* to free it and one slot.                                                 *)
EachBlockOnce ==
  LET all == low \o high IN \A i, j \in DOMAIN all : all[i] = all[j] => i = j

(* "The Cold List Will Never Overfull", "Probationary Obviously Not Full":  *)
(* whatever moves back and forth between the lists, both keep their size.   *)
ListsWithinSize == Len(low) <= LowSize /\ Len(high) <= HighSize

(* Two blocks never share a slot, and a slot is left whenever a block is to *)
(* be added, although only one list is compared with its size.              *)
SlotForEveryBlock ==
  /\ \A x, y \in cached : slot[x] = slot[y] => x = y
  /\ ~IsFull \/ (\E n \in 0..Len(low) : IsStaying(n) /\ Len(LowThen(n)) < LowSize) => Free # {}

(* "There always exist Non-Modified Blocks": when the list is full, and the *)
(* promotion of OCP makes no room in it, it has a victim.                   *)
VictimExists ==
  IsFull =>
    IF build.policy # "OCP" THEN \E k \in DOMAIN low : IsVictim(low, k)
    ELSE \E n \in 0..Len(low) :
           IsStaying(n) /\ (Len(LowThen(n)) < LowSize \/ \E k \in DOMAIN LowThen(n) : IsVictim(LowThen(n), k))

(* What WriteBack relies on: a step that changes which blocks are cached    *)
(* adds one block for nothing or for one block that is not marked - unless  *)
(* the pool is destroyed.                                                   *)
GivesUpWhatPoolMay ==
  [][cached' = cached \/ cached' = {}
     \/ \E b \in Block : \E e \in Evictions(cached, modified) :
          cached' = (cached \ e) \cup {b}]_polVars
=============================================================================
