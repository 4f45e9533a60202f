--------------------------- MODULE WriteBackProofs ---------------------------
(***************************************************************************)
(* Proofs about WriteBack for any volume, pool, queue and set of requests. *)
(* What is said of the device's contents is said for the case that every   *)
(* buffer can be mapped (Unmappable = {}), the rest for any.               *)
(***************************************************************************)
EXTENDS WriteBack, FiniteSetTheorems, SequenceTheorems, WellFoundedInduction, TLAPS

-----------------------------------------------------------------------------
(* Data.                                                                   *)

\* Every non-empty set of naturals has a least element.
LEMMA LeastExists ==
  ASSUME NEW S \in SUBSET Nat, S # {}
  PROVE  \E b \in S : \A c \in S : b <= c
<1> DEFINE T == {0..n : n \in S}
<1>1. T \subseteq FiniteSubsetsOf(Nat)
  <2>1. \A n \in S : IsFiniteSet(0..n)
    BY FS_Interval
  <2> QED BY <2>1 DEF FiniteSubsetsOf
<1>2. \E x \in T : \A y \in T : ~(<<y, x>> \in StrictSubsetOrdering(Nat))
  <2>1. T # {} OBVIOUS
  <2> HIDE DEF T
  <2> QED BY <1>1, <2>1, FS_StrictSubsetOrderingWellFounded, WFMin
<1>3. PICK m \in S : \A n \in S : ~(<<0..n, 0..m>> \in StrictSubsetOrdering(Nat))
  BY <1>2
<1>4. ASSUME NEW n \in S PROVE m <= n
  <2>1. SUFFICES ASSUME n < m PROVE FALSE
    OBVIOUS
  <2>2. 0..n \subseteq 0..m /\ 0..n # 0..m
    <3>1. m \in 0..m /\ m \notin 0..n BY <2>1
    <3> QED BY <2>1, <3>1
  <2>3. <<0..n, 0..m>> \in StrictSubsetOrdering(Nat)
    BY <2>2 DEF StrictSubsetOrdering
  <2> QED BY <2>3, <1>3
<1> QED BY <1>4

\* The block being handled is one of those still to be handled.
LEMMA NextBlockInTodo ==
  ASSUME todo \in SUBSET Block, todo # {}
  PROVE  NextBlock \in todo
<1>1. \E b \in todo : \A c \in todo : b <= c
  BY LeastExists, BlockAssumption
<1> QED BY <1>1 DEF NextBlock

\* A partial function is a function from a part of the set.
LEMMA PartialFunction ==
  ASSUME NEW S, NEW T, NEW f
  PROVE  f \in Partial(S, T) <=> DOMAIN f \subseteq S /\ f \in [DOMAIN f -> T]
BY DEF Partial

\* Merging contents gives contents.
LEMMA MergeType ==
  ASSUME NEW old \in Content, NEW new \in Content, NEW ps
  PROVE  Merge(old, new, ps) \in Content
BY DEF Merge, Content

\* What a request stores in a block is contents.
LEMMA RequestParts ==
  ASSUME NEW r \in Request
  PROVE  /\ Blocks(r) \subseteq Block
         /\ \A b \in Block : r.val[b] \in Content
BY RequestAssumption DEF RequestType, Blocks

\* A request that is carried out on the contents of a volume leaves contents.
LEMMA ApplyType ==
  ASSUME NEW r \in Request, NEW c \in [Block -> Content]
  PROVE  Apply(r, c) \in [Block -> Content]
BY MergeType, RequestParts DEF Apply

\* Merging nothing leaves the contents as they are.
LEMMA MergeNone ==
  ASSUME NEW old \in Content, NEW new
  PROVE  Merge(old, new, {}) = old
BY DEF Merge, Content

\* A request of length 0 changes nothing.
LEMMA ApplyNothing ==
  ASSUME NEW r \in Request, NEW c \in [Block -> Content], Blocks(r) = {}
  PROVE  Apply(r, c) = c
<1>1. \A b \in Block : Merge(c[b], r.val[b], r.parts[b]) = c[b]
  BY MergeNone DEF Blocks
<1> QED BY <1>1 DEF Apply

-----------------------------------------------------------------------------
(* The inductive invariant.                                                *)

\* A request packet that waits or is served carries a request, and is in one place.
IrpsInPlace ==
  /\ cur = None <=> rwpc \in {"wait", "pop"}
  /\ cur # None => req[cur] # None
  /\ \A k \in DOMAIN rwList : req[rwList[k]] # None /\ rwList[k] # cur
  /\ \A j, k \in DOMAIN rwList : rwList[j] = rwList[k] => j = k

(* While the read/write thread waits for the write-back thread, the turn is *)
(* at most in one place: an event is set, or the write-back thread is awake *)
(* and neither is.  Otherwise it is nowhere.                                *)
Handshake ==
  /\ wbpc # "wait" => rwpc = "finish" /\ ~wbStart /\ ~wbFinish
  /\ wbStart \/ wbFinish => rwpc = "finish"
  /\ ~(wbStart /\ wbFinish)
  /\ acc # <<>> => wbpc = "flush"

\* The states in which the read/write thread adds a block to the queue.
AddPcs == {"full", "finish", "clear", "lock", "insert"}

\* The block being added is in the pool, and from the clearing of the events on it has room.
Adding ==
  /\ add # "none" <=> rwpc \in AddPcs
  /\ rwpc \in AddPcs => todo # {} /\ NextBlock \in cached
  /\ rwpc \in {"clear", "lock", "insert"} => ~IsFull

\* What was read from the device for a block still to be handled is on the device.
ReadIsCurrent ==
  rwpc = "readUpdate" => \A b \in todo : b \in DOMAIN buf /\ buf[b] = disk[b]

\* The marked blocks are in the pool; each is in the queue once, or about to be.
QueueIsModified ==
  /\ \A j, k \in DOMAIN queue : queue[j] = queue[k] => j = k
  /\ modified = Queued \cup (IF add = "new" THEN {NextBlock} ELSE {})
  /\ add = "new" => NextBlock \notin Queued
  /\ modified \subseteq cached

\* The run being gathered consists of cached blocks as they are.
RunIsCurrent == \A b \in Merged : b \in cached /\ InRun(b) = data[b]

IInv ==
  /\ TypeOK /\ IrpsInPlace /\ Handshake /\ Adding /\ ReadIsCurrent
  /\ QueueIsModified /\ RunIsCurrent
  /\ Unmappable = {} => CleanIsOnDisk

-----------------------------------------------------------------------------
(* Each part of the invariant is preserved by every step.                  *)

LEMMA InitIInv ==
  ASSUME NEW n \in {0, QueueSize}, InitWith(n)
  PROVE  IInv
<1>1. TypeOK
  <2>1. <<>> \in Partial(Block, Content)
    <3>1. <<>> \in [1..0 -> Content]
      BY EmptySeq, LenProperties
    <3>2. DOMAIN <<>> = {} /\ <<>> \in [DOMAIN <<>> -> Content]
      BY <3>1
    <3> QED BY <3>2, PartialFunction
  <2>2. req \in [Irp -> Request \cup {None}] /\ disk \in [Block -> Content]
    BY DEF InitWith
  <2>3. /\ queue \in Seq(Block) /\ rwList \in Seq(Irp) /\ acc \in Seq(Content)
        /\ Len(queue) <= size /\ size \in {0, QueueSize}
    BY SizeAssumption DEF InitWith
  <2> QED BY <2>1, <2>2, <2>3 DEF InitWith, TypeOK, RwPcs, WbPcs
<1>2. IrpsInPlace /\ Handshake /\ Adding /\ ReadIsCurrent
  BY DEF InitWith, IrpsInPlace, Handshake, Adding, ReadIsCurrent, AddPcs
<1>3. QueueIsModified
  BY DEF InitWith, QueueIsModified, Queued, cached
<1>4. RunIsCurrent /\ CleanIsOnDisk
  <2>1. cached = {} /\ Merged = {} BY DEF InitWith, cached, Merged
  <2> QED BY <2>1 DEF RunIsCurrent, CleanIsOnDisk
<1> QED BY <1>1, <1>2, <1>3, <1>4 DEF IInv

\* The actions of which the handshake is made, and those that do not take part in it.
LEMMA HandshakeStep ==
  ASSUME Handshake, [Next]_vars
  PROVE  Handshake'
<1> USE DEF Handshake, eventVars, diskVars, irpVars, rwVars, wbVars
<1>1. CASE Dispatch
  BY <1>1 DEF Dispatch, Submit, Cancel
<1>2. CASE \E i \in Irp : Signal(i)
  BY <1>2 DEF Signal
<1>3. CASE RwRead
  BY <1>3 DEF RwRead, RwReadHit, RwForward, RwForwardFails, RwReadCached, RwReadPlace,
              RwReadSkip, RwReadUpdated, RwCompleteRead, FinishCur, Serving
<1>4. CASE RwWrite
  BY <1>4 DEF RwWrite, RwWriteBegin, RwWriteThrough, RwWriteCached, RwWriteNew, RwWriteReplace,
              RwQueueFull, RwFlushed, RwQueueHasRoom, RwClear, RwLock, RwInsertHit, RwInsertOld,
              RwInsertNew, RwCompleteWrite, FinishCur, Serving
<1>5. CASE RwWake \/ RwPop \/ RwDropCancelled \/ RwListEmpty \/ RwPassDown
  BY <1>5 DEF RwWake, RwPop, RwDropCancelled, RwListEmpty, RwPassDown, FinishCur
<1>6. CASE WbThread
  BY <1>6 DEF WbThread, WbWake, WbCheck, WbLock, WbGather, WbRestart, WbWriteLast,
              WbUnlock, WbSignal
<1>7. CASE UNCHANGED vars
  BY <1>7 DEF vars
<1> QED BY <1>1, <1>2, <1>3, <1>4, <1>5, <1>6, <1>7 DEF Next, RwThread
\* Where packets are, as far as types go.
IrpTypes == rwList \in Seq(Irp) /\ req \in [Irp -> Request \cup {None}] /\ cur \in Irp \cup {None}

\* IrpsInPlace: packets move from the dispatch routine to the list to the thread and back.
LEMMA IrpsStep ==
  ASSUME IrpTypes, IrpsInPlace, [Next]_vars
  PROVE  IrpsInPlace'
<1> USE DEF eventVars, ioctlVars, diskVars, irpVars, rwVars, wbVars
<1>0. /\ rwList \in Seq(Irp) /\ req \in [Irp -> Request \cup {None}] /\ cur \in Irp \cup {None}
      /\ None \notin Irp /\ None \notin Request
  BY IrpAssumption DEF IrpTypes
<1>1. ASSUME NEW i \in Irp, NEW r \in Request, Submit(i, r) PROVE IrpsInPlace'
  <2>1. /\ req' = [req EXCEPT ![i] = r] /\ rwList' = Append(rwList, i)
        /\ req[i] = None /\ UNCHANGED <<cur, rwpc>>
    BY <1>1 DEF Submit
  <2>2. r # None
    BY <1>0
  <2>3. \A k \in DOMAIN rwList : rwList[k] # i /\ rwList[k] \in Irp
    BY <2>1, <1>0 DEF IrpsInPlace
  <2>4. cur # i
    BY <2>1, <1>0 DEF IrpsInPlace
  <2>5. \A k \in DOMAIN rwList' : IF k \in DOMAIN rwList THEN rwList'[k] = rwList[k]
                                  ELSE k = Len(rwList) + 1 /\ rwList'[k] = i
    BY <2>1, <1>0
  <2>6. req'[i] = r /\ \A x \in Irp \ {i} : req'[x] = req[x]
    BY <2>1, <1>0
  <2>7. \A k \in DOMAIN rwList' : req'[rwList'[k]] # None /\ rwList'[k] # cur
    BY <2>2, <2>3, <2>4, <2>5, <2>6 DEF IrpsInPlace
  <2>8. \A j, k \in DOMAIN rwList' : rwList'[j] = rwList'[k] => j = k
    BY <2>3, <2>5 DEF IrpsInPlace
  <2>9. cur # None => req'[cur] # None
    BY <2>4, <2>6, <1>0 DEF IrpsInPlace
  <2> QED BY <2>1, <2>7, <2>8, <2>9 DEF IrpsInPlace
<1>2. CASE UNCHANGED <<cur, rwpc, rwList, req>>
  BY <1>2 DEF IrpsInPlace
<1>3. CASE UNCHANGED <<cur, rwList, req>> /\ ((rwpc \in {"wait", "pop"}) <=> (rwpc' \in {"wait", "pop"}))
  BY <1>3 DEF IrpsInPlace
<1>4. ASSUME FinishCur, rwList' = rwList, cur # None PROVE IrpsInPlace'
  <2>1. /\ req' = [req EXCEPT ![cur] = None] /\ cur' = None /\ rwpc' = "pop"
    BY <1>4 DEF FinishCur
  <2> QED BY <2>1, <1>0, <1>4 DEF IrpsInPlace
<1>5. CASE RwPop \/ RwDropCancelled
  <2>1. rwList # <<>> /\ rwList' = Tail(rwList) /\ req' = req
    BY <1>5 DEF RwPop, RwDropCancelled
  <2>2. \A k \in DOMAIN rwList' : k + 1 \in DOMAIN rwList /\ rwList'[k] = rwList[k + 1]
    BY <2>1, <1>0
  <2>3. /\ \A k \in DOMAIN rwList' : req'[rwList'[k]] # None
        /\ \A j, k \in DOMAIN rwList' : rwList'[j] = rwList'[k] => j = k
    <3>1. \A j, k \in DOMAIN rwList' : j + 1 = k + 1 => j = k
      BY <2>1, <1>0
    <3> QED BY <2>1, <2>2, <3>1 DEF IrpsInPlace
  <2>4. CASE RwPop
    <3>1. rwpc' = "serve" /\ cur' = rwList[1] /\ 1 \in DOMAIN rwList
      BY <2>4, <1>0 DEF RwPop
    <3>2. \A k \in DOMAIN rwList' : k + 1 # 1
      BY <2>1, <1>0
    <3>3. \A k \in DOMAIN rwList' : rwList'[k] # cur'
      BY <2>2, <3>1, <3>2 DEF IrpsInPlace
    <3>4. cur' # None /\ req'[cur'] # None
      BY <3>1, <2>1, <1>0 DEF IrpsInPlace
    <3> QED BY <2>3, <3>1, <3>3, <3>4 DEF IrpsInPlace
  <2>5. CASE RwDropCancelled
    <3>1. UNCHANGED <<rwpc, cur>>
      BY <2>5 DEF RwDropCancelled
    <3>2. \A k \in DOMAIN rwList' : rwList'[k] # cur'
      BY <2>2, <3>1 DEF IrpsInPlace
    <3>3. cur' # None => req'[cur'] # None
      BY <2>1, <3>1 DEF IrpsInPlace
    <3>4. cur' = None <=> rwpc' \in {"wait", "pop"}
      BY <3>1 DEF IrpsInPlace
    <3> QED BY <2>3, <3>2, <3>3, <3>4 DEF IrpsInPlace
  <2> QED BY <1>5, <2>4, <2>5
<1>6. CASE RwRead
  BY <1>3, <1>4, <1>6 DEF RwRead, RwReadHit, RwForward, RwForwardFails, RwReadCached, RwReadPlace,
     RwReadSkip, RwReadUpdated, RwCompleteRead, Serving, IrpsInPlace
<1>7. CASE RwWrite
  BY <1>3, <1>4, <1>7 DEF RwWrite, RwWriteBegin, RwWriteThrough, RwWriteCached, RwWriteNew,
     RwWriteReplace, RwQueueFull, RwFlushed, RwQueueHasRoom, RwClear, RwLock, RwInsertHit,
     RwInsertOld, RwInsertNew, RwCompleteWrite, Serving, IrpsInPlace
<1>8. CASE RwWake \/ RwListEmpty \/ RwPassDown
  BY <1>3, <1>4, <1>8 DEF RwWake, RwListEmpty, RwPassDown, IrpsInPlace
<1>9. CASE WbThread
  BY <1>2, <1>9 DEF WbThread, WbWake, WbCheck, WbLock, WbGather, WbRestart, WbWriteLast,
     WbUnlock, WbSignal
<1>10. CASE \E i \in Irp : Cancel(i) \/ Signal(i)
  BY <1>2, <1>10 DEF Cancel, Signal
<1>11. CASE UNCHANGED vars
  BY <1>2, <1>11 DEF vars
<1> QED BY <1>1, <1>5, <1>6, <1>7, <1>8, <1>9, <1>10, <1>11 DEF Next, Dispatch, RwThread
\* The thread serves a packet that carries a request.
LEMMA ServedRequest ==
  ASSUME TypeOK, IrpsInPlace, rwpc \notin {"wait", "pop"}
  PROVE  /\ cur \in Irp /\ req[cur] \in Request
         /\ Blocks(req[cur]) \in SUBSET Block
         /\ \A b \in Block : req[cur].val[b] \in Content
BY RequestParts DEF TypeOK, IrpsInPlace

\* The pool after a block has been placed in it.
LEMMA Placed ==
  ASSUME data \in Partial(Block, Content), NEW b \in Block, NEW c \in Content, NEW e, Place(b, c, e)
  PROVE  /\ data' \in Partial(Block, Content)
         /\ cached' = (cached \ e) \cup {b}
         /\ data'[b] = c
         /\ \A x \in cached' \ {b} : x \in cached /\ data'[x] = data[x]
<1>1. DOMAIN data \subseteq Block /\ data \in [DOMAIN data -> Content]
  BY PartialFunction
<1>2. data' = [x \in (cached \ e) \cup {b} |-> IF x = b THEN c ELSE data[x]]
  BY DEF Place
<1>3. cached' = (cached \ e) \cup {b}
  BY <1>2 DEF cached
<1>4. /\ data'[b] = c
      /\ \A x \in cached' \ {b} : x \in cached /\ data'[x] = data[x]
  BY <1>2, <1>3
<1>5. DOMAIN data' \subseteq Block /\ data' \in [DOMAIN data' -> Content]
  BY <1>1, <1>2 DEF cached
<1>6. data' \in Partial(Block, Content)
  BY <1>5, PartialFunction
<1> QED BY <1>3, <1>4, <1>6

\* Type correctness: the steps of the read/write thread that read.
LEMMA TypeStepRead ==
  ASSUME TypeOK, IrpsInPlace, ReadIsCurrent, RwRead
  PROVE  TypeOK'
<1> USE DEF eventVars, ioctlVars, diskVars, irpVars, rwVars, wbVars
<1> DEFINE B == Blocks(req[cur])
<1>0. rwpc \notin {"wait", "pop"}
  BY DEF RwRead, RwReadHit, RwForward, RwForwardFails, RwReadCached, RwReadPlace, RwReadSkip,
         RwReadUpdated, RwCompleteRead, Serving
<1>1. /\ cur \in Irp /\ req[cur] \in Request
      /\ B \in SUBSET Block
  BY <1>0, ServedRequest
<1>2. /\ cached \subseteq Block /\ data \in [cached -> Content]
      /\ DOMAIN buf \subseteq Block /\ buf \in [DOMAIN buf -> Content]
  BY PartialFunction DEF TypeOK, cached
<1>3. ASSUME FinishCur PROVE /\ req' \in [Irp -> Request \cup {None}] /\ cur' \in Irp \cup {None}
                             /\ buf' \in Partial(Block, Content) /\ rwpc' \in RwPcs
  <2>1. <<>> \in [1..0 -> Content]
    BY EmptySeq, LenProperties
  <2>2. DOMAIN <<>> \subseteq Block /\ <<>> \in [DOMAIN <<>> -> Content]
    BY <2>1
  <2>3. <<>> \in Partial(Block, Content)
    BY <2>2, PartialFunction
  <2> QED BY <1>3, <2>3 DEF FinishCur, TypeOK, RwPcs
<1>4. CASE RwReadHit
  <2>1. DOMAIN buf' \subseteq Block /\ buf' \in [DOMAIN buf' -> Content]
    BY <1>1, <1>2, <1>4 DEF RwReadHit
  <2>2. buf' \in Partial(Block, Content)
    BY <2>1, PartialFunction
  <2> QED BY <1>4, <2>2 DEF RwReadHit, TypeOK, RwPcs
<1>5. CASE RwForward
  <2>1. DOMAIN buf' \subseteq Block /\ buf' \in [DOMAIN buf' -> Content]
    BY <1>1, <1>2, <1>5 DEF RwForward, TypeOK
  <2>2. buf' \in Partial(Block, Content)
    BY <2>1, PartialFunction
  <2> QED BY <1>1, <1>5, <2>2 DEF RwForward, TypeOK, RwPcs
<1>6. CASE RwReadCached
  <2>1. NextBlock \in todo /\ NextBlock \in DOMAIN buf /\ NextBlock \in cached
    BY <1>6, NextBlockInTodo DEF RwReadCached, TypeOK, ReadIsCurrent
  <2>2. Merge(buf[NextBlock], data[NextBlock], Covers(NextBlock)) \in Content
    BY <2>1, <1>2, MergeType
  <2>3. DOMAIN buf' \subseteq Block /\ buf' \in [DOMAIN buf' -> Content]
    BY <1>2, <1>6, <2>2 DEF RwReadCached
  <2>4. buf' \in Partial(Block, Content)
    BY <2>3, PartialFunction
  <2> QED BY <1>6, <2>4 DEF RwReadCached, TypeOK
<1>7. CASE RwReadPlace
  <2>1. NextBlock \in Block /\ buf[NextBlock] \in Content
    BY <1>2, <1>7, NextBlockInTodo DEF RwReadPlace, TypeOK, ReadIsCurrent
  <2>2. data' \in Partial(Block, Content)
    BY <1>7, <2>1, Placed DEF RwReadPlace, TypeOK
  <2> QED BY <1>7, <2>2 DEF RwReadPlace, TypeOK
<1>8. CASE RwReadSkip \/ RwReadUpdated
  BY <1>8 DEF RwReadSkip, RwReadUpdated, TypeOK, RwPcs
<1>9. CASE RwForwardFails \/ RwCompleteRead
  BY <1>3, <1>9 DEF RwForwardFails, RwCompleteRead, TypeOK
<1> QED BY <1>4, <1>5, <1>6, <1>7, <1>8, <1>9 DEF RwRead
\* QueueInsert never makes the queue too long.
LEMMA QueueInserted ==
  ASSUME TypeOK, NEW b \in Block, QueueInsert(b)
  PROVE  queue' \in Seq(Block) /\ Len(queue') <= size
BY SizeAssumption DEF TypeOK, QueueInsert, IsFull

\* Type correctness: the steps of the read/write thread that write.
LEMMA TypeStepWrite ==
  ASSUME TypeOK, IrpsInPlace, Adding, RwWrite
  PROVE  TypeOK'
<1> USE DEF eventVars, ioctlVars, diskVars, irpVars, rwVars, wbVars
<1>0. rwpc \notin {"wait", "pop"}
  BY DEF RwWrite, RwWriteBegin, RwWriteThrough, RwWriteCached, RwWriteNew, RwWriteReplace,
     RwQueueFull, RwFlushed, RwQueueHasRoom, RwClear, RwLock, RwInsertHit, RwInsertOld,
     RwInsertNew, RwCompleteWrite, Serving
<1>1. /\ cur \in Irp /\ req[cur] \in Request /\ Blocks(req[cur]) \in SUBSET Block
      /\ \A b \in Block : req[cur].val[b] \in Content
  BY <1>0, ServedRequest
<1>2. cached \subseteq Block /\ data \in [cached -> Content]
  BY PartialFunction DEF TypeOK, cached
<1>3. todo # {} => NextBlock \in Block /\ NextBlock \in todo
  BY NextBlockInTodo DEF TypeOK
<1>4. CASE RwWriteBegin
  BY <1>1, <1>4 DEF RwWriteBegin, TypeOK, RwPcs
<1>5. CASE RwWriteCached
  <2>1. add' \in {"none", "hit", "old", "new"} /\ rwpc' \in RwPcs
    BY <1>5 DEF RwWriteCached, RwPcs
  <2>2. UNCHANGED <<diskVars, lock, eventVars, ioctlVars, irpVars, cur, todo, buf, wbVars>>
    BY <1>5 DEF RwWriteCached
  <2> QED BY <2>1, <2>2 DEF TypeOK
<1>6. CASE RwQueueFull \/ RwFlushed \/ RwQueueHasRoom \/ RwClear \/ RwLock
  <2>1. /\ lock' \in {None, "rw", "wb"} /\ rwpc' \in RwPcs
        /\ wbStart' \in BOOLEAN /\ wbFinish' \in BOOLEAN
    BY <1>6 DEF RwQueueFull, RwFlushed, RwQueueHasRoom, RwClear, RwLock, TypeOK, RwPcs
  <2>2. UNCHANGED <<diskVars, rwStart, rwFinish, ioctlVars, irpVars, cur, todo, buf, add, wbVars>>
    BY <1>6 DEF RwQueueFull, RwFlushed, RwQueueHasRoom, RwClear, RwLock
  <2> QED BY <2>1, <2>2 DEF TypeOK
<1>7. CASE RwWriteThrough
  <2>1. disk[NextBlock] \in Content
    BY <1>3, <1>7 DEF RwWriteThrough, TypeOK
  <2>2. Merge(disk[NextBlock], req[cur].val[NextBlock], Covers(NextBlock)) \in Content
    BY <1>1, <1>3, <1>7, <2>1, MergeType DEF RwWriteThrough
  <2>3. disk' \in [Block -> Content]
    BY <1>7, <2>2 DEF RwWriteThrough, TypeOK
  <2> QED BY <1>7, <2>3 DEF RwWriteThrough, TypeOK
<1>8. CASE RwWriteNew \/ RwWriteReplace
  <2>1. PICK e : Place(NextBlock, req[cur].val[NextBlock], e)
    BY <1>8 DEF RwWriteNew, RwWriteReplace
  <2>2. NextBlock \in Block /\ req[cur].val[NextBlock] \in Content
    BY <1>1, <1>3, <1>8 DEF RwWriteNew, RwWriteReplace
  <2>3. data' \in Partial(Block, Content)
    BY <2>1, <2>2, Placed DEF TypeOK
  <2> QED BY <1>8, <2>2, <2>3 DEF RwWriteNew, RwWriteReplace, TypeOK, RwPcs
<1>9. CASE RwInsertHit \/ RwInsertOld \/ RwInsertNew
  <2>1. NextBlock \in Block /\ NextBlock \in cached
    BY <1>3, <1>9 DEF RwInsertHit, RwInsertOld, RwInsertNew, Adding, AddPcs
  <2>2. /\ queue' \in Seq(Block) /\ Len(queue') <= size
        /\ modified' \in SUBSET Block
    BY <1>9, <2>1, QueueInserted DEF RwInsertHit, RwInsertOld, RwInsertNew, MarkOld, TypeOK
  <2>3. data' \in Partial(Block, Content)
    <3>1. CASE RwInsertHit
      <4>1. Merge(data[NextBlock], req[cur].val[NextBlock], Covers(NextBlock)) \in Content
        BY <1>1, <1>2, <2>1, MergeType
      <4>2. DOMAIN data' \subseteq Block /\ data' \in [DOMAIN data' -> Content]
        BY <1>2, <3>1, <4>1 DEF RwInsertHit
      <4> QED BY <4>2, PartialFunction
    <3>2. CASE RwInsertOld \/ RwInsertNew
      BY <3>2 DEF RwInsertOld, RwInsertNew, TypeOK
    <3> QED BY <1>9, <3>1, <3>2
  <2> QED BY <1>9, <2>2, <2>3 DEF RwInsertHit, RwInsertOld, RwInsertNew, TypeOK, RwPcs
<1>10. CASE RwCompleteWrite
  <2>1. <<>> \in [1..0 -> Content]
    BY EmptySeq, LenProperties
  <2>2. DOMAIN <<>> \subseteq Block /\ <<>> \in [DOMAIN <<>> -> Content]
    BY <2>1
  <2>3. buf' \in Partial(Block, Content)
    BY <1>10, <2>2, PartialFunction DEF RwCompleteWrite, FinishCur
  <2> QED BY <1>1, <1>10, <2>3 DEF RwCompleteWrite, FinishCur, TypeOK, RwPcs
<1> QED BY <1>4, <1>5, <1>6, <1>7, <1>8, <1>9, <1>10 DEF RwWrite

\* The run, written to the device, leaves contents there.
LEMMA WrittenType ==
  ASSUME TypeOK
  PROVE  Written \in [Block -> Content]
<1> SUFFICES ASSUME NEW b \in Block PROVE Written[b] \in Content
  BY DEF Written
<1>1. b \in Merged => b - first + 1 \in 1..Len(acc)
  BY BlockAssumption DEF Merged, TypeOK
<1> QED BY <1>1 DEF Written, InRun, TypeOK

\* Type correctness: the steps of the write-back thread.
LEMMA TypeStepWb ==
  ASSUME TypeOK, QueueIsModified, WbThread
  PROVE  TypeOK'
<1> USE DEF eventVars, ioctlVars, diskVars, irpVars, rwVars, wbVars
<1>1. CASE WbWake \/ WbCheck \/ WbSignal
  <2>1. /\ UNCHANGED <<diskVars, lock, rwStart, rwFinish, ioctlVars, irpVars, rwVars, acc, first>>
        /\ wbpc' \in WbPcs
    BY <1>1 DEF WbWake, WbCheck, WbSignal, WbPcs
  <2>2. wbStart' \in BOOLEAN /\ wbFinish' \in BOOLEAN
    BY <1>1 DEF WbWake, WbCheck, WbSignal, TypeOK
  <2> QED BY <2>1, <2>2 DEF TypeOK
<1>2. CASE WbLock \/ WbUnlock
  BY <1>2 DEF WbLock, WbUnlock, TypeOK, WbPcs
<1>3. CASE WbGather \/ WbRestart
  <2>1. queue # <<>> /\ queue' = Tail(queue) /\ queue \in Seq(Block) /\ Len(queue) <= size /\ size \in Nat
    BY <1>3, SizeAssumption DEF WbGather, WbRestart, TypeOK
  <2>2. Head(queue) \in Block /\ Head(queue) \in Queued
    BY <2>1 DEF Queued
  <2>3. data[Head(queue)] \in Content
    BY <2>2, PartialFunction DEF QueueIsModified, cached, TypeOK
  <2>4. queue' \in Seq(Block) /\ Len(queue') <= size
    BY <2>1
  <2>5. acc' \in Seq(Content) /\ first' \in Block \cup {-1}
    <3>1. acc \in Seq(Content) /\ first \in Block \cup {-1}
      BY DEF TypeOK
    <3>2. CASE WbGather
      BY <2>2, <2>3, <3>1, <3>2, AppendProperties DEF WbGather
    <3>3. CASE WbRestart
      <4>1. <<data[Head(queue)]>> \in Seq(Content)
        BY <2>3
      <4> QED BY <2>2, <3>3, <4>1 DEF WbRestart
    <3> QED BY <1>3, <3>2, <3>3
  <2>6. disk' \in [Block -> Content]
    BY <1>3, WrittenType DEF WbGather, WbRestart, TypeOK
  <2>7. modified' \in SUBSET Block
    BY <1>3 DEF WbGather, WbRestart, TypeOK
  <2> QED BY <1>3, <2>4, <2>5, <2>6, <2>7 DEF WbGather, WbRestart, TypeOK
<1>4. CASE WbWriteLast
  BY <1>4, WrittenType DEF WbWriteLast, TypeOK
<1> QED BY <1>1, <1>2, <1>3, <1>4 DEF WbThread

\* Type correctness: every step.
LEMMA TypeStep ==
  ASSUME IInv, [Next]_vars
  PROVE  TypeOK'
<1> USE DEF eventVars, ioctlVars, diskVars, irpVars, rwVars, wbVars
<1>1. TypeOK /\ IrpsInPlace /\ ReadIsCurrent /\ Adding /\ QueueIsModified
  BY DEF IInv
<1>2. CASE RwRead
  BY <1>1, <1>2, TypeStepRead
<1>3. CASE RwWrite
  BY <1>1, <1>3, TypeStepWrite
<1>4. CASE WbThread
  BY <1>1, <1>4, TypeStepWb
<1>5. CASE RwWake \/ RwListEmpty
  BY <1>1, <1>5 DEF RwWake, RwListEmpty, TypeOK, RwPcs
<1>6. CASE RwPop \/ RwDropCancelled
  <2>1. Head(rwList) \in Irp /\ Tail(rwList) \in Seq(Irp)
    BY <1>1, <1>6 DEF RwPop, RwDropCancelled, TypeOK
  <2>2. rwList' \in Seq(Irp) /\ cur' \in Irp \cup {None} /\ rwpc' \in RwPcs
    BY <1>1, <1>6, <2>1 DEF RwPop, RwDropCancelled, TypeOK, RwPcs
  <2>3. UNCHANGED <<diskVars, lock, eventVars, ioctlVars, req, signal, cancelled, todo, buf, add, wbVars>>
    BY <1>6 DEF RwPop, RwDropCancelled
  <2> QED BY <1>1, <2>2, <2>3 DEF TypeOK
<1>7. CASE RwPassDown
  <2>1. cur \in Irp /\ req[cur] \in Request
    BY <1>1, <1>7, ServedRequest DEF RwPassDown
  <2>2. <<>> \in [1..0 -> Content]
    BY EmptySeq, LenProperties
  <2>3. DOMAIN <<>> \subseteq Block /\ <<>> \in [DOMAIN <<>> -> Content]
    BY <2>2
  <2>4. buf' \in Partial(Block, Content)
    BY <1>7, <2>3, PartialFunction DEF RwPassDown, FinishCur
  <2>5. disk' \in [Block -> Content]
    BY <1>1, <1>7, <2>1, ApplyType DEF RwPassDown, TypeOK
  <2> QED BY <1>1, <1>7, <2>1, <2>4, <2>5 DEF RwPassDown, FinishCur, TypeOK, RwPcs
<1>8. ASSUME NEW i \in Irp, NEW r \in Request, Submit(i, r) PROVE TypeOK'
  BY <1>1, <1>8 DEF Submit, TypeOK
<1>9. ASSUME NEW i \in Irp, Cancel(i) \/ Signal(i) PROVE TypeOK'
  BY <1>1, <1>9 DEF Cancel, Signal, TypeOK
<1>10. CASE UNCHANGED vars
  BY <1>1, <1>10 DEF vars, TypeOK
<1> QED BY <1>2, <1>3, <1>4, <1>5, <1>6, <1>7, <1>8, <1>9, <1>10 DEF Next, Dispatch, RwThread

-----------------------------------------------------------------------------
\* The block being handled depends on nothing but the blocks still to be handled.
LEMMA NextBlockSame ==
  ASSUME todo' = todo
  PROVE  NextBlock' = NextBlock
BY DEF NextBlock

\* Adding: the thread finds the block it adds where it put it, and room for it.
LEMMA AddingStep ==
  ASSUME TypeOK, IrpsInPlace, Handshake, Adding, [Next]_vars
  PROVE  Adding'
<1> USE DEF eventVars, ioctlVars, diskVars, irpVars, rwVars, wbVars
<1>1. CASE UNCHANGED <<add, rwpc, todo, data, queue, size>>
  BY <1>1, NextBlockSame DEF Adding, AddPcs, cached, IsFull
<1>2. CASE rwpc \notin AddPcs /\ rwpc' \notin AddPcs /\ add' = add
  BY <1>2 DEF Adding, AddPcs
<1>3. CASE Dispatch \/ (\E i \in Irp : Signal(i))
  BY <1>1, <1>3 DEF Dispatch, Submit, Cancel, Signal
<1>4. CASE RwWake \/ RwPop \/ RwDropCancelled \/ RwListEmpty \/ RwPassDown
  BY <1>2, <1>4 DEF RwWake, RwPop, RwDropCancelled, RwListEmpty, RwPassDown, FinishCur, AddPcs
<1>5. CASE RwRead
  BY <1>2, <1>5 DEF RwRead, RwReadHit, RwForward, RwForwardFails, RwReadCached, RwReadPlace,
     RwReadSkip, RwReadUpdated, RwCompleteRead, FinishCur, Serving, AddPcs
<1>6. CASE RwWriteBegin \/ RwWriteThrough \/ RwCompleteWrite
  BY <1>2, <1>6 DEF RwWriteBegin, RwWriteThrough, RwCompleteWrite, FinishCur, Serving, AddPcs
<1>7. CASE RwWriteCached
  BY <1>7, NextBlockSame DEF RwWriteCached, Adding, AddPcs, cached
<1>8. CASE RwWriteNew \/ RwWriteReplace
  <2>1. /\ rwpc = "write" /\ rwpc' = "full" /\ add' \in {"new", "old"}
        /\ todo # {} /\ todo' = todo
    BY <1>8 DEF RwWriteNew, RwWriteReplace
  <2>2. PICK e : Place(NextBlock, req[cur].val[NextBlock], e)
    BY <1>8 DEF RwWriteNew, RwWriteReplace
  <2>3. NextBlock \in cached'
    BY <2>2 DEF Place, cached
  <2> QED BY <2>1, <2>3, NextBlockSame DEF Adding, AddPcs
<1>9. CASE RwQueueFull \/ RwFlushed \/ RwQueueHasRoom \/ RwClear \/ RwLock
  BY <1>9, NextBlockSame DEF RwQueueFull, RwFlushed, RwQueueHasRoom, RwClear, RwLock,
     Adding, AddPcs, cached, IsFull
<1>10. CASE RwInsertHit \/ RwInsertOld \/ RwInsertNew
  BY <1>10 DEF RwInsertHit, RwInsertOld, RwInsertNew, Adding, AddPcs
<1>11. CASE WbWake \/ WbCheck \/ WbLock \/ WbUnlock \/ WbSignal \/ WbWriteLast
  BY <1>1, <1>11 DEF WbWake, WbCheck, WbLock, WbUnlock, WbSignal, WbWriteLast
<1>12. CASE WbGather \/ WbRestart
  <2>1. /\ rwpc = "finish"
        /\ UNCHANGED <<add, rwpc, todo, data>>
    BY <1>12 DEF WbGather, WbRestart, Handshake
  <2> QED BY <2>1, NextBlockSame DEF Adding, AddPcs, cached
<1>13. CASE UNCHANGED vars
  BY <1>1, <1>13 DEF vars
<1> QED BY <1>3, <1>4, <1>5, <1>6, <1>7, <1>8, <1>9, <1>10, <1>11, <1>12, <1>13
        DEF Next, RwThread, RwWrite, WbThread

\* ReadIsCurrent: nobody writes to the device while the thread goes through what it has read.
LEMMA ReadStep ==
  ASSUME TypeOK, IrpsInPlace, Handshake, ReadIsCurrent, [Next]_vars
  PROVE  ReadIsCurrent'
<1> USE DEF eventVars, ioctlVars, diskVars, irpVars, rwVars, wbVars
<1>1. CASE UNCHANGED <<rwpc, todo, buf, disk>>
  BY <1>1 DEF ReadIsCurrent
<1>2. CASE rwpc' # "readUpdate"
  BY <1>2 DEF ReadIsCurrent
<1>3. CASE Dispatch \/ (\E i \in Irp : Signal(i)) \/ RwDropCancelled
  BY <1>1, <1>3 DEF Dispatch, Submit, Cancel, Signal, RwDropCancelled
<1>4. CASE RwWake \/ RwPop \/ RwListEmpty \/ RwPassDown
  BY <1>2, <1>4 DEF RwWake, RwPop, RwListEmpty, RwPassDown, FinishCur
<1>5. CASE RwReadHit \/ RwForwardFails \/ RwReadUpdated \/ RwCompleteRead
  BY <1>2, <1>5 DEF RwReadHit, RwForwardFails, RwReadUpdated, RwCompleteRead, FinishCur
<1>6. CASE RwForward
  BY <1>6 DEF RwForward, ReadIsCurrent
<1>7. CASE RwReadCached \/ RwReadPlace \/ RwReadSkip
  <2>1. /\ rwpc = "readUpdate" /\ todo' = todo \ {NextBlock} /\ disk' = disk
        /\ DOMAIN buf' = DOMAIN buf
        /\ \A b \in DOMAIN buf \ {NextBlock} : buf'[b] = buf[b]
    BY <1>7 DEF RwReadCached, RwReadPlace, RwReadSkip
  <2> QED BY <2>1 DEF ReadIsCurrent
<1>8. CASE RwWrite
  BY <1>2, <1>8 DEF RwWrite, RwWriteBegin, RwWriteThrough, RwWriteCached, RwWriteNew,
     RwWriteReplace, RwQueueFull, RwFlushed, RwQueueHasRoom, RwClear, RwLock, RwInsertHit,
     RwInsertOld, RwInsertNew, RwCompleteWrite, FinishCur, Serving
<1>9. CASE WbWake \/ WbCheck \/ WbLock \/ WbUnlock \/ WbSignal \/ WbGather
  BY <1>1, <1>9 DEF WbWake, WbCheck, WbLock, WbUnlock, WbSignal, WbGather
<1>10. CASE WbRestart \/ WbWriteLast
  <2>1. rwpc' = "finish"
    BY <1>10 DEF WbRestart, WbWriteLast, Handshake
  <2> QED BY <2>1, <1>2
<1>11. CASE UNCHANGED vars
  BY <1>1, <1>11 DEF vars
<1> QED BY <1>3, <1>4, <1>5, <1>6, <1>7, <1>8, <1>9, <1>10, <1>11
        DEF Next, RwThread, RwRead, WbThread

-----------------------------------------------------------------------------
\* No block is in the queue twice.
Injective == \A j, k \in DOMAIN queue : queue[j] = queue[k] => j = k

\* A block that was not queued is appended.
LEMMA QueueAppended ==
  ASSUME queue \in Seq(Block), Injective, NEW b \in Block, b \notin Queued,
         queue' = Append(queue, b)
  PROVE  Injective' /\ Queued' = Queued \cup {b}
<1>1. /\ DOMAIN queue' = DOMAIN queue \cup {Len(queue) + 1}
      /\ Len(queue) + 1 \notin DOMAIN queue
      /\ queue'[Len(queue) + 1] = b
      /\ \A k \in DOMAIN queue : queue'[k] = queue[k]
  OBVIOUS
<1>2. Injective'
  BY <1>1 DEF Injective, Queued
<1>3. Queued' = Queued \cup {b}
  BY <1>1 DEF Queued
<1> QED BY <1>2, <1>3

\* The block at the head is removed.
LEMMA QueueShortened ==
  ASSUME queue \in Seq(Block), Injective, queue # <<>>, queue' = Tail(queue)
  PROVE  Injective' /\ Head(queue) \in Queued /\ Queued' = Queued \ {Head(queue)}
<1>1. /\ 1 \in DOMAIN queue /\ Head(queue) = queue[1]
      /\ \A k \in DOMAIN queue' : k + 1 \in DOMAIN queue /\ k + 1 # 1 /\ queue'[k] = queue[k + 1]
      /\ \A k \in DOMAIN queue \ {1} : k - 1 \in DOMAIN queue' /\ queue'[k - 1] = queue[k]
      /\ \A j, k \in DOMAIN queue' : j + 1 = k + 1 => j = k
  OBVIOUS
<1>2. Injective'
  BY <1>1 DEF Injective
<1>3. Queued' = Queued \ {Head(queue)}
  <2>1. ASSUME NEW x \in Queued' PROVE x \in Queued \ {Head(queue)}
    BY <1>1, <2>1 DEF Queued, Injective
  <2>2. ASSUME NEW x \in Queued \ {Head(queue)} PROVE x \in Queued'
    <3>1. PICK k \in DOMAIN queue : queue[k] = x
      BY DEF Queued
    <3>2. k - 1 \in DOMAIN queue' /\ queue'[k - 1] = x
      BY <1>1, <2>2, <3>1
    <3> QED BY <3>2 DEF Queued
  <2> QED BY <2>1, <2>2
<1> QED BY <1>1, <1>2, <1>3 DEF Queued

\* What the pool gives up is never a marked block.
LEMMA EvictionsClean ==
  ASSUME NEW c, NEW m, NEW e \in Evictions(c, m)
  PROVE  e \cap m = {}
BY DEF Evictions

\* QueueIsModified: a block leaves the queue and loses its mark together.
LEMMA QueueStepWb ==
  ASSUME queue \in Seq(Block), QueueIsModified, WbThread
  PROVE  QueueIsModified'
<1> USE DEF eventVars, ioctlVars, diskVars, irpVars, rwVars, wbVars
<1>1. CASE WbWake \/ WbCheck \/ WbLock \/ WbUnlock \/ WbSignal \/ WbWriteLast
  <2>1. UNCHANGED <<queue, modified, data, add, todo>>
    BY <1>1 DEF WbWake, WbCheck, WbLock, WbUnlock, WbSignal, WbWriteLast
  <2> QED BY <2>1, NextBlockSame DEF QueueIsModified, Queued, cached
<1>2. CASE WbGather \/ WbRestart
  <2>1. /\ queue # <<>> /\ queue' = Tail(queue) /\ modified' = modified \ {Head(queue)}
        /\ UNCHANGED <<data, todo, add>>
    BY <1>2 DEF WbGather, WbRestart
  <2>2. Injective
    BY DEF QueueIsModified, Injective
  <2>3. Injective' /\ Head(queue) \in Queued /\ Queued' = Queued \ {Head(queue)}
    BY <2>1, <2>2, QueueShortened
  <2> QED BY <2>1, <2>3, NextBlockSame DEF QueueIsModified, Injective, cached
<1> QED BY <1>1, <1>2 DEF WbThread

\* QueueIsModified: marks and queue entries come and go together.
LEMMA QueueStep ==
  ASSUME queue \in Seq(Block), todo \in SUBSET Block, Adding, QueueIsModified, [Next]_vars
  PROVE  QueueIsModified'
<1> USE DEF eventVars, ioctlVars, diskVars, irpVars, rwVars, wbVars
<1>0. Injective
  BY DEF QueueIsModified, Injective
<1>1. CASE UNCHANGED <<queue, modified>> /\ cached' = cached /\ add # "new" /\ add' # "new"
  BY <1>1 DEF QueueIsModified, Queued
<1>2. CASE UNCHANGED <<queue, modified, data, add, todo>>
  BY <1>2, NextBlockSame DEF QueueIsModified, Queued, cached
<1>3. CASE Dispatch \/ (\E i \in Irp : Signal(i))
  BY <1>2, <1>3 DEF Dispatch, Submit, Cancel, Signal
<1>4. CASE RwWake \/ RwPop \/ RwDropCancelled \/ RwListEmpty \/ RwPassDown
  BY <1>2, <1>4 DEF RwWake, RwPop, RwDropCancelled, RwListEmpty, RwPassDown, FinishCur
<1>5. CASE RwReadHit \/ RwForward \/ RwForwardFails \/ RwReadCached
           \/ RwReadSkip \/ RwReadUpdated \/ RwCompleteRead
  BY <1>1, <1>5 DEF RwReadHit, RwForward, RwForwardFails, RwReadCached, RwReadSkip,
     RwReadUpdated, RwCompleteRead, FinishCur, Serving, Adding, AddPcs, cached
<1>6. CASE RwReadPlace \/ RwWriteReplace
  <2>1. /\ add # "new" /\ add' # "new" /\ UNCHANGED <<queue, modified>>
        /\ \E e \in Evictions(cached, modified) : \E c : Place(NextBlock, c, e)
    BY <1>6 DEF RwReadPlace, RwWriteReplace, Adding, AddPcs
  <2>2. PICK e \in Evictions(cached, modified) : \E c : Place(NextBlock, c, e)
    BY <2>1
  <2>3. cached' = (cached \ e) \cup {NextBlock}
    BY <2>2 DEF Place, cached
  <2>4. modified \subseteq cached'
    BY <2>3, EvictionsClean DEF QueueIsModified
  <2> QED BY <2>1, <2>4 DEF QueueIsModified, Queued
<1>7. CASE RwWriteBegin \/ RwWriteThrough \/ RwWriteCached \/ RwCompleteWrite
  BY <1>1, <1>7 DEF RwWriteBegin, RwWriteThrough, RwWriteCached, RwCompleteWrite, FinishCur,
     Serving, Adding, AddPcs, cached
<1>8. CASE RwWriteNew
  <2>1. /\ rwpc = "write" /\ NextBlock \notin cached /\ add' = "new"
        /\ modified' = modified \cup {NextBlock} /\ UNCHANGED <<queue, todo>>
        /\ Place(NextBlock, req[cur].val[NextBlock], {})
    BY <1>8 DEF RwWriteNew
  <2>2. modified = Queued /\ modified \subseteq cached
    BY <2>1 DEF Adding, AddPcs, QueueIsModified
  <2>3. cached' = cached \cup {NextBlock}
    BY <2>1 DEF Place, cached
  <2> QED BY <2>1, <2>2, <2>3, NextBlockSame DEF QueueIsModified, Queued
<1>9. CASE RwQueueFull \/ RwFlushed \/ RwQueueHasRoom \/ RwClear \/ RwLock
  BY <1>2, <1>9 DEF RwQueueFull, RwFlushed, RwQueueHasRoom, RwClear, RwLock
<1>10. CASE RwInsertHit \/ RwInsertOld \/ RwInsertNew
  <2>1. /\ NextBlock \in cached /\ NextBlock \in Block /\ ~IsFull /\ add' = "none"
    BY <1>10, NextBlockInTodo DEF RwInsertHit, RwInsertOld, RwInsertNew, Adding, AddPcs
  <2>2. cached' = cached
    BY <1>10 DEF RwInsertHit, RwInsertOld, RwInsertNew, cached
  <2>3. CASE UNCHANGED <<modified, queue>> /\ add # "new"
    BY <2>1, <2>2, <2>3 DEF QueueIsModified, Queued
  <2>4. CASE NextBlock \notin Queued /\ modified' = modified \cup {NextBlock} /\ QueueInsert(NextBlock)
    <3>1. Injective' /\ Queued' = Queued \cup {NextBlock}
      BY <1>0, <2>1, <2>4, QueueAppended DEF QueueInsert
    <3>2. modified' = Queued' /\ modified' \subseteq cached'
      BY <2>1, <2>2, <2>4, <3>1 DEF QueueIsModified
    <3> QED BY <2>1, <3>1, <3>2 DEF QueueIsModified, Injective
  <2>5. (NextBlock \in modified /\ add # "new") \/ NextBlock \notin Queued
    BY DEF QueueIsModified
  <2> QED BY <1>10, <2>3, <2>4, <2>5 DEF RwInsertHit, RwInsertOld, RwInsertNew, MarkOld, QueueIsModified
<1>11. CASE WbThread
  BY <1>11, QueueStepWb
<1>12. CASE UNCHANGED vars
  BY <1>2, <1>12 DEF vars
<1> QED BY <1>3, <1>4, <1>5, <1>6, <1>7, <1>8, <1>9, <1>10, <1>11, <1>12
        DEF Next, RwThread, RwRead, RwWrite

-----------------------------------------------------------------------------
\* A block has an integer index.
LEMMA BlockIndex ==
  ASSUME NEW b \in Block
  PROVE  b \in Int
BY BlockAssumption

\* No index is in an empty run.
LEMMA EmptyRun ==
  ASSUME NEW i \in Int
  PROVE  i..(i + 0 - 1) = {}
OBVIOUS

\* The run is a sequence of contents from an index on.
LEMMA RunType ==
  ASSUME TypeOK
  PROVE  /\ acc \in Seq(Content) /\ first \in Int
         /\ acc = <<>> => Merged = {}
<1>1. acc \in Seq(Content) /\ first \in Block \cup {-1}
  BY DEF TypeOK
<1>2. first \in Int
  BY <1>1, BlockAssumption
<1> QED BY <1>1, <1>2 DEF Merged

\* An empty run holds nothing.
LEMMA RunEmptied ==
  ASSUME TypeOK', acc' = <<>>
  PROVE  RunIsCurrent'
<1>1. first' \in Block \cup {-1}
  BY DEF TypeOK
<1>2. first' \in Int
  BY <1>1, BlockAssumption
<1>3. Merged' = {}
  <2>1. Len(acc') = 0
    OBVIOUS
  <2>2. Merged' = first'..(first' + 0 - 1)
    BY <2>1 DEF Merged
  <2> QED BY <1>2, <2>2, EmptyRun
<1> QED BY <1>3 DEF RunIsCurrent

\* RunIsCurrent: a block enters the run as the pool holds it.
LEMMA RunStepWb ==
  ASSUME TypeOK, TypeOK', QueueIsModified, RunIsCurrent, WbThread
  PROVE  RunIsCurrent'
<1> USE DEF eventVars, ioctlVars, diskVars, irpVars, rwVars, wbVars
<1>1. CASE acc' = <<>>
  BY <1>1, RunEmptied
<1>2. CASE UNCHANGED <<acc, first, data>>
  BY <1>2 DEF RunIsCurrent, Merged, InRun, cached
<1>3. CASE WbWake \/ WbCheck \/ WbLock \/ WbUnlock \/ WbSignal
  BY <1>2, <1>3 DEF WbWake, WbCheck, WbLock, WbUnlock, WbSignal
<1>4. CASE WbGather \/ WbRestart
  <2> DEFINE h == Head(queue)
  <2>1. /\ queue # <<>> /\ data' = data /\ h \in cached /\ h \in Block
    <3>1. queue # <<>> /\ data' = data
      BY <1>4 DEF WbGather, WbRestart
    <3>2. h \in Queued /\ h \in Block
      BY <3>1 DEF TypeOK, Queued
    <3> QED BY <3>1, <3>2 DEF QueueIsModified
  <2>2. CASE WbGather /\ acc # <<>>
    <3>1. /\ acc' = Append(acc, data[h]) /\ first' = first /\ h = first + Len(acc)
      BY <2>2 DEF WbGather, Continues
    <3>2. /\ acc \in Seq(Content) /\ first \in Int /\ h \in Int
      <4>1. acc \in Seq(Content) /\ first \in Int
        BY RunType
      <4>2. h \in Int
        BY <2>1, BlockIndex
      <4> QED BY <4>1, <4>2
    <3>3. /\ Merged' = Merged \cup {h}
          /\ acc'[h - first + 1] = data[h]
          /\ \A b \in Merged : acc'[b - first + 1] = acc[b - first + 1]
      BY <3>1, <3>2 DEF Merged
    <3> QED BY <2>1, <3>1, <3>3 DEF RunIsCurrent, InRun, cached
  <2>3. CASE (WbGather /\ acc = <<>>) \/ WbRestart
    <3>1. (acc' = Append(<<>>, data[h]) \/ acc' = <<data[h]>>) /\ first' = h
      BY <2>3 DEF WbGather, WbRestart
    <3>2. Len(acc') = 1 /\ acc'[1] = data[h] /\ h \in Int
      <4>1. h \in Int
        BY <2>1, BlockIndex
      <4>2. Len(acc') = 1
        BY <3>1
      <4>3. acc'[1] = data[h]
        BY <3>1
      <4> QED BY <4>1, <4>2, <4>3
    <3>3. Merged' = h..h
      BY <3>1, <3>2 DEF Merged
    <3>4. Merged' = {h} /\ acc'[h - first' + 1] = data[h]
      BY <3>1, <3>2, <3>3
    <3> QED BY <2>1, <3>4 DEF RunIsCurrent, InRun, cached
  <2> QED BY <1>4, <2>2, <2>3
<1>5. CASE WbWriteLast
  BY <1>1, <1>5 DEF WbWriteLast
<1> QED BY <1>3, <1>4, <1>5 DEF WbThread

\* RunIsCurrent: the run is gathered and written while the other thread waits.
LEMMA RunStep ==
  ASSUME TypeOK, TypeOK', Handshake, QueueIsModified, RunIsCurrent, [Next]_vars
  PROVE  RunIsCurrent'
<1> USE DEF eventVars, ioctlVars, diskVars, irpVars, rwVars, wbVars
<1>1. CASE acc' = <<>>
  BY <1>1, RunEmptied
<1>2. CASE UNCHANGED <<acc, first, data>>
  BY <1>2 DEF RunIsCurrent, Merged, InRun, cached
<1>3. CASE Dispatch \/ (\E i \in Irp : Signal(i))
  BY <1>2, <1>3 DEF Dispatch, Submit, Cancel, Signal
<1>4. CASE RwWake \/ RwPop \/ RwDropCancelled \/ RwListEmpty \/ RwPassDown
  BY <1>2, <1>4 DEF RwWake, RwPop, RwDropCancelled, RwListEmpty, RwPassDown, FinishCur
<1>5. CASE RwRead
  <2>1. acc' = acc /\ rwpc # "finish"
    BY <1>5 DEF RwRead, RwReadHit, RwForward, RwForwardFails, RwReadCached, RwReadPlace,
       RwReadSkip, RwReadUpdated, RwCompleteRead, Serving
  <2> QED BY <1>1, <2>1 DEF Handshake
<1>6. CASE RwWrite
  <2>1. acc' = acc /\ (rwpc = "finish" => UNCHANGED <<acc, first, data>>)
    BY <1>6 DEF RwWrite, RwWriteBegin, RwWriteThrough, RwWriteCached, RwWriteNew, RwWriteReplace,
       RwQueueFull, RwFlushed, RwQueueHasRoom, RwClear, RwLock, RwInsertHit, RwInsertOld,
       RwInsertNew, RwCompleteWrite, Serving
  <2> QED BY <1>1, <1>2, <2>1 DEF Handshake
<1>7. CASE WbThread
  BY <1>7, RunStepWb
<1>8. CASE UNCHANGED vars
  BY <1>2, <1>8 DEF vars
<1> QED BY <1>3, <1>4, <1>5, <1>6, <1>7, <1>8 DEF Next, RwThread

\* What the run holds is on the device once the run is written; the rest of it stays.
LEMMA WrittenRun ==
  ASSUME RunIsCurrent, disk' = Written, NEW b \in Block
  PROVE  IF b \in Merged THEN disk'[b] = data[b] ELSE disk'[b] = disk[b]
BY DEF Written, RunIsCurrent

\* CleanIsOnDisk: the steps of the write-back thread.
LEMMA CleanStepWb ==
  ASSUME TypeOK, RunIsCurrent, CleanIsOnDisk, RunIsCurrent', WbThread
  PROVE  CleanIsOnDisk'
<1> USE DEF eventVars, ioctlVars, diskVars, irpVars, rwVars, wbVars
<1>1. CASE UNCHANGED <<data, disk, modified, acc, first, todo, add>>
  BY <1>1, NextBlockSame DEF CleanIsOnDisk, cached, Merged, InRun
<1>2. CASE WbWake \/ WbCheck \/ WbLock \/ WbUnlock \/ WbSignal
  BY <1>1, <1>2 DEF WbWake, WbCheck, WbLock, WbUnlock, WbSignal
<1>3. CASE WbGather
  <2> DEFINE h == Head(queue)
  <2>1. /\ UNCHANGED <<data, disk, todo, add>> /\ modified' = modified \ {h}
        /\ acc' = Append(acc, data[h])
        /\ first' = (IF acc = <<>> THEN h ELSE first) /\ (acc = <<>> \/ h = first + Len(acc))
        /\ queue # <<>>
    BY <1>3 DEF WbGather, Continues
  <2>2. h \in Block
    BY <2>1 DEF TypeOK
  <2>3. acc \in Seq(Content) /\ first \in Int /\ h \in Int /\ (acc = <<>> => Merged = {})
    BY <2>2, RunType, BlockIndex
  <2>4. Len(acc') = Len(acc) + 1
    BY <2>1, <2>3
  <2>5. h \in Merged' /\ Merged \subseteq Merged'
    BY <2>1, <2>3, <2>4 DEF Merged
  <2>6. \A b \in Merged' : data'[b] = InRun(b)'
    BY DEF RunIsCurrent
  <2> QED BY <2>1, <2>5, <2>6, NextBlockSame DEF CleanIsOnDisk, cached
<1>4. CASE WbRestart \/ WbWriteLast
  <2>1. UNCHANGED <<data, todo, add>> /\ disk' = Written
    BY <1>4 DEF WbRestart, WbWriteLast
  <2>2. cached \subseteq Block
    BY PartialFunction DEF TypeOK, cached
  <2>3. \A b \in cached \ modified : data[b] = disk'[b] \/ (b \in todo /\ b = NextBlock /\ add = "old")
    BY <2>1, <2>2, WrittenRun DEF CleanIsOnDisk, RunIsCurrent
  <2>4. CASE WbWriteLast
    <3>1. modified' = modified
      BY <2>4 DEF WbWriteLast
    <3> QED BY <2>1, <2>3, <3>1, NextBlockSame DEF CleanIsOnDisk, cached
  <2>5. CASE WbRestart
    <3> DEFINE h == Head(queue)
    <3>1. /\ modified' = modified \ {h} /\ first' = h /\ acc' = <<data[h]>> /\ queue # <<>>
      BY <2>5 DEF WbRestart
    <3>2. h \in Int
      <4>1. h \in Block
        BY <3>1 DEF TypeOK
      <4> QED BY <4>1, BlockIndex
    <3>3. Merged' = h..h
      BY <3>1, <3>2 DEF Merged
    <3>4. h \in Merged'
      BY <3>2, <3>3
    <3>5. \A b \in Merged' : data'[b] = InRun(b)'
      BY DEF RunIsCurrent
    <3> QED BY <2>1, <2>3, <3>1, <3>4, <3>5, NextBlockSame DEF CleanIsOnDisk, cached
  <2> QED BY <1>4, <2>4, <2>5
<1> QED BY <1>2, <1>3, <1>4 DEF WbThread

\* When every buffer can be mapped only requests of length 0 are passed down.
LEMMA PassedEmpty ==
  ASSUME TypeOK, IrpsInPlace, Unmappable = {}, RwPassDown
  PROVE  disk' = disk
<1>1. rwpc = "serve" /\ Blocks(req[cur]) = {} /\ disk' = Apply(req[cur], disk)
  BY DEF RwPassDown
<1>2. req[cur] \in Request /\ disk \in [Block -> Content]
  BY <1>1, ServedRequest DEF TypeOK
<1> QED BY <1>1, <1>2, ApplyNothing

\* CleanIsOnDisk: a block loses its mark only into the run, and the run reaches the device.
LEMMA CleanStep ==
  ASSUME IInv, Unmappable = {}, RunIsCurrent', [Next]_vars
  PROVE  CleanIsOnDisk'
<1> USE DEF eventVars, ioctlVars, diskVars, irpVars, rwVars, wbVars
<1>0. /\ TypeOK /\ IrpsInPlace /\ Handshake /\ Adding /\ ReadIsCurrent
      /\ QueueIsModified /\ RunIsCurrent /\ CleanIsOnDisk
  BY DEF IInv
<1>1. CASE UNCHANGED <<data, disk, modified, acc, first, todo, add>>
  BY <1>0, <1>1, NextBlockSame DEF CleanIsOnDisk, cached, Merged, InRun
<1>2. CASE UNCHANGED <<data, disk, modified, acc, first, add>> /\ add = "none"
  BY <1>0, <1>2 DEF CleanIsOnDisk, cached, Merged, InRun
<1>3. CASE Dispatch \/ (\E i \in Irp : Signal(i))
  BY <1>1, <1>3 DEF Dispatch, Submit, Cancel, Signal
<1>4. CASE RwWake \/ RwPop \/ RwDropCancelled \/ RwListEmpty \/ RwPassDown
  <2>1. CASE RwWake \/ RwPop \/ RwDropCancelled \/ RwListEmpty
    BY <1>1, <2>1 DEF RwWake, RwPop, RwDropCancelled, RwListEmpty
  <2>2. CASE RwPassDown
    <3>1. disk' = disk
      BY <1>0, <2>2, PassedEmpty
    <3> QED BY <1>1, <2>2, <3>1 DEF RwPassDown, FinishCur
  <2> QED BY <1>4, <2>1, <2>2
<1>5. CASE RwReadHit \/ RwForward \/ RwForwardFails \/ RwReadCached \/ RwReadSkip
           \/ RwReadUpdated \/ RwCompleteRead \/ RwWriteBegin \/ RwCompleteWrite
  <2>1. rwpc \notin AddPcs /\ UNCHANGED <<data, disk, modified, acc, first, add>>
    BY <1>5 DEF RwReadHit, RwForward, RwForwardFails, RwReadCached, RwReadSkip, RwReadUpdated,
       RwCompleteRead, RwWriteBegin, RwCompleteWrite, FinishCur, Serving, AddPcs
  <2> QED BY <1>0, <1>2, <2>1 DEF Adding
<1>6. CASE RwReadPlace
  <2>1. /\ rwpc = "readUpdate" /\ todo # {}
        /\ UNCHANGED <<disk, modified, acc, first, add>>
        /\ \E e : Place(NextBlock, buf[NextBlock], e)
    BY <1>6 DEF RwReadPlace
  <2>2. NextBlock \in Block /\ buf[NextBlock] = disk[NextBlock] /\ disk[NextBlock] \in Content
    BY <1>0, <2>1, NextBlockInTodo DEF TypeOK, ReadIsCurrent
  <2>3. PICK e : Place(NextBlock, buf[NextBlock], e)
    BY <2>1
  <2>4. /\ data'[NextBlock] = disk[NextBlock]
        /\ \A x \in cached' \ {NextBlock} : x \in cached /\ data'[x] = data[x]
    BY <1>0, <2>2, <2>3, Placed DEF TypeOK
  <2>5. add = "none"
    BY <1>0, <2>1 DEF Adding, AddPcs
  <2>6. ASSUME NEW b \in cached' \ modified'
        PROVE  data'[b] = disk'[b] \/ (b \in Merged' /\ data'[b] = InRun(b)')
    BY <1>0, <2>1, <2>4, <2>5 DEF CleanIsOnDisk, Merged, InRun
  <2> QED BY <2>6 DEF CleanIsOnDisk
<1>7. CASE RwWriteThrough
  <2>1. /\ rwpc = "write" /\ NextBlock \notin cached
        /\ UNCHANGED <<data, modified, acc, first, add>>
        /\ \A b \in Block \ {NextBlock} : disk'[b] = disk[b]
    BY <1>0, <1>7 DEF RwWriteThrough, TypeOK
  <2>2. cached \subseteq Block /\ add = "none"
    BY <1>0, <2>1, PartialFunction DEF TypeOK, cached, Adding, AddPcs
  <2> QED BY <1>0, <2>1, <2>2 DEF CleanIsOnDisk, cached, Merged, InRun
<1>8. CASE RwWriteCached
  <2>1. UNCHANGED <<data, disk, modified, acc, first>> /\ rwpc = "write"
    BY <1>8 DEF RwWriteCached
  <2>2. add = "none"
    BY <1>0, <2>1 DEF Adding, AddPcs
  <2> QED BY <1>0, <2>1, <2>2 DEF CleanIsOnDisk, cached, Merged, InRun
<1>9. CASE RwWriteNew \/ RwWriteReplace
  <2>1. /\ rwpc = "write" /\ todo # {}
        /\ UNCHANGED <<disk, todo, acc, first>>
        /\ \E e : Place(NextBlock, req[cur].val[NextBlock], e)
    BY <1>9 DEF RwWriteNew, RwWriteReplace
  <2>2. /\ NextBlock \in todo /\ NextBlock \in Block /\ req[cur].val[NextBlock] \in Content
    BY <1>0, <2>1, NextBlockInTodo, ServedRequest DEF TypeOK
  <2>3. PICK e : Place(NextBlock, req[cur].val[NextBlock], e)
    BY <2>1
  <2>4. \A x \in cached' \ {NextBlock} : x \in cached /\ data'[x] = data[x]
    BY <1>0, <2>2, <2>3, Placed DEF TypeOK
  <2>5. add = "none"
    BY <1>0, <2>1 DEF Adding, AddPcs
  <2>6. modified \subseteq modified' /\ (NextBlock \in modified' \/ add' = "old")
    BY <1>9 DEF RwWriteNew, RwWriteReplace
  <2>7. ASSUME NEW b \in cached' \ modified', b # NextBlock
        PROVE  data'[b] = disk'[b] \/ (b \in Merged' /\ data'[b] = InRun(b)')
    BY <1>0, <2>1, <2>4, <2>5, <2>6, <2>7 DEF CleanIsOnDisk, Merged, InRun
  <2>8. NextBlock \in todo' /\ NextBlock' = NextBlock
    BY <2>1, <2>2, NextBlockSame
  <2> QED BY <2>6, <2>7, <2>8 DEF CleanIsOnDisk
<1>10. CASE RwQueueFull \/ RwFlushed \/ RwQueueHasRoom \/ RwClear \/ RwLock
  BY <1>1, <1>10 DEF RwQueueFull, RwFlushed, RwQueueHasRoom, RwClear, RwLock
<1>11. CASE RwInsertHit \/ RwInsertOld \/ RwInsertNew
  <2>1. /\ UNCHANGED <<disk, acc, first>> /\ cached' = cached
        /\ modified' = modified \cup {NextBlock}
        /\ \A b \in cached \ {NextBlock} : data'[b] = data[b]
    BY <1>11 DEF RwInsertHit, RwInsertOld, RwInsertNew, MarkOld, cached
  <2>2. ASSUME NEW b \in cached' \ modified'
        PROVE  data'[b] = disk'[b] \/ (b \in Merged' /\ data'[b] = InRun(b)')
    BY <1>0, <2>1, <2>2 DEF CleanIsOnDisk, Merged, InRun
  <2> QED BY <2>2 DEF CleanIsOnDisk
<1>12. CASE WbThread
  BY <1>0, <1>12, CleanStepWb
<1>13. CASE UNCHANGED vars
  BY <1>1, <1>13 DEF vars
<1> QED BY <1>3, <1>4, <1>5, <1>6, <1>7, <1>8, <1>9, <1>10, <1>11, <1>12, <1>13
        DEF Next, RwThread, RwRead, RwWrite

\* Together.
LEMMA IInvStep ==
  ASSUME IInv, [Next]_vars
  PROVE  IInv'
<1>1. /\ TypeOK /\ IrpsInPlace /\ Handshake /\ Adding /\ ReadIsCurrent
      /\ QueueIsModified /\ RunIsCurrent
  BY DEF IInv
<1>2. TypeOK'
  BY TypeStep
<1>3. IrpsInPlace' /\ Handshake' /\ Adding' /\ ReadIsCurrent'
  <2>1. IrpTypes
    BY <1>1 DEF TypeOK, IrpTypes
  <2> QED BY <1>1, <2>1, IrpsStep, HandshakeStep, AddingStep, ReadStep
<1>4. QueueIsModified' /\ RunIsCurrent'
  BY <1>1, <1>2, QueueStep, RunStep DEF TypeOK
<1>5. Unmappable = {} => CleanIsOnDisk'
  BY <1>4, CleanStep
<1> QED BY <1>2, <1>3, <1>4, <1>5 DEF IInv

-----------------------------------------------------------------------------
(* The theorems.                                                           *)

\* IInv holds in every state the program reaches.
THEOREM Invariance == Spec => []IInv
<1>1. Init => IInv
  BY InitIInv DEF Init
<1>2. IInv /\ [Next]_vars => IInv'
  BY IInvStep
<1> QED BY <1>1, <1>2, PTL DEF Spec

\* Every variable keeps its type, and the write-back queue never exceeds WB_QUEUE_NUM_BLOCKS.
THEOREM TypeCorrect == Spec => []TypeOK
<1>1. IInv => TypeOK
  BY DEF IInv
<1> QED BY <1>1, Invariance, PTL

(* The write-back thread works only while the read/write thread waits for   *)
(* WbThreadFinishEvent: no block changes and no victim is chosen meanwhile. *)
THEOREM FlushExclusive == Spec => []FlushOnlyWhileAwaited
<1>1. IInv => FlushOnlyWhileAwaited
  BY DEF IInv, Handshake, FlushOnlyWhileAwaited
<1> QED BY <1>1, Invariance, PTL

\* A queue without repetitions has as many blocks as entries.
LEMMA QueuedCardinality ==
  ASSUME queue \in Seq(Block), Injective
  PROVE  IsFiniteSet(Queued) /\ Cardinality(Queued) = Len(queue)
<1> DEFINE f == [k \in 1..Len(queue) |-> queue[k]]
<1>1. Len(queue) \in Nat /\ DOMAIN queue = 1..Len(queue)
  OBVIOUS
<1>2. f \in Bijection(1..Len(queue), Queued)
  BY <1>1 DEF Bijection, Injection, Surjection, IsInjective, Queued, Injective
<1>3. ExistsBijection(1..Len(queue), Queued)
  BY <1>2 DEF ExistsBijection
<1>4. IsFiniteSet(1..Len(queue)) /\ Cardinality(1..Len(queue)) = Len(queue)
  <2>1. ASSUME NEW n \in Nat
        PROVE  IsFiniteSet(1..n) /\ Cardinality(1..n) = n
    BY FS_Interval
  <2> QED BY <1>1, <2>1
<1> QED BY <1>3, <1>4, FS_Bijection

(* The blocks marked Modified are those in the queue, which has each once,  *)
(* but for the one being added, and all of them are in the pool.            *)
THEOREM MarkedIsQueued == Spec => []ModifiedIsQueued
<1>1. IInv => ModifiedIsQueued
  BY QueuedCardinality DEF IInv, TypeOK, ModifiedIsQueued, QueueIsModified, Injective
<1> QED BY <1>1, Invariance, PTL

(* No cached block may be thrown away before the device has its contents,   *)
(* as long as every buffer can be mapped.                                   *)
THEOREM NothingIsLost ==
  ASSUME Unmappable = {}
  PROVE  Spec => []CleanIsOnDisk
<1>1. IInv => CleanIsOnDisk
  BY DEF IInv
<1> QED BY <1>1, Invariance, PTL

-----------------------------------------------------------------------------
(* Room for every block.                                                   *)

\* The pool holds no more blocks than it has room for.
PoolIsBounded == IsFiniteSet(cached) /\ Cardinality(cached) <= PoolSize

\* Giving up what the policy may give up for one more block keeps within the bound.
LEMMA PlacedWithin ==
  ASSUME NEW c, IsFiniteSet(c), Cardinality(c) <= PoolSize, NEW m,
         NEW e \in Evictions(c, m), NEW b, b \notin c
  PROVE  IsFiniteSet((c \ e) \cup {b}) /\ Cardinality((c \ e) \cup {b}) <= PoolSize
<1>1. PoolSize \in Nat /\ Cardinality(c) \in Nat
  BY PoolAssumption, FS_CardinalityType
<1>2. CASE e = {} /\ Cardinality(c) < PoolSize
  <2>1. IsFiniteSet(c \cup {b}) /\ Cardinality(c \cup {b}) = Cardinality(c) + 1
    BY FS_AddElement
  <2>2. (c \ e) \cup {b} = c \cup {b}
    BY <1>2
  <2> QED BY <1>1, <1>2, <2>1, <2>2
<1>3. ASSUME NEW v \in c, e = {v}
      PROVE  IsFiniteSet((c \ e) \cup {b}) /\ Cardinality((c \ e) \cup {b}) <= PoolSize
  <2>1. IsFiniteSet(c \ {v}) /\ Cardinality(c \ {v}) = Cardinality(c) - 1
    BY FS_RemoveElement
  <2>2. b \notin c \ {v}
    OBVIOUS
  <2>3. /\ IsFiniteSet((c \ {v}) \cup {b})
        /\ Cardinality((c \ {v}) \cup {b}) = Cardinality(c \ {v}) + 1
    BY <2>1, <2>2, FS_AddElement
  <2> QED BY <1>1, <1>3, <2>1, <2>3
<1> QED BY <1>2, <1>3 DEF Evictions

\* PoolIsBounded: blocks enter the pool in three steps of the read/write thread.
LEMMA BoundedStep ==
  ASSUME PoolIsBounded, [Next]_vars
  PROVE  PoolIsBounded'
<1> USE DEF eventVars, ioctlVars, diskVars, irpVars, rwVars, wbVars
<1>1. CASE cached' = cached
  BY <1>1 DEF PoolIsBounded
<1>2. CASE RwReadPlace \/ RwWriteReplace
  <2>1. /\ NextBlock \notin cached
        /\ \E e \in Evictions(cached, modified) : \E c : Place(NextBlock, c, e)
    BY <1>2 DEF RwReadPlace, RwWriteReplace
  <2>2. PICK e \in Evictions(cached, modified) : \E c : Place(NextBlock, c, e)
    BY <2>1
  <2>3. cached' = (cached \ e) \cup {NextBlock}
    BY <2>2 DEF Place, cached
  <2> QED BY <2>1, <2>3, PlacedWithin DEF PoolIsBounded
<1>3. CASE RwWriteNew
  <2>1. /\ NextBlock \notin cached /\ Cardinality(cached) < PoolSize
        /\ Place(NextBlock, req[cur].val[NextBlock], {})
    BY <1>3 DEF RwWriteNew
  <2>2. cached' = (cached \ {}) \cup {NextBlock}
    BY <2>1 DEF Place, cached
  <2>3. {} \in Evictions(cached, modified)
    BY <2>1 DEF Evictions
  <2> QED BY <2>1, <2>2, <2>3, PlacedWithin DEF PoolIsBounded
<1>4. CASE Dispatch \/ (\E i \in Irp : Signal(i))
  BY <1>1, <1>4 DEF Dispatch, Submit, Cancel, Signal, cached
<1>5. CASE RwWake \/ RwPop \/ RwDropCancelled \/ RwListEmpty \/ RwPassDown
  BY <1>1, <1>5 DEF RwWake, RwPop, RwDropCancelled, RwListEmpty, RwPassDown, cached
<1>6. CASE RwReadHit \/ RwForward \/ RwForwardFails \/ RwReadCached \/ RwReadSkip
           \/ RwReadUpdated \/ RwCompleteRead
  BY <1>1, <1>6 DEF RwReadHit, RwForward, RwForwardFails, RwReadCached, RwReadSkip,
     RwReadUpdated, RwCompleteRead, cached
<1>7. CASE RwWriteBegin \/ RwWriteThrough \/ RwWriteCached \/ RwQueueFull \/ RwFlushed
           \/ RwQueueHasRoom \/ RwClear \/ RwLock \/ RwInsertHit \/ RwInsertOld
           \/ RwInsertNew \/ RwCompleteWrite
  BY <1>1, <1>7 DEF RwWriteBegin, RwWriteThrough, RwWriteCached, RwQueueFull, RwFlushed,
     RwQueueHasRoom, RwClear, RwLock, RwInsertHit, RwInsertOld, RwInsertNew,
     RwCompleteWrite, cached
<1>8. CASE WbThread
  BY <1>1, <1>8 DEF WbThread, WbWake, WbCheck, WbLock, WbGather, WbRestart, WbWriteLast,
     WbUnlock, WbSignal, cached
<1>9. CASE UNCHANGED vars
  BY <1>1, <1>9 DEF vars, cached
<1> QED BY <1>2, <1>3, <1>4, <1>5, <1>6, <1>7, <1>8, <1>9 DEF Next, RwThread, RwRead, RwWrite

\* A full pool holds a block that is not marked: the queue is smaller than the pool.
LEMMA VictimExists ==
  ASSUME IInv, PoolIsBounded, add # "new"
  PROVE  Evictions(cached, modified) # {}
<1>1. modified = Queued /\ modified \subseteq cached
  BY DEF IInv, QueueIsModified
<1>2. IsFiniteSet(modified) /\ Cardinality(modified) = Len(queue)
  BY <1>1, QueuedCardinality DEF IInv, TypeOK, QueueIsModified, Injective
<1>3. Len(queue) \in Nat /\ Len(queue) <= QueueSize
  <2>1. queue \in Seq(Block) /\ Len(queue) <= size /\ size \in {0, QueueSize} /\ QueueSize \in Nat
    BY SizeAssumption DEF IInv, TypeOK
  <2> QED BY <2>1
<1>4. CASE Cardinality(cached) < PoolSize
  BY <1>4 DEF Evictions
<1>5. CASE ~(Cardinality(cached) < PoolSize)
  <2>1. Cardinality(cached) \in Nat /\ PoolSize \in Nat /\ QueueSize \in Nat /\ QueueSize < PoolSize
    BY FS_CardinalityType, PoolAssumption, SizeAssumption DEF PoolIsBounded
  <2>2. Cardinality(modified) # Cardinality(cached)
    BY <1>2, <1>3, <1>5, <2>1
  <2>3. PICK v : v \in cached \ modified
    BY <1>1, <2>2
  <2> QED BY <2>3 DEF Evictions
<1> QED BY <1>4, <1>5

\* The pool is never asked for more room than it has.
THEOREM PoolWithinSize == Spec => []PoolIsBounded
<1>1. Init => PoolIsBounded
  BY FS_EmptySet, PoolAssumption DEF Init, InitWith, PoolIsBounded, cached
<1>2. PoolIsBounded /\ [Next]_vars => PoolIsBounded'
  BY BoundedStep
<1> QED BY <1>1, <1>2, PTL DEF Spec

(* Whatever the sizes, as long as the queue is the smaller: the read/write  *)
(* thread finds a place for each block and an entry for each mark.          *)
THEOREM AlwaysRoom == Spec => []RoomForEveryBlock
<1>1. IInv /\ PoolIsBounded => RoomForEveryBlock
  <2> SUFFICES ASSUME IInv, PoolIsBounded PROVE RoomForEveryBlock
    OBVIOUS
  <2>1. rwpc \in {"clear", "lock", "insert"} => ~IsFull
    BY DEF IInv, Adding
  <2>2. rwpc \in {"write", "readUpdate"} => add # "new"
    BY DEF IInv, Adding, AddPcs
  <2> QED BY <2>1, <2>2, VictimExists DEF RoomForEveryBlock, PoolIsBounded
<1> QED BY <1>1, Invariance, PoolWithinSize, PTL
=============================================================================
