---------------------------- MODULE VolumeProofs ----------------------------
(***************************************************************************)
(* Proof that WriteBack implements Volume, for any volume, pool, queue and *)
(* set of requests: seen from above neither cache nor device nor write-    *)
(* back thread is there.                                                   *)
(***************************************************************************)
EXTENDS WriteBackProofs

-----------------------------------------------------------------------------
(* What the refinement mapping of WriteBack shows of a state.              *)

\* The contents of the volume,
Contents == [b \in Block |-> IF b \in cached THEN data[b] ELSE disk[b]]

\* the requests it owes an answer,
Owed == [k \in 1..(Len(rwList) + IF cur = None THEN 0 ELSE 1) |->
           IF cur = None THEN Serves(rwList[k])
           ELSE IF k = 1 THEN Serves(cur) ELSE Serves(rwList[k - 1])]

\* and the answer that has been determined.
Given == IF rwpc = "answered" THEN buf ELSE None

LEMMA Mapping ==
  V!volVars = <<Contents, Owed, Given>>
BY DEF V!volVars, Contents, Owed, Given

-----------------------------------------------------------------------------
(* The invariant: what has been done of the request that is served.        *)

\* A cancelled IRP is not served, and never completed.
CancelledWait == cur \notin cancelled /\ \A i \in cancelled : req[i] # None

\* The thread goes through the steps of the request it has.
OpAsServed ==
  /\ rwpc \in {"readUpdate", "answered"} => req[cur].op = "read"
  /\ rwpc \in {"write"} \cup AddPcs => req[cur].op = "write" /\ todo \subseteq Blocks(req[cur])

\* The blocks gone through hold what the volume does, where the read asked for them.
ReadSoFar ==
  rwpc = "readUpdate" =>
    /\ DOMAIN buf = Blocks(req[cur]) /\ todo \subseteq Blocks(req[cur])
    /\ \A b \in Blocks(req[cur]) \ todo : \A p \in Covers(b) : buf[b][p] = Contents[b][p]

\* Block b of the volume holds what the write stores there.
Stored(b) == \A p \in Covers(b) : Contents[b][p] = req[cur].val[b][p]

\* The blocks gone through are in the volume, and the one placed and not yet queued.
WrittenSoFar ==
  rwpc \in {"write"} \cup AddPcs =>
    \A b \in Blocks(req[cur]) :
      b \notin todo \/ (add \in {"old", "new"} /\ b = NextBlock) => Stored(b)

ServiceInv == CancelledWait /\ OpAsServed /\ ReadSoFar /\ WrittenSoFar

-----------------------------------------------------------------------------
(* The contents of the volume: four steps change a block, each as the write *)
(* that is served says; no other step, and no eviction or flush, does.      *)

StoringStep == RwWriteThrough \/ RwWriteNew \/ RwWriteReplace \/ RwInsertHit

\* The write that is served stores its parts of the next block.
StoresNext ==
  Contents' = [Contents EXCEPT ![NextBlock] = Merge(@, req[cur].val[NextBlock], Covers(NextBlock))]

LEMMA ContentsType ==
  ASSUME TypeOK
  PROVE  Contents \in [Block -> Content]
BY PartialFunction DEF TypeOK, Contents, cached

\* Outside a flush a block that may be given up is on the device.
LEMMA GivenUpIsOnDisk ==
  ASSUME IInv, Unmappable = {}, rwpc # "finish", add # "old", NEW x \in cached \ modified
  PROVE  data[x] = disk[x]
<1>1. acc = <<>>
  BY DEF IInv, Handshake
<1>2. Merged = {}
  BY <1>1, RunType DEF IInv
<1> QED BY <1>2 DEF IInv, CleanIsOnDisk

\* Placing a block changes that block of the volume and no other.
LEMMA PlacedContents ==
  ASSUME IInv, Unmappable = {}, rwpc # "finish", add # "old", disk' = disk,
         NEW b \in Block, NEW c \in Content, NEW e, e \cap modified = {}, Place(b, c, e)
  PROVE  Contents' = [Contents EXCEPT ![b] = c]
<1>1. /\ cached' = (cached \ e) \cup {b} /\ data'[b] = c
      /\ \A x \in cached' \ {b} : x \in cached /\ data'[x] = data[x]
  BY Placed DEF IInv, TypeOK
<1>2. ASSUME NEW x \in Block \ {b} PROVE Contents'[x] = Contents[x]
  <2>1. CASE x \in cached'
    BY <1>1, <2>1 DEF Contents
  <2>2. CASE x \notin cached' /\ x \in cached
    <3>1. x \notin modified
      BY <1>1, <2>2
    <3> QED BY <2>2, <3>1, GivenUpIsOnDisk DEF Contents
  <2>3. CASE x \notin cached' /\ x \notin cached
    BY <2>3 DEF Contents
  <2> QED BY <2>1, <2>2, <2>3
<1>3. Contents'[b] = c
  BY <1>1 DEF Contents
<1> QED BY <1>2, <1>3 DEF Contents

\* Contents that replace all parts of a block.
LEMMA MergeWhole ==
  ASSUME NEW old, NEW new \in Content
  PROVE  Merge(old, new, Part) = new
BY DEF Merge, Content

LEMMA StoredByWrite ==
  ASSUME IInv, Unmappable = {}, StoringStep
  PROVE  /\ StoresNext /\ todo # {} /\ NextBlock \in todo
         /\ UNCHANGED <<req, cur, rwList, cancelled>>
<1> USE DEF eventVars, ioctlVars, diskVars, irpVars, rwVars, wbVars
<1>1. /\ TypeOK /\ IrpsInPlace /\ rwpc \notin {"wait", "pop"} /\ rwpc \in {"write", "insert"}
      /\ UNCHANGED <<req, cur, rwList, cancelled>>
  BY DEF IInv, StoringStep, RwWriteThrough, RwWriteNew, RwWriteReplace, RwInsertHit
<1>2. todo # {} /\ NextBlock \in todo /\ NextBlock \in Block
  BY <1>1, NextBlockInTodo DEF IInv, Adding, AddPcs, TypeOK,
     StoringStep, RwWriteThrough, RwWriteNew, RwWriteReplace, RwInsertHit
<1>3. req[cur].val[NextBlock] \in Content
  BY <1>1, <1>2, ServedRequest
<1>4. CASE RwWriteThrough
  <2>1. /\ NextBlock \notin cached /\ data' = data
        /\ disk' = [disk EXCEPT ![NextBlock] = Merge(@, req[cur].val[NextBlock], Covers(NextBlock))]
    BY <1>4 DEF RwWriteThrough
  <2> QED BY <1>1, <1>2, <2>1 DEF TypeOK, StoresNext, Contents, cached
<1>5. CASE RwInsertHit
  <2>1. /\ NextBlock \in cached /\ disk' = disk
        /\ data' = [data EXCEPT ![NextBlock] = Merge(@, req[cur].val[NextBlock], Covers(NextBlock))]
    BY <1>5 DEF RwInsertHit, IInv, Adding, AddPcs
  <2> QED BY <1>1, <1>2, <2>1 DEF StoresNext, Contents, cached
<1>6. CASE RwWriteNew \/ RwWriteReplace
  <2>1. /\ rwpc = "write" /\ disk' = disk /\ Covers(NextBlock) = Part
        /\ \E e : e \cap modified = {} /\ Place(NextBlock, req[cur].val[NextBlock], e)
    BY <1>6, EvictionsClean DEF RwWriteNew, RwWriteReplace, Whole
  <2>2. add = "none"
    BY <2>1 DEF IInv, Adding, AddPcs
  <2>3. Contents' = [Contents EXCEPT ![NextBlock] = req[cur].val[NextBlock]]
    BY <1>2, <1>3, <2>1, <2>2, PlacedContents
  <2>4. Merge(Contents[NextBlock], req[cur].val[NextBlock], Covers(NextBlock)) = req[cur].val[NextBlock]
    BY <1>3, <2>1, MergeWhole
  <2> QED BY <1>1, <1>2, <2>3, <2>4 DEF StoresNext
<1> QED BY <1>1, <1>2, <1>4, <1>5, <1>6 DEF StoringStep

\* What the write-back thread writes to the device is what the pool holds.
LEMMA KeptByFlush ==
  ASSUME RunIsCurrent, WbThread
  PROVE  Contents' = Contents
<1> USE DEF eventVars, ioctlVars, diskVars, irpVars, rwVars, wbVars
<1>1. CASE UNCHANGED <<data, disk>>
  BY <1>1 DEF Contents, cached
<1>2. CASE WbRestart \/ WbWriteLast
  <2>1. data' = data /\ disk' = Written
    BY <1>2 DEF WbRestart, WbWriteLast
  <2>2. \A b \in Block \ cached : disk'[b] = disk[b]
    BY <2>1 DEF RunIsCurrent, Written
  <2> QED BY <2>1, <2>2 DEF Contents, cached
<1> QED BY <1>1, <1>2 DEF WbThread, WbWake, WbCheck, WbLock, WbGather, WbUnlock, WbSignal

\* Reading, replacing for a read, and flushing change nothing.
LEMMA KeptOtherwise ==
  ASSUME IInv, Unmappable = {}, [Next]_vars, ~StoringStep
  PROVE  Contents' = Contents
<1> USE DEF eventVars, ioctlVars, diskVars, irpVars, rwVars, wbVars
<1>1. CASE UNCHANGED <<data, disk>>
  BY <1>1 DEF Contents, cached
<1>2. CASE RwReadPlace
  <2>1. /\ rwpc = "readUpdate" /\ todo # {} /\ disk' = disk /\ NextBlock \notin cached
        /\ \E e : e \cap modified = {} /\ Place(NextBlock, buf[NextBlock], e)
    BY <1>2, EvictionsClean DEF RwReadPlace
  <2>2. /\ NextBlock \in Block /\ buf[NextBlock] = disk[NextBlock] /\ disk[NextBlock] \in Content
    BY <2>1, NextBlockInTodo DEF IInv, TypeOK, ReadIsCurrent
  <2>3. add = "none"
    BY <2>1 DEF IInv, Adding, AddPcs
  <2>4. Contents' = [Contents EXCEPT ![NextBlock] = buf[NextBlock]]
    BY <2>1, <2>2, <2>3, PlacedContents
  <2>5. Contents[NextBlock] = buf[NextBlock]
    BY <2>1, <2>2 DEF Contents
  <2> QED BY <2>4, <2>5, ContentsType DEF IInv
<1>3. CASE Dispatch \/ (\E i \in Irp : Signal(i))
  BY <1>1, <1>3 DEF Dispatch, Submit, Cancel, Signal
<1>4. CASE RwWake \/ RwPop \/ RwDropCancelled \/ RwListEmpty \/ RwPassDown
  <2>1. RwPassDown => disk' = disk
    BY PassedEmpty DEF IInv
  <2> QED BY <1>1, <1>4, <2>1 DEF RwWake, RwPop, RwDropCancelled, RwListEmpty, RwPassDown
<1>5. CASE RwRead
  BY <1>1, <1>2, <1>5 DEF RwRead, RwReadHit, RwForward, RwForwardFails, RwReadCached,
     RwReadSkip, RwReadUpdated, RwCompleteRead
<1>6. CASE RwWrite
  BY <1>1, <1>6 DEF StoringStep, RwWrite, RwWriteBegin, RwWriteCached, RwQueueFull, RwFlushed,
     RwQueueHasRoom, RwClear, RwLock, RwInsertOld, RwInsertNew, RwCompleteWrite
<1>7. CASE WbThread
  BY <1>7, KeptByFlush DEF IInv
<1>8. CASE UNCHANGED vars
  BY <1>1, <1>8 DEF vars
<1> QED BY <1>3, <1>4, <1>5, <1>6, <1>7, <1>8 DEF Next, RwThread

-----------------------------------------------------------------------------
(* The requests: which steps move them.                                    *)

FinishingStep == RwPassDown \/ RwForwardFails \/ RwCompleteRead \/ RwCompleteWrite

LEMMA Finished ==
  ASSUME IInv, FinishingStep
  PROVE  /\ rwpc \notin {"wait", "pop"} /\ cur \in Irp /\ cur # None
         /\ req' = [req EXCEPT ![cur] = None] /\ cur' = None /\ rwpc' = "pop"
         /\ UNCHANGED <<rwList, cancelled, data>>
<1>1. rwpc \notin {"wait", "pop"}
  BY DEF FinishingStep, RwPassDown, RwForwardFails, RwCompleteRead, RwCompleteWrite, Serving
<1>2. cur \in Irp /\ cur # None
  BY <1>1, ServedRequest DEF IInv, IrpsInPlace
<1> QED BY <1>1, <1>2 DEF FinishingStep, FinishCur, RwPassDown, RwForwardFails, RwCompleteRead,
        RwCompleteWrite, diskVars

LEMMA RequestsKept ==
  ASSUME [Next]_vars, ~Dispatch, ~RwPop, ~RwDropCancelled, ~FinishingStep
  PROVE  UNCHANGED <<rwList, req, cur, cancelled>>
<1> USE DEF eventVars, ioctlVars, diskVars, irpVars, rwVars, wbVars
<1>1. CASE \E i \in Irp : Signal(i)
  BY <1>1 DEF Signal
<1>2. CASE RwWake \/ RwListEmpty
  BY <1>2 DEF RwWake, RwListEmpty
<1>3. CASE RwRead
  BY <1>3 DEF FinishingStep, RwRead, RwReadHit, RwForward, RwReadCached, RwReadPlace, RwReadSkip,
     RwReadUpdated
<1>4. CASE RwWrite
  BY <1>4 DEF FinishingStep, RwWrite, RwWriteBegin, RwWriteThrough, RwWriteCached, RwWriteNew,
     RwWriteReplace, RwQueueFull, RwFlushed, RwQueueHasRoom, RwClear, RwLock, RwInsertHit,
     RwInsertOld, RwInsertNew
<1>5. CASE WbThread
  BY <1>5 DEF WbThread, WbWake, WbCheck, WbLock, WbGather, WbRestart, WbWriteLast,
     WbUnlock, WbSignal
<1>6. CASE UNCHANGED vars
  BY <1>6 DEF vars
<1> QED BY <1>1, <1>2, <1>3, <1>4, <1>5, <1>6 DEF Next, RwThread, FinishingStep

\* The request that is served stays the same until it is finished.
LEMMA ServedKept ==
  ASSUME IInv, [Next]_vars, rwpc \notin {"wait", "pop"}, ~FinishingStep
  PROVE  cur' = cur /\ req'[cur] = req[cur] /\ (cur \in cancelled' => cur \in cancelled)
<1> USE DEF eventVars, ioctlVars, diskVars, irpVars, rwVars, wbVars
<1>1. cur \in Irp /\ req[cur] # None /\ \A k \in DOMAIN rwList : rwList[k] # cur
  BY ServedRequest DEF IInv, IrpsInPlace
<1>2. ~RwPop /\ ~RwDropCancelled
  BY DEF RwPop, RwDropCancelled
<1>3. ASSUME NEW i \in Irp, NEW r \in Request, Submit(i, r)
      PROVE  cur' = cur /\ req'[cur] = req[cur] /\ cancelled' = cancelled
  BY <1>1, <1>3 DEF Submit, IInv, TypeOK
<1>4. ASSUME NEW i \in Irp, Cancel(i)
      PROVE  cur' = cur /\ req'[cur] = req[cur] /\ cancelled' \subseteq cancelled \cup {i} /\ i # cur
  BY <1>1, <1>4 DEF Cancel
<1> QED BY <1>2, <1>3, <1>4, RequestsKept DEF Dispatch

-----------------------------------------------------------------------------
(* The invariant is preserved, one part after the other.                   *)

LEMMA InitService == Init => ServiceInv
BY DEF Init, InitWith, ServiceInv, CancelledWait, OpAsServed, ReadSoFar, WrittenSoFar, AddPcs

\* CancelledWait: an IRP is cancelled only while it is on the list, and dropped from there.
LEMMA CancelledStep ==
  ASSUME IInv, CancelledWait, [Next]_vars
  PROVE  CancelledWait'
<1> USE DEF eventVars, ioctlVars, diskVars, irpVars, rwVars, wbVars
<1>0. /\ req \in [Irp -> Request \cup {None}] /\ cancelled \subseteq Irp /\ rwList \in Seq(Irp)
      /\ None \notin Irp /\ None \notin Request
  BY IrpAssumption DEF IInv, TypeOK
<1>1. ASSUME NEW i \in Irp, NEW r \in Request, Submit(i, r) PROVE CancelledWait'
  BY <1>0, <1>1 DEF Submit, CancelledWait
<1>2. ASSUME NEW i \in Irp, Cancel(i) PROVE CancelledWait'
  BY <1>0, <1>2 DEF Cancel, CancelledWait, IInv, IrpsInPlace
<1>3. CASE RwPop
  BY <1>0, <1>3 DEF RwPop, CancelledWait
<1>4. CASE RwDropCancelled
  BY <1>4 DEF RwDropCancelled, CancelledWait
<1>5. CASE FinishingStep
  BY <1>0, <1>5, Finished DEF CancelledWait
<1>6. CASE UNCHANGED <<rwList, req, cur, cancelled>>
  BY <1>6 DEF CancelledWait
<1> QED BY <1>1, <1>2, <1>3, <1>4, <1>5, <1>6, RequestsKept DEF Dispatch

\* The other parts are about the request that is served, and say nothing between two of them.
LEMMA NothingBetween ==
  ASSUME rwpc' \in {"wait", "pop", "serve"}
  PROVE  OpAsServed' /\ ReadSoFar' /\ WrittenSoFar'
BY DEF OpAsServed, ReadSoFar, WrittenSoFar, AddPcs

\* They are preserved by a step that changes nothing they are about.
LEMMA ServiceSame ==
  ASSUME OpAsServed, ReadSoFar, WrittenSoFar, Contents' = Contents,
         cur' = cur, req'[cur] = req[cur], UNCHANGED <<rwpc, todo, buf, add>>
  PROVE  OpAsServed' /\ ReadSoFar' /\ WrittenSoFar'
<1>1. req[cur]' = req[cur] /\ NextBlock' = NextBlock
  BY NextBlockSame
<1>2. OpAsServed' /\ ReadSoFar'
  BY <1>1 DEF OpAsServed, ReadSoFar, Covers, Blocks
<1>3. WrittenSoFar'
  BY <1>1 DEF WrittenSoFar, Stored, Covers, Blocks
<1> QED BY <1>2, <1>3

\* The steps of a read: the blocks read from the device are replaced by newer ones one by one.
LEMMA ServiceReadStep ==
  ASSUME IInv, Unmappable = {}, OpAsServed, ReadSoFar, [Next]_vars, RwRead
  PROVE  OpAsServed' /\ ReadSoFar' /\ WrittenSoFar'
<1> USE DEF eventVars, ioctlVars, diskVars, irpVars, rwVars, wbVars
<1>1. CASE FinishingStep
  <2>1. rwpc' = "pop"
    BY <1>1, Finished
  <2> QED BY <2>1, NothingBetween
<1>2. SUFFICES ASSUME ~FinishingStep PROVE OpAsServed' /\ ReadSoFar' /\ WrittenSoFar'
  BY <1>1
<1>3. /\ RwReadHit \/ RwForward \/ RwReadCached \/ RwReadPlace \/ RwReadSkip \/ RwReadUpdated
      /\ rwpc \notin {"wait", "pop"} /\ rwpc' \in {"readUpdate", "answered"}
      /\ UNCHANGED <<cur, req>>
  BY <1>2 DEF RwRead, FinishingStep, RwReadHit, RwForward, RwReadCached, RwReadPlace, RwReadSkip,
     RwReadUpdated, Serving
<1>4. WrittenSoFar'
  BY <1>3 DEF WrittenSoFar, AddPcs
<1>5. OpAsServed'
  BY <1>3 DEF OpAsServed, AddPcs, RwReadHit, RwForward, RwReadCached, RwReadPlace, RwReadSkip,
     RwReadUpdated, Serving
<1>6. Contents' = Contents
  <2>1. ~StoringStep
    BY <1>3 DEF StoringStep, RwWriteThrough, RwWriteNew, RwWriteReplace, RwInsertHit,
       RwReadHit, RwForward, RwReadCached, RwReadPlace, RwReadSkip, RwReadUpdated, Serving
  <2> QED BY <2>1, KeptOtherwise
<1>7. CASE RwReadHit \/ RwReadUpdated
  BY <1>4, <1>5, <1>7 DEF RwReadHit, RwReadUpdated, ReadSoFar
<1>8. CASE RwForward
  BY <1>3, <1>4, <1>5, <1>8 DEF RwForward, ReadSoFar, Blocks
<1>9. CASE RwReadCached \/ RwReadPlace \/ RwReadSkip
  <2>1. /\ rwpc = "readUpdate" /\ todo # {} /\ todo' = todo \ {NextBlock}
        /\ DOMAIN buf' = DOMAIN buf /\ \A b \in DOMAIN buf \ {NextBlock} : buf'[b] = buf[b]
    BY <1>9 DEF RwReadCached, RwReadPlace, RwReadSkip
  <2>2. /\ NextBlock \in todo /\ NextBlock \in Block /\ NextBlock \in DOMAIN buf
        /\ buf[NextBlock] = disk[NextBlock]
    BY <2>1, NextBlockInTodo DEF IInv, TypeOK, ReadIsCurrent
  <2>3. \A b \in Blocks(req[cur]) : Covers(b) \subseteq Part
    BY <1>3, ServedRequest, RequestAssumption DEF IInv, RequestType, Covers, Blocks
  <2>4. ASSUME NEW p \in Covers(NextBlock) PROVE buf'[NextBlock][p] = Contents[NextBlock][p]
    <3>1. CASE RwReadCached
      <4>1. /\ NextBlock \in cached
            /\ buf'[NextBlock] = Merge(buf[NextBlock], data[NextBlock], Covers(NextBlock))
        BY <2>2, <3>1 DEF RwReadCached
      <4>2. p \in Part
        BY <2>1, <2>2, <2>3 DEF ReadSoFar
      <4> QED BY <2>2, <4>1, <4>2 DEF Merge, Contents
    <3>2. CASE RwReadPlace \/ RwReadSkip
      <4>1. NextBlock \notin cached /\ buf' = buf
        BY <3>2 DEF RwReadPlace, RwReadSkip
      <4> QED BY <2>2, <4>1 DEF Contents
    <3> QED BY <1>9, <3>1, <3>2
  <2>5. /\ DOMAIN buf' = Blocks(req[cur]) /\ todo' \subseteq Blocks(req[cur])
        /\ \A b \in Blocks(req[cur]) \ todo' : \A p \in Covers(b) : buf'[b][p] = Contents[b][p]
    BY <2>1, <2>4 DEF ReadSoFar
  <2>6. ReadSoFar'
    BY <1>3, <1>6, <2>5 DEF ReadSoFar, Covers, Blocks
  <2> QED BY <1>4, <1>5, <2>6
<1> QED BY <1>3, <1>4, <1>5, <1>7, <1>8, <1>9

\* What has just been stored is there.
LEMMA StoresStored ==
  ASSUME TypeOK, StoresNext, NextBlock \in Block, Covers(NextBlock) \subseteq Part
  PROVE  /\ \A p \in Covers(NextBlock) : Contents'[NextBlock][p] = req[cur].val[NextBlock][p]
         /\ \A b \in Block \ {NextBlock} : Contents'[b] = Contents[b]
<1>1. Contents \in [Block -> Content]
  BY ContentsType
<1>2. /\ Contents'[NextBlock] = Merge(Contents[NextBlock], req[cur].val[NextBlock], Covers(NextBlock))
      /\ \A b \in Block \ {NextBlock} : Contents'[b] = Contents[b]
  BY <1>1 DEF StoresNext
<1> QED BY <1>2 DEF Merge

\* The steps of a write: block by block the parts of the request are stored.
LEMMA ServiceWriteStep ==
  ASSUME IInv, Unmappable = {}, OpAsServed, WrittenSoFar, [Next]_vars, RwWrite
  PROVE  OpAsServed' /\ ReadSoFar' /\ WrittenSoFar'
<1> USE DEF eventVars, ioctlVars, diskVars, irpVars, rwVars, wbVars
<1>1. CASE FinishingStep
  <2>1. rwpc' = "pop"
    BY <1>1, Finished
  <2> QED BY <2>1, NothingBetween
<1>2. SUFFICES ASSUME ~FinishingStep PROVE OpAsServed' /\ ReadSoFar' /\ WrittenSoFar'
  BY <1>1
<1>3. /\ rwpc \notin {"wait", "pop"} /\ rwpc' \in {"write"} \cup AddPcs
      /\ UNCHANGED <<cur, req>>
  BY <1>2 DEF RwWrite, FinishingStep, RwWriteBegin, RwWriteThrough, RwWriteCached, RwWriteNew,
     RwWriteReplace, RwQueueFull, RwFlushed, RwQueueHasRoom, RwClear, RwLock, RwInsertHit,
     RwInsertOld, RwInsertNew, Serving, AddPcs
<1>4. ReadSoFar'
  BY <1>3 DEF ReadSoFar, AddPcs
<1> DEFINE B == Blocks(req[cur])
<1>5. /\ B \subseteq Block /\ \A b \in B : Covers(b) \subseteq Part
      /\ B' = B /\ \A b : Covers(b)' = Covers(b)
  BY <1>3, ServedRequest, RequestAssumption DEF IInv, RequestType, Covers, Blocks
<1>6. CASE RwWriteBegin
  <2>1. /\ req[cur].op = "write" /\ todo' = B
    BY <1>6 DEF RwWriteBegin, Serving
  <2>2. OpAsServed'
    BY <1>3, <2>1, <1>5 DEF OpAsServed, AddPcs
  <2>3. add' = "none"
    BY <1>6 DEF RwWriteBegin, Serving, IInv, Adding, AddPcs
  <2>4. WrittenSoFar'
    BY <1>5, <2>1, <2>3 DEF WrittenSoFar
  <2> QED BY <1>4, <2>2, <2>4
<1>7. SUFFICES ASSUME ~RwWriteBegin PROVE OpAsServed' /\ ReadSoFar' /\ WrittenSoFar'
  BY <1>6
<1>8. rwpc \in {"write"} \cup AddPcs /\ todo' \subseteq todo
  BY <1>2, <1>7 DEF RwWrite, FinishingStep, RwWriteThrough, RwWriteCached, RwWriteNew,
     RwWriteReplace, RwQueueFull, RwFlushed, RwQueueHasRoom, RwClear, RwLock, RwInsertHit,
     RwInsertOld, RwInsertNew, AddPcs
<1>9. OpAsServed'
  BY <1>3, <1>5, <1>8 DEF OpAsServed, AddPcs
<1>10. CASE StoringStep
  <2>1. /\ StoresNext /\ NextBlock \in B
    BY <1>8, <1>10, StoredByWrite DEF OpAsServed
  <2>2. /\ \A p \in Covers(NextBlock) : Contents'[NextBlock][p] = req[cur].val[NextBlock][p]
        /\ \A b \in Block \ {NextBlock} : Contents'[b] = Contents[b]
    BY <1>5, <2>1, StoresStored DEF IInv
  <2>3. \/ todo' = todo /\ rwpc = "write"
        \/ todo' = todo \ {NextBlock} /\ add' = "none" /\ add \in {"none", "hit"}
    BY <1>10 DEF StoringStep, RwWriteThrough, RwWriteNew, RwWriteReplace, RwInsertHit,
       IInv, Adding, AddPcs
  <2>4. add \notin {"old", "new"}
    BY <2>3 DEF IInv, Adding, AddPcs
  <2>5. ASSUME NEW b \in B, b \notin todo' \/ (add' \in {"old", "new"} /\ b = NextBlock')
        PROVE  Stored(b)'
    <3>1. CASE b = NextBlock
      BY <1>3, <1>5, <2>2, <3>1 DEF Stored
    <3>2. CASE b # NextBlock
      <4>1. b \notin todo
        BY <2>3, <2>5, <3>2, NextBlockSame
      <4>2. Stored(b)
        BY <1>8, <4>1 DEF WrittenSoFar
      <4> QED BY <1>3, <1>5, <2>2, <3>2, <4>2 DEF Stored
    <3> QED BY <3>1, <3>2
  <2>6. WrittenSoFar'
    BY <1>5, <2>5 DEF WrittenSoFar
  <2> QED BY <1>4, <1>9, <2>6
<1>11. CASE ~StoringStep
  <2>1. Contents' = Contents
    BY <1>11, KeptOtherwise
  <2>2. \A b \in B : Stored(b)' <=> Stored(b)
    BY <1>3, <1>5, <2>1 DEF Stored
  <2>3. \/ todo' = todo /\ (add' = add \/ add' = "hit")
        \/ todo' = todo \ {NextBlock} /\ add' = "none" /\ add \in {"old", "new"}
    BY <1>2, <1>7, <1>11 DEF RwWrite, FinishingStep, StoringStep, RwWriteCached, RwQueueFull,
       RwFlushed, RwQueueHasRoom, RwClear, RwLock, RwInsertOld, RwInsertNew
  <2>4. \A b \in B : b \notin todo' \/ (add' \in {"old", "new"} /\ b = NextBlock') =>
                       b \notin todo \/ (add \in {"old", "new"} /\ b = NextBlock)
    BY <2>3, NextBlockSame
  <2>5. WrittenSoFar'
    BY <1>5, <1>8, <2>2, <2>4 DEF WrittenSoFar
  <2> QED BY <1>4, <1>9, <2>5
<1> QED BY <1>10, <1>11

\* Together.
LEMMA ServiceStep ==
  ASSUME IInv, Unmappable = {}, ServiceInv, [Next]_vars
  PROVE  ServiceInv'
<1> USE DEF eventVars, ioctlVars, diskVars, irpVars, rwVars, wbVars
<1>1. CancelledWait /\ OpAsServed /\ ReadSoFar /\ WrittenSoFar
  BY DEF ServiceInv
<1>2. SUFFICES OpAsServed' /\ ReadSoFar' /\ WrittenSoFar'
  BY <1>1, CancelledStep DEF ServiceInv
<1>3. CASE RwRead
  BY <1>1, <1>3, ServiceReadStep
<1>4. CASE RwWrite
  BY <1>1, <1>4, ServiceWriteStep
<1>5. CASE RwWake \/ RwPop \/ RwDropCancelled \/ RwListEmpty \/ RwPassDown
  <2>1. rwpc' \in {"wait", "pop", "serve"}
    BY <1>5 DEF RwWake, RwPop, RwDropCancelled, RwListEmpty, RwPassDown, FinishCur
  <2> QED BY <2>1, NothingBetween
<1>6. CASE Dispatch \/ (\E i \in Irp : Signal(i)) \/ WbThread \/ UNCHANGED vars
  <2>1. UNCHANGED <<rwpc, todo, buf, add>>
    BY <1>6 DEF Dispatch, Submit, Cancel, Signal, WbThread, WbWake, WbCheck, WbLock, WbGather,
       WbRestart, WbWriteLast, WbUnlock, WbSignal, vars
  <2>2. Contents' = Contents
    <3>1. UNCHANGED <<data, disk>> \/ WbRestart \/ WbWriteLast
      BY <1>6 DEF Dispatch, Submit, Cancel, Signal, WbThread, WbWake, WbCheck, WbLock, WbGather,
         WbUnlock, WbSignal, vars
    <3>2. CASE UNCHANGED <<data, disk>>
      BY <3>2 DEF Contents, cached
    <3>3. CASE WbRestart \/ WbWriteLast
      <4>1. rwpc = "finish"
        BY <3>3 DEF WbRestart, WbWriteLast, IInv, Handshake
      <4>2. UNCHANGED rwpc /\ ~StoringStep
        BY <2>1, <4>1 DEF StoringStep, RwWriteThrough, RwWriteNew, RwWriteReplace, RwInsertHit
      <4> QED BY <4>2, KeptOtherwise
    <3> QED BY <3>1, <3>2, <3>3
  <2>3. CASE rwpc \in {"wait", "pop"}
    BY <2>1, <2>3, NothingBetween
  <2>4. CASE rwpc \notin {"wait", "pop"}
    <3>1. ~FinishingStep
      BY <2>1, <2>4, Finished
    <3>2. cur' = cur /\ req'[cur] = req[cur]
      BY <2>4, <3>1, ServedKept
    <3> QED BY <1>1, <2>1, <2>2, <3>2, ServiceSame
  <2> QED BY <2>3, <2>4
<1> QED BY <1>3, <1>4, <1>5, <1>6 DEF Next, RwThread

-----------------------------------------------------------------------------
(* The requests owed: queued at the end, taken from the front, and the same *)
(* whether the one in front is on the list or already in hand.              *)

OwedType == [req : Request, void : BOOLEAN]
InHand == IF cur = None THEN 0 ELSE 1

LEMMA OwedSeq ==
  ASSUME IInv
  PROVE  /\ rwList \in Seq(Irp) /\ InHand \in {0, 1} /\ Len(rwList) \in Nat
         /\ Owed \in Seq(OwedType) /\ Len(Owed) = Len(rwList) + InHand
         /\ \A k \in DOMAIN rwList : Owed[k + InHand] = Serves(rwList[k])
         /\ cur # None => Owed[1] = Serves(cur)
<1>1. rwList \in Seq(Irp) /\ Len(rwList) \in Nat /\ InHand \in {0, 1}
  BY DEF IInv, TypeOK, InHand
<1> DEFINE n == Len(rwList) + InHand
<1>2. n \in Nat /\ Owed = [k \in 1..n |-> Owed[k]] /\ DOMAIN Owed = 1..n
  BY <1>1 DEF Owed, InHand
<1>3. ASSUME NEW k \in 1..n PROVE Owed[k] \in OwedType
  <2>1. \A i \in Irp : req[i] # None => Serves(i) \in OwedType
    BY DEF Serves, OwedType, IInv, TypeOK
  <2>2. CASE cur = None
    <3>1. k \in DOMAIN rwList /\ Owed[k] = Serves(rwList[k])
      BY <1>1, <2>2 DEF Owed, InHand
    <3> QED BY <1>1, <2>1, <3>1 DEF IInv, IrpsInPlace
  <2>3. CASE cur # None /\ k = 1
    <3>1. Owed[k] = Serves(cur)
      BY <1>1, <2>3 DEF Owed, InHand
    <3> QED BY <2>1, <2>3, <3>1 DEF IInv, IrpsInPlace, TypeOK
  <2>4. CASE cur # None /\ k # 1
    <3>1. k - 1 \in DOMAIN rwList /\ Owed[k] = Serves(rwList[k - 1])
      BY <1>1, <2>4 DEF Owed, InHand
    <3> QED BY <1>1, <2>1, <3>1 DEF IInv, IrpsInPlace
  <2> QED BY <2>2, <2>3, <2>4
<1>4. Owed \in Seq(OwedType) /\ Len(Owed) = n
  <2>1. Owed \in [1..n -> OwedType]
    BY <1>2, <1>3
  <2> HIDE DEF n
  <2>2. Owed \in Seq(OwedType)
    BY <1>2, <2>1, SeqDef
  <2> QED BY <1>2, <2>2
<1>5. ASSUME NEW k \in DOMAIN rwList PROVE Owed[k + InHand] = Serves(rwList[k])
  <2>1. k \in 1..Len(rwList)
    BY <1>1
  <2> QED BY <1>1, <2>1 DEF Owed, InHand
<1>6. cur # None => Owed[1] = Serves(cur)
  BY <1>1 DEF Owed
<1> QED BY <1>1, <1>4, <1>5, <1>6

\* The one in front is the one in hand.
LEMMA OwedHead ==
  ASSUME IInv, cur # None
  PROVE  Owed # <<>> /\ Head(Owed) = Serves(cur)
<1>1. Owed \in Seq(OwedType) /\ Len(Owed) >= 1 /\ Owed[1] = Serves(cur)
  BY OwedSeq DEF InHand
<1> QED BY <1>1

\* Two functions with the same domain and values.
LEMMA SameFunction ==
  ASSUME NEW n \in Nat, NEW f, NEW g, f = [k \in 1..n |-> f[k]], g = [k \in 1..n |-> g[k]],
         \A k \in 1..n : f[k] = g[k]
  PROVE  f = g
OBVIOUS

\* What is owed to the issuer of IRP x.
Entry(q, c, x) == [req |-> q[x], void |-> x \in c]

\* It is told by the request and whether it is cancelled.
LEMMA SameEntry ==
  ASSUME NEW q, NEW c, NEW x, NEW q1, NEW c1, q1[x] = q[x], x \in c1 <=> x \in c
  PROVE  Entry(q1, c1, x) = Entry(q, c, x)
<1>1. (x \in c1) = (x \in c)
  OBVIOUS
<1> QED BY <1>1 DEF Entry

LEMMA CancelledEntry ==
  ASSUME NEW q, NEW v, NEW t
  PROVE  [[req |-> q, void |-> v] EXCEPT !.void = t] = [req |-> q, void |-> t]
OBVIOUS

\* A sequence is the function from its positions to what it has there.
LEMMA SeqFunction ==
  ASSUME NEW S, NEW s \in Seq(S)
  PROVE  s = [k \in 1..Len(s) |-> s[k]]
OBVIOUS

\* The one entry that is changed.
LEMMA OneCancelled ==
  ASSUME NEW n \in Nat, NEW f, NEW g, f = [k \in 1..n |-> f[k]], g = [k \in 1..n |-> g[k]],
         NEW m \in 1..n, NEW t,
         \A k \in 1..n : g[k] = IF k = m THEN [f[k] EXCEPT !.void = t] ELSE f[k]
  PROVE  g = [f EXCEPT ![m].void = t]
<1>1. DOMAIN f = 1..n
  OBVIOUS
<1>2. [f EXCEPT ![m].void = t] =
        [k \in 1..n |-> IF k = m THEN [f[k] EXCEPT !.void = t] ELSE f[k]]
  BY <1>1
<1> QED BY <1>2

LEMMA OwedFunction ==
  ASSUME IInv
  PROVE  /\ Len(rwList) + InHand \in Nat
         /\ Owed = [k \in 1..(Len(rwList) + InHand) |-> Owed[k]]
         /\ \A k \in 1..(Len(rwList) + InHand) :
              Owed[k] = IF cur = None THEN Entry(req, cancelled, rwList[k])
                        ELSE IF k = 1 THEN Entry(req, cancelled, cur)
                        ELSE Entry(req, cancelled, rwList[k - 1])
BY OwedSeq DEF Owed, InHand, Serves, Entry

LEMMA OwedFunctionNext ==
  ASSUME IInv'
  PROVE  /\ Len(rwList') + InHand' \in Nat
         /\ Owed' = [k \in 1..(Len(rwList') + InHand') |-> Owed'[k]]
         /\ \A k \in 1..(Len(rwList') + InHand') :
              Owed'[k] = IF cur' = None THEN Entry(req', cancelled', rwList'[k])
                         ELSE IF k = 1 THEN Entry(req', cancelled', cur')
                         ELSE Entry(req', cancelled', rwList'[k - 1])
<1>1. rwList' \in Seq(Irp) /\ InHand' \in {0, 1}
  BY DEF IInv, TypeOK, InHand
<1>2. Len(rwList') + InHand' \in Nat
  BY <1>1
<1> QED BY <1>2 DEF Owed, InHand, Serves, Entry

LEMMA OwedSubmitted ==
  ASSUME IInv, CancelledWait, IInv', NEW i \in Irp, NEW r \in Request, Submit(i, r)
  PROVE  Owed' = Append(Owed, [req |-> r, void |-> FALSE])
<1> USE DEF eventVars, ioctlVars, diskVars, irpVars, rwVars, wbVars
<1> DEFINE n == Len(rwList) + InHand
           s == [req |-> r, void |-> FALSE]
<1>1. /\ rwList \in Seq(Irp) /\ Len(rwList) \in Nat /\ InHand \in {0, 1} /\ n \in Nat
      /\ Owed \in Seq(OwedType) /\ Len(Owed) = n
  BY OwedSeq
<1>2. /\ rwList' = Append(rwList, i) /\ req' = [req EXCEPT ![i] = r] /\ req[i] = None
      /\ UNCHANGED <<cur, cancelled>> /\ InHand' = InHand
  BY DEF Submit, InHand
<1>3. Len(rwList') = Len(rwList) + 1
  BY <1>1, <1>2
<1>4. i \notin cancelled /\ req \in [Irp -> Request \cup {None}]
  BY <1>2 DEF CancelledWait, IInv, TypeOK
<1>5. /\ \A k \in DOMAIN rwList : rwList[k] # i /\ rwList'[k] = rwList[k]
      /\ cur # i /\ rwList'[Len(rwList) + 1] = i
  BY <1>1, <1>2, IrpAssumption DEF IInv, IrpsInPlace
<1>6. \A x \in Irp : x # i => Entry(req', cancelled', x) = Entry(req, cancelled, x)
  BY <1>2, <1>4 DEF Entry
<1>7. Entry(req', cancelled', i) = s
  <2>1. req'[i] = r /\ (i \in cancelled') = FALSE
    BY <1>2, <1>4
  <2> QED BY <2>1 DEF Entry
<1>8. /\ Len(rwList') + InHand' = n + 1
      /\ \A k \in 1..(n + 1) :
           Owed'[k] = IF cur = None THEN Entry(req', cancelled', rwList'[k])
                      ELSE IF k = 1 THEN Entry(req', cancelled', cur)
                      ELSE Entry(req', cancelled', rwList'[k - 1])
  <2>1. Len(rwList') + InHand' = n + 1
    BY <1>1, <1>2, <1>3
  <2> QED BY <1>2, <2>1, OwedFunctionNext
<1>9. ASSUME NEW k \in 1..(n + 1) PROVE Owed'[k] = Append(Owed, s)[k]
  <2>1. CASE k = n + 1
    <3>1. Append(Owed, s)[k] = s
      BY <1>1, <2>1
    <3>2. Owed'[k] = s
      <4>1. CASE cur = None
        <5>1. k = Len(rwList) + 1
          BY <1>1, <2>1, <4>1 DEF InHand
        <5> QED BY <1>5, <1>7, <1>8, <4>1, <5>1
      <4>2. CASE cur # None
        <5>1. k # 1 /\ k - 1 = Len(rwList) + 1
          BY <1>1, <2>1, <4>2 DEF InHand
        <5> QED BY <1>5, <1>7, <1>8, <4>2, <5>1
      <4> QED BY <4>1, <4>2
    <3> QED BY <3>1, <3>2
  <2>2. CASE k # n + 1
    <3>1. k \in 1..n /\ Append(Owed, s)[k] = Owed[k]
      BY <1>1, <2>2
    <3>2. Owed'[k] = Owed[k]
      <4>1. CASE cur = None
        <5>1. k \in DOMAIN rwList /\ rwList[k] \in Irp
          BY <1>1, <3>1, <4>1 DEF InHand
        <5> QED BY <1>5, <1>6, <1>8, <3>1, <4>1, <5>1, OwedFunction
      <4>2. CASE cur # None /\ k = 1
        <5>1. cur \in Irp
          BY <4>2 DEF IInv, TypeOK
        <5> QED BY <1>5, <1>6, <1>8, <3>1, <4>2, <5>1, OwedFunction
      <4>3. CASE cur # None /\ k # 1
        <5>1. k - 1 \in DOMAIN rwList /\ rwList[k - 1] \in Irp
          BY <1>1, <3>1, <4>3 DEF InHand
        <5> QED BY <1>5, <1>6, <1>8, <3>1, <4>3, <5>1, OwedFunction
      <4> QED BY <4>1, <4>2, <4>3
    <3> QED BY <3>1, <3>2
  <2> QED BY <2>1, <2>2
<1>10. Append(Owed, s) = [k \in 1..(n + 1) |-> Append(Owed, s)[k]]
  <2>1. s \in OwedType
    BY DEF OwedType
  <2>2. Append(Owed, s) \in Seq(OwedType) /\ Len(Append(Owed, s)) = n + 1
    BY <1>1, <2>1
  <2> QED BY <2>2
<1>11. Owed' = [k \in 1..(n + 1) |-> Owed'[k]]
  BY <1>8, OwedFunctionNext
<1> QED BY <1>1, <1>9, <1>10, <1>11, SameFunction

\* Cancelling marks one of them.
LEMMA OwedCancelled ==
  ASSUME IInv, IInv', NEW i \in Irp, Cancel(i)
  PROVE  \E k \in DOMAIN Owed : Owed' = [Owed EXCEPT ![k].void = TRUE]
<1> USE DEF eventVars, ioctlVars, diskVars, irpVars, rwVars, wbVars
<1> DEFINE n == Len(rwList) + InHand
<1>1. /\ rwList \in Seq(Irp) /\ Len(rwList) \in Nat /\ InHand \in {0, 1} /\ n \in Nat
      /\ Owed \in Seq(OwedType) /\ Len(Owed) = n
  BY OwedSeq
<1>2. /\ cancelled' = cancelled \cup {i}
      /\ UNCHANGED <<cur, rwList, req>> /\ InHand' = InHand
  BY DEF Cancel, InHand
<1>3. PICK j \in DOMAIN rwList : rwList[j] = i
  BY DEF Cancel
<1>4. j + InHand \in 1..n
  BY <1>1, <1>3
<1>5. \A k \in DOMAIN rwList : k # j => rwList[k] # i
  BY <1>3 DEF IInv, IrpsInPlace
<1>6. cur # i
  BY <1>3 DEF IInv, IrpsInPlace
<1>7. ASSUME NEW x, x # i PROVE Entry(req', cancelled', x) = Entry(req, cancelled, x)
  BY <1>2, <1>7, SameEntry
<1>8. Entry(req', cancelled', i) = [Entry(req, cancelled, i) EXCEPT !.void = TRUE]
  <2>1. (i \in cancelled') = TRUE /\ req' = req
    BY <1>2
  <2>2. Entry(req', cancelled', i) = [req |-> req[i], void |-> TRUE]
    BY <2>1 DEF Entry
  <2>3. [Entry(req, cancelled, i) EXCEPT !.void = TRUE] = [req |-> req[i], void |-> TRUE]
    BY CancelledEntry DEF Entry
  <2> QED BY <2>2, <2>3
<1>9. \A k \in 1..n :
        Owed'[k] = IF cur = None THEN Entry(req', cancelled', rwList[k])
                   ELSE IF k = 1 THEN Entry(req', cancelled', cur)
                   ELSE Entry(req', cancelled', rwList[k - 1])
  BY <1>2, OwedFunctionNext
<1>10. ASSUME NEW k \in 1..n
      PROVE  Owed'[k] = IF k = j + InHand THEN [Owed[k] EXCEPT !.void = TRUE] ELSE Owed[k]
  <2>1. CASE k = j + InHand
    <3>1. Owed[k] = Entry(req, cancelled, i)
      BY <1>3, <2>1, OwedSeq DEF Serves, Entry
    <3>2. Owed'[k] = Entry(req', cancelled', i)
      <4>1. CASE cur = None
        <5>1. k = j
          BY <1>1, <1>3, <2>1, <4>1 DEF InHand
        <5> QED BY <1>3, <1>9, <4>1, <5>1
      <4>2. CASE cur # None
        <5>1. k # 1 /\ k - 1 = j
          BY <1>1, <1>3, <2>1, <4>2 DEF InHand
        <5> QED BY <1>3, <1>9, <4>2, <5>1
      <4> QED BY <4>1, <4>2
    <3> QED BY <1>8, <2>1, <3>1, <3>2
  <2>2. CASE k # j + InHand
    <3>1. Owed'[k] = Owed[k]
      <4>1. CASE cur = None
        <5>1. k \in DOMAIN rwList /\ k # j
          BY <1>1, <1>3, <2>2, <4>1 DEF InHand
        <5> QED BY <1>5, <1>7, <1>9, <4>1, <5>1, OwedFunction
      <4>2. CASE cur # None /\ k = 1
        BY <1>6, <1>7, <1>9, <4>2, OwedFunction
      <4>3. CASE cur # None /\ k # 1
        <5>1. k - 1 \in DOMAIN rwList /\ k - 1 # j
          BY <1>1, <1>3, <2>2, <4>3 DEF InHand
        <5> QED BY <1>5, <1>7, <1>9, <4>3, <5>1, OwedFunction
      <4> QED BY <4>1, <4>2, <4>3
    <3> QED BY <2>2, <3>1
  <2> QED BY <2>1, <2>2
<1>11. Owed' = [k \in 1..n |-> Owed'[k]]
  BY <1>2, OwedFunctionNext
<1>12. Owed' = [Owed EXCEPT ![j + InHand].void = TRUE]
  <2>1. n \in Nat /\ j + InHand \in 1..n /\ Owed = [k \in 1..n |-> Owed[k]]
    BY <1>1, <1>4, OwedFunction
  <2> HIDE DEF n
  <2> QED BY <1>10, <1>11, <2>1, OneCancelled
<1>13. j + InHand \in DOMAIN Owed
  BY <1>1, <1>4
<1> QED BY <1>12, <1>13, Zenon

\* What is left when the one in front is done.
LEMMA OwedLess ==
  ASSUME IInv, IInv', NEW n \in Nat, Len(rwList') + InHand' = n, Len(rwList) + InHand = n + 1,
         \A k \in 1..n : Owed'[k] = Owed[k + 1]
  PROVE  Owed # <<>> /\ Owed' = Tail(Owed)
<1>1. Owed \in Seq(OwedType) /\ Len(Owed) = n + 1
  BY OwedSeq
<1>2. Tail(Owed) \in Seq(OwedType) /\ Len(Tail(Owed)) = n /\ Owed # <<>>
  BY <1>1
<1>3. /\ Tail(Owed) = [k \in 1..n |-> Tail(Owed)[k]]
      /\ \A k \in 1..n : Tail(Owed)[k] = Owed[k + 1]
  <2>1. Tail(Owed) = [k \in 1..n |-> Tail(Owed)[k]]
    BY <1>2, SeqFunction, Zenon
  <2>2. \A k \in 1..n : Tail(Owed)[k] = Owed[k + 1]
    BY <1>1, <1>2
  <2> QED BY <2>1, <2>2
<1>4. Owed' = [k \in 1..n |-> Owed'[k]]
  BY OwedFunctionNext
<1>5. Owed' = Tail(Owed)
  BY <1>3, <1>4, SameFunction
<1> QED BY <1>2, <1>5

LEMMA OwedFinished ==
  ASSUME IInv, IInv', FinishingStep
  PROVE  Owed # <<>> /\ Owed' = Tail(Owed)
<1> DEFINE n == Len(rwList)
<1>1. /\ rwList \in Seq(Irp) /\ n \in Nat
  BY OwedSeq
<1>2. /\ cur \in Irp /\ cur # None /\ req' = [req EXCEPT ![cur] = None] /\ cur' = None
      /\ UNCHANGED <<rwList, cancelled>> /\ InHand = 1 /\ InHand' = 0
  BY Finished DEF InHand
<1>3. ASSUME NEW k \in 1..n PROVE Owed'[k] = Owed[k + 1]
  <2>1. k \in DOMAIN rwList /\ rwList[k] \in Irp /\ rwList[k] # cur
    BY <1>1 DEF IInv, IrpsInPlace
  <2>2. Owed[k + 1] = Entry(req, cancelled, rwList[k])
    BY <1>2, <2>1, OwedSeq DEF Serves, Entry
  <2>3. Owed'[k] = Entry(req', cancelled', rwList[k])
    <3>1. k \in 1..(Len(rwList') + InHand') /\ cur' = None
      BY <1>1, <1>2
    <3>2. Owed'[k] = Entry(req', cancelled', rwList'[k])
      BY <3>1, OwedFunctionNext
    <3> QED BY <1>2, <3>2
  <2>4. req'[rwList[k]] = req[rwList[k]]
    BY <1>2, <2>1 DEF IInv, TypeOK
  <2>5. rwList[k] \in cancelled' <=> rwList[k] \in cancelled
    BY <1>2
  <2> QED BY <2>2, <2>3, <2>4, <2>5, SameEntry
<1> QED BY <1>1, <1>2, <1>3, OwedLess

LEMMA OwedDropped ==
  ASSUME IInv, IInv', RwDropCancelled
  PROVE  Owed # <<>> /\ Owed' = Tail(Owed) /\ Head(Owed).void
<1> USE DEF eventVars, ioctlVars, diskVars, irpVars, rwVars, wbVars
<1>1. /\ rwpc = "pop" /\ rwList # <<>> /\ Head(rwList) \in cancelled /\ rwList' = Tail(rwList)
      /\ UNCHANGED <<req, cur, cancelled>>
  BY DEF RwDropCancelled
<1>2. cur = None /\ InHand = 0 /\ InHand' = 0
  BY <1>1 DEF IInv, IrpsInPlace, InHand
<1>3. rwList \in Seq(Irp) /\ Len(rwList) \in Nat \ {0} /\ Head(rwList) = rwList[1]
  BY <1>1, OwedSeq
<1> DEFINE n == Len(rwList) - 1
<1>4. n \in Nat /\ Len(rwList') = n
  BY <1>1, <1>3
<1>5. ASSUME NEW k \in 1..n PROVE Owed'[k] = Owed[k + 1]
  <2>1. k + 1 \in DOMAIN rwList /\ rwList'[k] = rwList[k + 1]
    BY <1>1, <1>3
  <2>2. Owed[k + 1] = Entry(req, cancelled, rwList[k + 1])
    BY <1>2, <2>1, OwedSeq DEF Serves, Entry
  <2>3. Owed'[k] = Entry(req', cancelled', rwList'[k])
    BY <1>1, <1>2, <1>4, OwedFunctionNext
  <2> QED BY <1>1, <2>1, <2>2, <2>3
<1>6. Owed # <<>> /\ Owed' = Tail(Owed)
  BY <1>2, <1>3, <1>4, <1>5, OwedLess
<1>7. Head(Owed) = Serves(rwList[1])
  <2>1. Owed[1] = Serves(rwList[1]) /\ Owed \in Seq(OwedType)
    BY <1>2, <1>3, OwedSeq
  <2> QED BY <1>6, <2>1
<1>8. Serves(rwList[1]).void
  <2>1. Serves(rwList[1]).void = (rwList[1] \in cancelled)
    BY DEF Serves
  <2> QED BY <1>1, <1>3, <2>1
<1> QED BY <1>6, <1>7, <1>8

\* Taking an IRP off the list and into hand shows nothing.
LEMMA OwedPopped ==
  ASSUME IInv, IInv', RwPop
  PROVE  Owed' = Owed
<1> USE DEF eventVars, ioctlVars, diskVars, irpVars, rwVars, wbVars
<1>1. /\ rwpc = "pop" /\ rwList # <<>> /\ cur' = Head(rwList) /\ rwList' = Tail(rwList)
      /\ UNCHANGED <<req, cancelled>>
  BY DEF RwPop
<1>2. /\ rwList \in Seq(Irp) /\ Len(rwList) \in Nat \ {0} /\ Head(rwList) = rwList[1]
      /\ rwList[1] \in Irp
  BY <1>1, OwedSeq
<1>3. cur = None /\ InHand = 0 /\ cur' # None /\ InHand' = 1
  BY <1>1, <1>2, IrpAssumption DEF IInv, IrpsInPlace, InHand
<1> DEFINE n == Len(rwList)
<1>4. n \in Nat /\ Len(rwList') + InHand' = n /\ Len(rwList) + InHand = n
  BY <1>1, <1>2, <1>3
<1>5. ASSUME NEW k \in 1..n PROVE Owed'[k] = Owed[k]
  <2>1. Owed[k] = Entry(req, cancelled, rwList[k])
    BY <1>3, <1>4, OwedFunction
  <2>2. CASE k = 1
    <3>1. Owed'[k] = Entry(req', cancelled', cur')
      BY <1>3, <1>4, <2>2, OwedFunctionNext
    <3> QED BY <1>1, <1>2, <2>1, <2>2, <3>1
  <2>3. CASE k # 1
    <3>1. Owed'[k] = Entry(req', cancelled', rwList'[k - 1])
      BY <1>3, <1>4, <2>3, OwedFunctionNext
    <3>2. rwList'[k - 1] = rwList[k]
      BY <1>1, <1>2, <2>3
    <3> QED BY <1>1, <2>1, <3>1, <3>2
  <2> QED BY <2>2, <2>3
<1> QED BY <1>4, <1>5, OwedFunction, OwedFunctionNext, SameFunction

-----------------------------------------------------------------------------
(* Every step is a step of Volume or shows nothing.                        *)

\* An answer is shown from RwReadHit or RwReadUpdated to RwCompleteRead.
LEMMA GivenSame ==
  ASSUME rwpc # "answered", rwpc' # "answered"
  PROVE  Given' = Given
BY DEF Given

\* A step that shows nothing.
LEMMA Stutters ==
  ASSUME Contents' = Contents, Owed' = Owed, Given' = Given
  PROVE  UNCHANGED V!volVars
BY Mapping DEF V!volVars, Contents, Owed, Given

LEMMA ShowsInit == Init => V!VolInit
<1> SUFFICES ASSUME Init PROVE V!VolInit
  OBVIOUS
<1>1. Contents \in [Block -> Content]
  BY InitIInv, ContentsType DEF Init, IInv
<1>2. Owed = <<>>
  <2>1. Owed \in Seq(OwedType) /\ Len(Owed) = 0
    <3>1. IInv
      BY InitIInv DEF Init
    <3>2. Len(rwList) = 0 /\ cur = None
      BY DEF Init, InitWith
    <3> QED BY <3>1, <3>2, OwedSeq DEF InHand
  <2> QED BY <2>1
<1>3. Given = None
  BY DEF Init, InitWith, Given
<1> QED BY <1>1, <1>2, <1>3 DEF V!VolInit, V!Content, Content, Contents, Owed, Given

-----------------------------------------------------------------------------
(* The actions of Volume, in terms of what is shown.                        *)

LEMMA ShownSubmit ==
  ASSUME NEW r, Owed' = Append(Owed, [req |-> r, void |-> FALSE]), Contents' = Contents, Given' = Given
  PROVE  V!Submit(r)
BY DEF V!Submit, Contents, Owed, Given

LEMMA ShownVoid ==
  ASSUME NEW k, Owed' = [Owed EXCEPT ![k].void = TRUE], Contents' = Contents, Given' = Given
  PROVE  V!Void(k)
BY DEF V!Void, Contents, Owed, Given

\* The request in hand is the one whose turn it is.
LEMMA ShownServing ==
  ASSUME IInv, CancelledWait, cur # None
  PROVE  V!Turn = req[cur] /\ V!Serving(req[cur].op)
<1>1. Owed # <<>> /\ Head(Owed) = Serves(cur)
  BY OwedHead
<1>2. Serves(cur).req = req[cur] /\ ~Serves(cur).void
  <2>1. Serves(cur).void = (cur \in cancelled)
    BY DEF Serves
  <2> QED BY <2>1 DEF Serves, CancelledWait
<1>3. V!Turn = Head(Owed).req
  BY DEF V!Turn, Owed
<1>4. V!Serving(req[cur].op) <=> Owed # <<>> /\ ~Head(Owed).void /\ V!Turn.op = req[cur].op
  BY DEF V!Serving, Owed
<1> QED BY <1>1, <1>2, <1>3, <1>4

LEMMA ShownWriteBlock ==
  ASSUME NEW b, V!Serving("write"), Owed' = Owed, Given' = Given,
         Contents' = [Contents EXCEPT ![b] = V!Merge(@, V!Turn.val[b], V!Turn.parts[b])]
  PROVE  V!WriteBlock(b)
BY DEF V!WriteBlock, Contents, Owed, Given

LEMMA ShownAnswer ==
  ASSUME V!Serving("read"), Given = None, Owed' = Owed, Contents' = Contents,
         Given' \in [V!Blocks(V!Turn) -> V!Content],
         \A b \in V!Blocks(V!Turn) : \A p \in V!Turn.parts[b] : Given'[b][p] = Contents[b][p]
  PROVE  V!Answer
BY DEF V!Answer, Contents, Owed, Given

LEMMA ShownCompleteWrite ==
  ASSUME V!Serving("write"), Owed' = Tail(Owed), Contents' = Contents, Given' = Given,
         \A b \in Block : \A p \in V!Turn.parts[b] : Contents[b][p] = V!Turn.val[b][p]
  PROVE  V!CompleteWrite
BY DEF V!CompleteWrite, Contents, Owed, Given

LEMMA ShownCompleteRead ==
  ASSUME V!Serving("read"), Owed' = Tail(Owed), Contents' = Contents, Given' = None
  PROVE  V!CompleteRead
BY DEF V!CompleteRead, Contents, Owed, Given

LEMMA ShownDrop ==
  ASSUME Owed # <<>>, Head(Owed).void, Owed' = Tail(Owed), Contents' = Contents, Given' = Given
  PROVE  V!Drop
BY DEF V!Drop, Contents, Owed, Given

-----------------------------------------------------------------------------
(* The steps of WriteBack.                                                 *)

LEMMA ShowsDispatch ==
  ASSUME IInv, IInv', CancelledWait, [Next]_vars, Dispatch
  PROVE  V!VolNext
<1> USE DEF eventVars, ioctlVars, diskVars, irpVars, rwVars, wbVars
<1>1. Given' = Given /\ Contents' = Contents
  BY DEF Dispatch, Submit, Cancel, Given, Contents, cached
<1>2. ASSUME NEW i \in Irp, NEW r \in Request, Submit(i, r) PROVE V!VolNext
  <2>1. V!Submit(r)
    BY <1>1, <1>2, OwedSubmitted, ShownSubmit
  <2> QED BY <2>1 DEF V!VolNext
<1>3. ASSUME NEW i \in Irp, Cancel(i) PROVE V!VolNext
  <2>1. PICK k \in DOMAIN Owed : Owed' = [Owed EXCEPT ![k].void = TRUE]
    BY <1>3, OwedCancelled
  <2>2. V!Void(k)
    BY <1>1, <2>1, ShownVoid, Zenon
  <2> QED BY <2>1, <2>2 DEF V!VolNext, Owed
<1> QED BY <1>2, <1>3 DEF Dispatch

LEMMA ShowsDrop ==
  ASSUME IInv, IInv', RwDropCancelled
  PROVE  V!VolNext
<1> USE DEF eventVars, ioctlVars, diskVars, irpVars, rwVars, wbVars
<1>1. Given' = Given /\ Contents' = Contents
  BY DEF RwDropCancelled, Given, Contents, cached
<1>2. V!Drop
  BY <1>1, OwedDropped, ShownDrop
<1> QED BY <1>2 DEF V!VolNext

\* A request is completed: a write when all of it is stored, a read with its answer or an error.
LEMMA ShowsFinish ==
  ASSUME IInv, Unmappable = {}, IInv', ServiceInv, FinishingStep
  PROVE  V!VolNext
<1>1. /\ cur # None /\ rwpc \notin {"wait", "pop"} /\ rwpc' = "pop"
      /\ UNCHANGED <<data, disk>>
  <2>1. RwPassDown => disk' = disk
    BY PassedEmpty DEF IInv
  <2> QED BY <2>1, Finished DEF FinishingStep, RwForwardFails, RwCompleteRead, RwCompleteWrite, diskVars
<1>2. Owed' = Tail(Owed) /\ Contents' = Contents /\ Given' = None
  BY <1>1, OwedFinished DEF Contents, cached, Given
<1>3. V!Turn = req[cur] /\ V!Serving(req[cur].op)
  BY <1>1, ShownServing DEF ServiceInv
<1>4. req[cur].op \in {"read", "write"}
  BY <1>1, ServedRequest, RequestAssumption DEF IInv, RequestType
<1>5. CASE req[cur].op = "read"
  <2>1. V!CompleteRead
    BY <1>2, <1>3, <1>5, ShownCompleteRead
  <2> QED BY <2>1 DEF V!VolNext
<1>6. CASE req[cur].op = "write"
  <2>1. RwPassDown \/ RwCompleteWrite
    BY <1>6 DEF FinishingStep, RwForwardFails, RwCompleteRead, Serving, ServiceInv, OpAsServed
  <2>2. Given = None
    BY <2>1 DEF RwPassDown, RwCompleteWrite, Given
  <2>3. ASSUME NEW b \in Block, NEW p \in req[cur].parts[b]
        PROVE  Contents[b][p] = req[cur].val[b][p]
    <3>1. b \in Blocks(req[cur])
      BY DEF Blocks
    <3>2. RwCompleteWrite
      BY <1>1, <2>1, <3>1 DEF RwPassDown
    <3> QED BY <3>1, <3>2 DEF RwCompleteWrite, ServiceInv, WrittenSoFar, Stored, Covers
  <2>4. V!CompleteWrite
    BY <1>2, <1>3, <1>6, <2>2, <2>3, ShownCompleteWrite
  <2> QED BY <2>4 DEF V!VolNext
<1> QED BY <1>4, <1>5, <1>6

\* Between them the requests owed stay the same.
LEMMA OwedKept ==
  ASSUME [Next]_vars, ~Dispatch, ~RwPop, ~RwDropCancelled, ~FinishingStep
  PROVE  Owed' = Owed
<1>1. UNCHANGED <<rwList, req, cur, cancelled>>
  BY RequestsKept
<1> QED BY <1>1 DEF Owed, Serves

\* A write reaches the next of its blocks.
LEMMA ShowsStore ==
  ASSUME IInv, Unmappable = {}, IInv', ServiceInv, [Next]_vars, StoringStep
  PROVE  V!VolNext
<1> USE DEF eventVars, ioctlVars, diskVars, irpVars, rwVars, wbVars
<1>1. /\ StoresNext /\ NextBlock \in todo /\ UNCHANGED <<req, cur, rwList, cancelled>>
  BY StoredByWrite
<1>2. rwpc \in {"write", "insert"} /\ rwpc' \in {"write", "full"}
  BY DEF StoringStep, RwWriteThrough, RwWriteNew, RwWriteReplace, RwInsertHit
<1>3. NextBlock \in Block
  BY <1>1 DEF IInv, TypeOK
<1>4. cur # None /\ req[cur].op = "write"
  BY <1>2 DEF IInv, IrpsInPlace, ServiceInv, OpAsServed, AddPcs
<1>5. V!Turn = req[cur] /\ V!Serving("write")
  BY <1>4, ShownServing DEF ServiceInv
<1>6. Given' = Given
  BY <1>2, GivenSame
<1>7. Owed' = Owed
  BY <1>1 DEF Owed, Serves
<1>8. PICK b \in Block : b = NextBlock
  BY <1>3
<1>9. Contents' = [Contents EXCEPT ![b] = V!Merge(@, V!Turn.val[b], V!Turn.parts[b])]
  BY <1>1, <1>5, <1>8 DEF StoresNext, Merge, V!Merge, Covers
<1>10. V!WriteBlock(b)
  BY <1>5, <1>6, <1>7, <1>9, ShownWriteBlock
<1> QED BY <1>10 DEF V!VolNext

\* A read is answered: with what the pool holds, or what the device returned with newer blocks in it.
LEMMA ShowsAnswer ==
  ASSUME IInv, Unmappable = {}, IInv', ServiceInv, [Next]_vars, RwReadHit \/ RwReadUpdated
  PROVE  V!VolNext
<1> USE DEF eventVars, ioctlVars, diskVars, irpVars, rwVars, wbVars
<1> DEFINE B == Blocks(req[cur])
<1>1. /\ rwpc \in {"serve", "readUpdate"} /\ rwpc' = "answered"
      /\ UNCHANGED <<data, disk, rwList, req, cur, cancelled>>
  BY DEF RwReadHit, RwReadUpdated, Serving
<1>2. cur # None /\ req[cur].op = "read"
  BY <1>1 DEF RwReadHit, RwReadUpdated, Serving, IInv, IrpsInPlace, ServiceInv, OpAsServed
<1>3. V!Turn = req[cur] /\ V!Serving("read")
  BY <1>2, ShownServing DEF ServiceInv
<1>4. Contents' = Contents /\ Owed' = Owed /\ Given = None /\ Given' = buf'
  BY <1>1 DEF Contents, cached, Owed, Serves, Given
<1>5. V!Blocks(V!Turn) = B /\ V!Content = Content
  BY <1>3 DEF V!Blocks, Blocks, V!Content, Content
<1>6. B \subseteq Block /\ buf' \in Partial(Block, Content)
  BY <1>1, ServedRequest DEF IInv, TypeOK
<1>7. DOMAIN buf' = B /\ \A b \in B : \A p \in req[cur].parts[b] : buf'[b][p] = Contents[b][p]
  <2>1. CASE RwReadHit
    <3>1. buf' = [b \in B |-> data[b]] /\ B \subseteq cached
      BY <2>1 DEF RwReadHit
    <3> QED BY <1>6, <3>1 DEF Contents
  <2>2. CASE RwReadUpdated
    <3>1. rwpc = "readUpdate" /\ todo = {} /\ buf' = buf
      BY <2>2 DEF RwReadUpdated
    <3> QED BY <3>1 DEF ServiceInv, ReadSoFar, Covers
  <2> QED BY <2>1, <2>2
<1>8. buf' \in [B -> Content]
  BY <1>6, <1>7, PartialFunction
<1>9. V!Answer
  BY <1>3, <1>4, <1>5, <1>7, <1>8, ShownAnswer
<1> QED BY <1>9 DEF V!VolNext

\* All others show nothing.
LEMMA ShowsNothing ==
  ASSUME IInv, Unmappable = {}, IInv', [Next]_vars,
         ~Dispatch, ~RwDropCancelled, ~FinishingStep, ~StoringStep,
         ~RwReadHit, ~RwReadUpdated
  PROVE  UNCHANGED V!volVars
<1> USE DEF eventVars, ioctlVars, diskVars, irpVars, rwVars, wbVars
<1>1. Contents' = Contents
  BY KeptOtherwise
<1>2. Owed' = Owed
  BY OwedKept, OwedPopped
<1>3. Given' = Given
  <2>1. CASE RwThread
    <3>1. rwpc # "answered" /\ rwpc' # "answered"
      BY <2>1 DEF FinishingStep, RwThread, RwWake, RwPop, RwListEmpty, RwRead, RwForward,
         RwReadCached, RwReadPlace, RwReadSkip, RwWrite, RwWriteBegin, RwWriteThrough,
         RwWriteCached, RwWriteNew, RwWriteReplace, RwQueueFull, RwFlushed, RwQueueHasRoom,
         RwClear, RwLock, RwInsertHit, RwInsertOld, RwInsertNew, Serving
    <3> QED BY <3>1, GivenSame
  <2>2. CASE (\E i \in Irp : Signal(i)) \/ WbThread \/ UNCHANGED vars
    BY <2>2 DEF Given, Signal, WbThread, WbWake, WbCheck, WbLock, WbGather, WbRestart,
       WbWriteLast, WbUnlock, WbSignal, vars
  <2> QED BY <2>1, <2>2 DEF Next
<1> QED BY <1>1, <1>2, <1>3, Stutters

-----------------------------------------------------------------------------
(* The theorem.                                                            *)

\* What the read/write thread has done of the request it serves is as the volume shows it.
THEOREM ServiceInvariance ==
  ASSUME Unmappable = {}
  PROVE  Spec => []ServiceInv
<1>1. Init => ServiceInv
  BY InitService
<1>2. IInv /\ ServiceInv /\ [Next]_vars => ServiceInv'
  BY ServiceStep
<1> QED BY <1>1, <1>2, Invariance, PTL DEF Spec

(* Whatever is cached, given up, merged, flushed and cancelled, and however *)
(* the threads are interleaved, the volume is served one request after the  *)
(* other and holds what the writes stored: WriteBack implements Volume,     *)
(* as long as the memory manager can map every buffer.                      *)
THEOREM VolumeIsServed ==
  ASSUME Unmappable = {}
  PROVE  Spec => ImplementsVolume
<1>1. Init => V!VolInit
  BY ShowsInit
<1>2. IInv /\ IInv' /\ ServiceInv /\ [Next]_vars => [V!VolNext]_(V!volVars)
  BY ShowsDispatch, ShowsDrop, ShowsFinish, ShowsStore, ShowsAnswer, ShowsNothing DEF ServiceInv
<1> QED BY <1>1, <1>2, Invariance, ServiceInvariance, PTL DEF Spec, ImplementsVolume, V!VolSpec
=============================================================================
