------------------------------ MODULE WriteBack ------------------------------
(***************************************************************************)
(* The write-back cache of DiskFilter3 while a volume is protected: the    *)
(* dispatch routine queues requests on RwList, the read/write thread       *)
(* (RWThread.c) serves them from the cache pool and the lower device, and  *)
(* the write-back thread (WBThread.c) empties the queue of modified blocks *)
(* when the read/write thread finds it full.                               *)
(*                                                                         *)
(* One action is one step between two points where another thread can be   *)
(* observed: an event is set, waited for or cleared, the queue lock is     *)
(* taken, or a block is handled.  Which block the pool gives up is any one *)
(* its policy may give up (Pool); a policy itself is modelled in Policies. *)
(* A request is seen as the parts it covers of each block, which is what   *)
(* detect_broken computes from its offset and length.  The lower device    *)
(* may fail a read; a write to it always succeeds, and what the thread     *)
(* passes down it carries out at once.                                     *)
(***************************************************************************)
EXTENDS Pool, Sequences

CONSTANTS
  Block,       \* block indices of the volume
  Part,        \* parts of a block a request may start or end at
  Data,        \* what a part may hold
  Request,     \* the requests the file system issues
  Irp,         \* the request packets in flight
  Cancellable, \* those of them their issuer may cancel
  Unmappable,  \* those of them whose buffer the memory manager may fail to map
  QueueSize,   \* WB_QUEUE_NUM_BLOCKS
  MergeLimit,  \* NUM_CONSECUTIVE_BLOCK
  None

Content == [Part -> Data]
RequestType ==
  [op : {"read", "write"}, parts : [Block -> SUBSET Part], val : [Block -> Content]]

ASSUME RequestAssumption == Request \subseteq RequestType
ASSUME BlockAssumption == Block \subseteq Nat
ASSUME IrpAssumption ==
  /\ Cancellable \subseteq Irp /\ Unmappable \subseteq Irp
  /\ None \notin Irp \cup {"rw", "wb"} \cup Request
\* common.h gives the queue 3000 blocks and the pool 12800, and a merged write 1024.
ASSUME SizeAssumption ==
  /\ QueueSize \in Nat \ {0} /\ MergeLimit \in Nat \ {0}
  /\ QueueSize < PoolSize

\* The partial functions from a subset of S to T.
Partial(S, T) == UNION {[D -> T] : D \in SUBSET S}

VARIABLES
  disk,      \* contents of the lower device
  data,      \* contents of the cached blocks (a block is cached iff data has it)
  modified,  \* the cached blocks with Modified = TRUE
  queue,     \* CachePool.WbQueue
  lock,      \* holder of CachePool.WbQueueLock
  wbStart, wbFinish, rwStart, rwFinish,   \* the four auto-reset events
  flushAll,  \* CachePool.WbFlushAll, written by IOCTL_DF_STOP only
  size,      \* CachePool.WbQueue.Size, written by IOCTL_DF_START only
  rwList,    \* RwList
  req,       \* the request each IRP carries until it is completed
  signal,    \* dispatchers that have queued their IRP and not yet set the event
  cancelled, \* queued IRPs with Irp->Cancel = TRUE
  rwpc, cur, todo, buf, add,              \* the read/write thread
  wbpc,                                   \* the write-back thread,
  acc, first                              \* the run it has gathered: contents, index of the first

diskVars == <<disk, data, modified, queue>>
eventVars == <<wbStart, wbFinish, rwStart, rwFinish>>
ioctlVars == <<flushAll, size>>
irpVars == <<rwList, req, signal, cancelled>>
rwVars == <<rwpc, cur, todo, buf, add>>
wbVars == <<wbpc, acc, first>>
vars == <<diskVars, lock, eventVars, ioctlVars, irpVars, rwVars, wbVars>>

cached == DOMAIN data
Blocks(r) == {b \in Block : r.parts[b] # {}}
Merge(old, new, ps) == [p \in Part |-> IF p \in ps THEN new[p] ELSE old[p]]

\* What the contents c become when the request r is carried out.
Apply(r, c) ==
  IF r.op = "read" THEN c ELSE [b \in Block |-> Merge(c[b], r.val[b], r.parts[b])]

\* Slip: the queue counts as full one entry too late.
IsFullLate == Len(queue) > size

\* A queue that InitQueue has not set up, or DestroyQueue has zeroed, is full and empty.
IsFull == Len(queue) = size

\* Nothing cached and nobody at work; the queue has room for n blocks.
InitWith(n) ==
  /\ disk \in [Block -> Content]
  /\ data = <<>> /\ modified = {} /\ queue = <<>> /\ lock = None
  /\ wbStart = FALSE /\ wbFinish = FALSE /\ rwStart = FALSE /\ rwFinish = FALSE
  /\ flushAll = FALSE /\ size = n
  /\ rwList = <<>> /\ req = [i \in Irp |-> None] /\ signal = {} /\ cancelled = {}
  /\ rwpc = "wait" /\ cur = None /\ todo = {} /\ buf = <<>> /\ add = "none"
  /\ wbpc = "wait" /\ acc = <<>> /\ first = -1

Init == InitWith(QueueSize)

-----------------------------------------------------------------------------
(* The dispatch routine: queue the IRP, then set the event.                *)

\* Slip: the IRP is queued at the head of the list.
SubmitFirst(i, r) ==
  /\ req[i] = None /\ i \notin signal
  /\ req' = [req EXCEPT ![i] = r]
  /\ rwList' = <<i>> \o rwList
  /\ signal' = signal \cup {i}
  /\ UNCHANGED <<diskVars, lock, eventVars, ioctlVars, cancelled, rwVars, wbVars>>

Submit(i, r) ==
  /\ req[i] = None /\ i \notin signal
  /\ req' = [req EXCEPT ![i] = r]
  /\ rwList' = Append(rwList, i)
  /\ signal' = signal \cup {i}
  /\ UNCHANGED <<diskVars, lock, eventVars, ioctlVars, cancelled, rwVars, wbVars>>

Signal(i) ==
  /\ i \in signal
  /\ signal' = signal \ {i}
  /\ rwStart' = TRUE
  /\ UNCHANGED <<diskVars, lock, wbStart, wbFinish, rwFinish, ioctlVars,
                 rwList, req, cancelled, rwVars, wbVars>>

\* The issuer cancels an IRP that waits on RwList; no cancel routine is registered.
Cancel(i) ==
  /\ i \in Cancellable \ cancelled
  /\ \E k \in DOMAIN rwList : rwList[k] = i
  /\ cancelled' = cancelled \cup {i}
  /\ UNCHANGED <<diskVars, lock, eventVars, ioctlVars, rwList, req, signal, rwVars, wbVars>>

-----------------------------------------------------------------------------
(* The read/write thread.                                                  *)

\* Slip: one IRP for every wake-up.
FinishCurAndWait ==
  /\ req' = [req EXCEPT ![cur] = None]
  /\ cur' = None /\ buf' = <<>> /\ rwpc' = "wait"

\* IoCompleteRequest on the IRP being served; the thread goes for the next one.
FinishCur ==
  /\ req' = [req EXCEPT ![cur] = None]
  /\ cur' = None /\ buf' = <<>> /\ rwpc' = "pop"

RwWake ==
  /\ rwpc = "wait" /\ rwStart
  /\ rwStart' = FALSE /\ rwpc' = "pop"
  /\ UNCHANGED <<diskVars, lock, wbStart, wbFinish, rwFinish, ioctlVars, irpVars,
                 cur, todo, buf, add, wbVars>>

RwPop ==
  /\ rwpc = "pop" /\ rwList # <<>> /\ Head(rwList) \notin cancelled
  /\ cur' = Head(rwList) /\ rwList' = Tail(rwList)
  /\ rwpc' = "serve"
  /\ UNCHANGED <<diskVars, lock, eventVars, ioctlVars, req, signal, cancelled,
                 todo, buf, add, wbVars>>

\* A cancelled IRP is taken off the list and never completed.
RwDropCancelled ==
  /\ rwpc = "pop" /\ rwList # <<>> /\ Head(rwList) \in cancelled
  /\ rwList' = Tail(rwList)
  /\ UNCHANGED <<diskVars, lock, eventVars, ioctlVars, req, signal, cancelled, rwVars, wbVars>>

RwListEmpty ==
  /\ rwpc = "pop" /\ rwList = <<>>
  /\ rwFinish' = TRUE /\ rwpc' = "wait"
  /\ UNCHANGED <<diskVars, lock, wbStart, wbFinish, rwStart, ioctlVars, irpVars,
                 cur, todo, buf, add, wbVars>>

(* A request of length 0, and one whose buffer cannot be mapped, is passed  *)
(* to the lower device past whatever is cached; the device carries it out.  *)
RwPassDown ==
  /\ rwpc = "serve" /\ (Blocks(req[cur]) = {} \/ cur \in Unmappable)
  /\ disk' = Apply(req[cur], disk)
  /\ FinishCur
  /\ UNCHANGED <<data, modified, queue, lock, eventVars, ioctlVars, rwList, signal, cancelled,
                 todo, add, wbVars>>

Serving(op) == rwpc = "serve" /\ req[cur].op = op /\ Blocks(req[cur]) # {}

\* QueryAndCopyFromCachePool finds every block and copies them.
RwReadHit ==
  /\ Serving("read") /\ Blocks(req[cur]) \subseteq cached
  /\ buf' = [b \in Blocks(req[cur]) |-> data[b]]
  /\ rwpc' = "answered"
  /\ UNCHANGED <<diskVars, lock, eventVars, ioctlVars, irpVars, cur, todo, add, wbVars>>

\* A block is missing, or no memory to look for them: all of it is read from the lower device.
RwForward ==
  /\ Serving("read")
  /\ buf' = [b \in Blocks(req[cur]) |-> disk[b]]
  /\ todo' = Blocks(req[cur])
  /\ rwpc' = "readUpdate"
  /\ UNCHANGED <<diskVars, lock, eventVars, ioctlVars, irpVars, cur, add, wbVars>>

\* The lower device fails the read: the IRP is completed with an error.
RwForwardFails ==
  /\ Serving("read")
  /\ FinishCur
  /\ UNCHANGED <<diskVars, lock, eventVars, ioctlVars, rwList, signal, cancelled,
                 todo, add, wbVars>>

\* Blocks are handled in ascending order: broken front, whole blocks, broken end.
NextBlock == CHOOSE b \in todo : \A c \in todo : b <= c
Covers(b) == req[cur].parts[b]
Whole(b) == Covers(b) = Part

\* The pool holds block b with contents c instead of the blocks e.
Place(b, c, e) ==
  data' = [x \in (cached \ e) \cup {b} |-> IF x = b THEN c ELSE data[x]]

\* Slip: what the device returned is kept although the cached block is newer.
RwReadStale ==
  /\ rwpc = "readUpdate" /\ todo # {} /\ NextBlock \in cached
  /\ todo' = todo \ {NextBlock}
  /\ UNCHANGED <<diskVars, lock, eventVars, ioctlVars, irpVars, rwpc, cur, buf, add, wbVars>>

\* ReadUpdateCachePool, one block: a cached block is newer than what the device returned.
RwReadCached ==
  /\ rwpc = "readUpdate" /\ todo # {} /\ NextBlock \in cached
  /\ buf' = [buf EXCEPT ![NextBlock] = Merge(@, data[NextBlock], Covers(NextBlock))]
  /\ todo' = todo \ {NextBlock}
  /\ UNCHANGED <<diskVars, lock, eventVars, ioctlVars, irpVars, rwpc, cur, add, wbVars>>

\* A whole block that is not cached enters the pool with the contents just read.
RwReadPlace ==
  /\ rwpc = "readUpdate" /\ todo # {} /\ NextBlock \notin cached /\ Whole(NextBlock)
  /\ \E e \in Evictions(cached, modified) : Place(NextBlock, buf[NextBlock], e)
  /\ todo' = todo \ {NextBlock}
  /\ UNCHANGED <<disk, modified, queue, lock, eventVars, ioctlVars, irpVars,
                 rwpc, cur, buf, add, wbVars>>

\* A broken block that is not cached stays out of the pool, and any when memory is short.
RwReadSkip ==
  /\ rwpc = "readUpdate" /\ todo # {} /\ NextBlock \notin cached
  /\ ~Whole(NextBlock) \/ Cardinality(cached) < PoolSize
  /\ todo' = todo \ {NextBlock}
  /\ UNCHANGED <<diskVars, lock, eventVars, ioctlVars, irpVars, rwpc, cur, buf, add, wbVars>>

RwReadUpdated ==
  /\ rwpc = "readUpdate" /\ todo = {}
  /\ rwpc' = "answered"
  /\ UNCHANGED <<diskVars, lock, eventVars, ioctlVars, irpVars, cur, todo, buf, add, wbVars>>

RwCompleteRead ==
  /\ rwpc = "answered"
  /\ FinishCur
  /\ UNCHANGED <<diskVars, lock, eventVars, ioctlVars, rwList, signal, cancelled,
                 todo, add, wbVars>>

-----------------------------------------------------------------------------
(* Writes.  A fully cached request (QueryAndWriteToCachePool) and the       *)
(* others (WriteUpdateCachePool and the direct writes around it) treat each *)
(* block alike and in the same order.                                       *)

RwWriteBegin ==
  /\ Serving("write")
  /\ todo' = Blocks(req[cur])
  /\ rwpc' = "write"
  /\ UNCHANGED <<diskVars, lock, eventVars, ioctlVars, irpVars, cur, buf, add, wbVars>>

\* Slip: a broken block is written to the lower device even when it is cached.
RwWriteAround ==
  /\ rwpc = "write" /\ todo # {} /\ ~Whole(NextBlock)
  /\ disk' = [disk EXCEPT ![NextBlock] = Merge(@, req[cur].val[NextBlock], Covers(NextBlock))]
  /\ todo' = todo \ {NextBlock}
  /\ UNCHANGED <<data, modified, queue, lock, eventVars, ioctlVars, irpVars,
                 rwpc, cur, buf, add, wbVars>>

\* A broken block that is not cached is written to the lower device directly.
RwWriteThrough ==
  /\ rwpc = "write" /\ todo # {} /\ NextBlock \notin cached /\ ~Whole(NextBlock)
  /\ disk' = [disk EXCEPT ![NextBlock] = Merge(@, req[cur].val[NextBlock], Covers(NextBlock))]
  /\ todo' = todo \ {NextBlock}
  /\ UNCHANGED <<data, modified, queue, lock, eventVars, ioctlVars, irpVars,
                 rwpc, cur, buf, add, wbVars>>

\* A cached block: its data is written under the queue lock (_write_data).
RwWriteCached ==
  /\ rwpc = "write" /\ todo # {} /\ NextBlock \in cached
  /\ add' = "hit" /\ rwpc' = "full"
  /\ UNCHANGED <<diskVars, lock, eventVars, ioctlVars, irpVars, cur, todo, buf, wbVars>>

\* _AddNewBlockToPool with Modified = TRUE, before the block is queued.
RwWriteNew ==
  /\ rwpc = "write" /\ todo # {} /\ NextBlock \notin cached /\ Whole(NextBlock)
  /\ Cardinality(cached) < PoolSize
  /\ Place(NextBlock, req[cur].val[NextBlock], {})
  /\ modified' = modified \cup {NextBlock}
  /\ add' = "new" /\ rwpc' = "full"
  /\ UNCHANGED <<disk, queue, lock, eventVars, ioctlVars, irpVars, cur, todo, buf, wbVars>>

\* _FindBlockToReplace with Modified = FALSE, before the block is marked and queued.
RwWriteReplace ==
  /\ rwpc = "write" /\ todo # {} /\ NextBlock \notin cached /\ Whole(NextBlock)
  /\ \E e \in Evictions(cached, modified) : Place(NextBlock, req[cur].val[NextBlock], e)
  /\ add' = "old" /\ rwpc' = "full"
  /\ UNCHANGED <<disk, modified, queue, lock, eventVars, ioctlVars, irpVars,
                 cur, todo, buf, wbVars>>

\* Slip: the other thread is started and not waited for.
RwQueueFullNoWait ==
  /\ rwpc = "full" /\ IsFull
  /\ wbStart' = TRUE /\ rwpc' = "clear"
  /\ UNCHANGED <<diskVars, lock, wbFinish, rwStart, rwFinish, ioctlVars, irpVars,
                 cur, todo, buf, add, wbVars>>

\* EMPTY_WB_QUEUE_IF_FULL: while the queue is full, start the other thread and wait.
RwQueueFull ==
  /\ rwpc = "full" /\ IsFull
  /\ wbStart' = TRUE /\ rwpc' = "finish"
  /\ UNCHANGED <<diskVars, lock, wbFinish, rwStart, rwFinish, ioctlVars, irpVars,
                 cur, todo, buf, add, wbVars>>

RwFlushed ==
  /\ rwpc = "finish" /\ wbFinish
  /\ wbFinish' = FALSE /\ rwpc' = "full"
  /\ UNCHANGED <<diskVars, lock, wbStart, rwStart, rwFinish, ioctlVars, irpVars,
                 cur, todo, buf, add, wbVars>>

RwQueueHasRoom ==
  /\ rwpc = "full" /\ ~IsFull
  /\ rwpc' = "clear"
  /\ UNCHANGED <<diskVars, lock, eventVars, ioctlVars, irpVars, cur, todo, buf, add, wbVars>>

RwClear ==
  /\ rwpc = "clear"
  /\ wbStart' = FALSE /\ wbFinish' = FALSE /\ rwpc' = "lock"
  /\ UNCHANGED <<diskVars, lock, rwStart, rwFinish, ioctlVars, irpVars,
                 cur, todo, buf, add, wbVars>>

RwLock ==
  /\ rwpc = "lock" /\ lock = None
  /\ lock' = "rw" /\ rwpc' = "insert"
  /\ UNCHANGED <<diskVars, eventVars, ioctlVars, irpVars, cur, todo, buf, add, wbVars>>

\* QueueInsert refuses an entry when the queue is full.
QueueInsert(b) == queue' = IF IsFull THEN queue ELSE Append(queue, b)

\* Slip: a block that is marked already is queued once more.
MarkOldAgain(b) == modified' = modified \cup {b} /\ QueueInsert(b)

\* Mark block b modified and queue it, unless it is marked already.
MarkOld(b) ==
  IF b \in modified THEN UNCHANGED <<modified, queue>>
  ELSE modified' = modified \cup {b} /\ QueueInsert(b)

\* The rest of _write_data: the second EMPTY_WB_QUEUE_IF_FULL clears the events again.
RwInsertHit ==
  /\ rwpc = "insert" /\ add = "hit"
  /\ data' = [data EXCEPT ![NextBlock] = Merge(@, req[cur].val[NextBlock], Covers(NextBlock))]
  /\ MarkOld(NextBlock)
  /\ wbStart' = FALSE /\ wbFinish' = FALSE
  /\ lock' = None /\ todo' = todo \ {NextBlock} /\ add' = "none" /\ rwpc' = "write"
  /\ UNCHANGED <<disk, rwStart, rwFinish, ioctlVars, irpVars, cur, buf, wbVars>>

RwInsertOld ==
  /\ rwpc = "insert" /\ add = "old"
  /\ MarkOld(NextBlock)
  /\ lock' = None /\ todo' = todo \ {NextBlock} /\ add' = "none" /\ rwpc' = "write"
  /\ UNCHANGED <<disk, data, eventVars, ioctlVars, irpVars, cur, buf, wbVars>>

RwInsertNew ==
  /\ rwpc = "insert" /\ add = "new"
  /\ modified' = modified \cup {NextBlock} /\ QueueInsert(NextBlock)
  /\ lock' = None /\ todo' = todo \ {NextBlock} /\ add' = "none" /\ rwpc' = "write"
  /\ UNCHANGED <<disk, data, eventVars, ioctlVars, irpVars, cur, buf, wbVars>>

RwCompleteWrite ==
  /\ rwpc = "write" /\ todo = {}
  /\ FinishCur
  /\ UNCHANGED <<diskVars, lock, eventVars, ioctlVars, rwList, signal, cancelled,
                 todo, add, wbVars>>

-----------------------------------------------------------------------------
(* The write-back thread.                                                  *)

WbWake ==
  /\ wbpc = "wait" /\ wbStart
  /\ wbStart' = FALSE /\ wbpc' = "check"
  /\ UNCHANGED <<diskVars, lock, wbFinish, rwStart, rwFinish, ioctlVars, irpVars, rwVars, acc, first>>

\* Slip: WbFlushAll is not looked at.
WbCheckFullOnly ==
  /\ wbpc = "check"
  /\ wbpc' = IF IsFull THEN "lock" ELSE "wait"
  /\ UNCHANGED <<diskVars, lock, eventVars, ioctlVars, irpVars, rwVars, acc, first>>

\* Woken without need, it goes back to waiting and tells nobody.
WbCheck ==
  /\ wbpc = "check"
  /\ wbpc' = IF flushAll \/ IsFull THEN "lock" ELSE "wait"
  /\ UNCHANGED <<diskVars, lock, eventVars, ioctlVars, irpVars, rwVars, acc, first>>

WbLock ==
  /\ wbpc = "lock" /\ lock = None
  /\ lock' = "wb" /\ wbpc' = "flush"
  /\ UNCHANGED <<diskVars, eventVars, ioctlVars, irpVars, rwVars, acc, first>>

Merged == first..(first + Len(acc) - 1)
InRun(b) == acc[b - first + 1]
Written == [b \in Block |-> IF b \in Merged THEN InRun(b) ELSE disk[b]]

\* Slip: blocks are merged whether they are neighbours or not.
ContinuesAnyway(b) == acc = <<>> \/ Len(acc) < MergeLimit

\* The block at the head of the queue continues the run gathered so far (or starts one).
Continues(b) ==
  acc = <<>> \/ (b = first + Len(acc) /\ Len(acc) < MergeLimit)

\* Slip: Modified stays TRUE.
WbGatherKeepsMark ==
  /\ wbpc = "flush" /\ queue # <<>> /\ Continues(Head(queue))
  /\ acc' = Append(acc, data[Head(queue)])
  /\ first' = IF acc = <<>> THEN Head(queue) ELSE first
  /\ queue' = Tail(queue)
  /\ UNCHANGED <<disk, data, modified, lock, eventVars, ioctlVars, irpVars, rwVars, wbpc>>

WbGather ==
  /\ wbpc = "flush" /\ queue # <<>> /\ Continues(Head(queue))
  /\ acc' = Append(acc, data[Head(queue)])
  /\ first' = IF acc = <<>> THEN Head(queue) ELSE first
  /\ modified' = modified \ {Head(queue)}
  /\ queue' = Tail(queue)
  /\ UNCHANGED <<disk, data, lock, eventVars, ioctlVars, irpVars, rwVars, wbpc>>

\* It does not: the run is written to the lower device and a new one is started.
WbRestart ==
  /\ wbpc = "flush" /\ queue # <<>> /\ ~Continues(Head(queue))
  /\ disk' = Written
  /\ acc' = <<data[Head(queue)]>> /\ first' = Head(queue)
  /\ modified' = modified \ {Head(queue)}
  /\ queue' = Tail(queue)
  /\ UNCHANGED <<data, lock, eventVars, ioctlVars, irpVars, rwVars, wbpc>>

\* Slip: what is left over at the end of the queue is not written.
WbForgetLast ==
  /\ wbpc = "flush" /\ queue = <<>> /\ acc # <<>>
  /\ acc' = <<>> /\ first' = -1
  /\ UNCHANGED <<diskVars, lock, eventVars, ioctlVars, irpVars, rwVars, wbpc>>

WbWriteLast ==
  /\ wbpc = "flush" /\ queue = <<>> /\ acc # <<>>
  /\ disk' = Written
  /\ acc' = <<>> /\ first' = -1
  /\ UNCHANGED <<data, modified, queue, lock, eventVars, ioctlVars, irpVars, rwVars, wbpc>>

WbUnlock ==
  /\ wbpc = "flush" /\ queue = <<>> /\ acc = <<>>
  /\ lock' = None /\ wbpc' = "signal"
  /\ UNCHANGED <<diskVars, eventVars, ioctlVars, irpVars, rwVars, acc, first>>

WbSignal ==
  /\ wbpc = "signal"
  /\ wbFinish' = TRUE /\ wbpc' = "wait"
  /\ UNCHANGED <<diskVars, lock, wbStart, rwStart, rwFinish, ioctlVars, irpVars, rwVars, acc, first>>

-----------------------------------------------------------------------------
Dispatch ==
  \/ \E i \in Irp, r \in Request : Submit(i, r)
  \/ \E i \in Irp : Cancel(i)

RwRead ==
  \/ RwReadHit \/ RwForward \/ RwForwardFails
  \/ RwReadCached \/ RwReadPlace \/ RwReadSkip \/ RwReadUpdated \/ RwCompleteRead

RwWrite ==
  \/ RwWriteBegin \/ RwWriteThrough \/ RwWriteCached \/ RwWriteNew \/ RwWriteReplace
  \/ RwQueueFull \/ RwFlushed \/ RwQueueHasRoom \/ RwClear \/ RwLock
  \/ RwInsertHit \/ RwInsertOld \/ RwInsertNew \/ RwCompleteWrite

RwThread ==
  \/ RwWake \/ RwPop \/ RwDropCancelled \/ RwListEmpty \/ RwPassDown
  \/ RwRead \/ RwWrite

WbThread ==
  \/ WbWake \/ WbCheck \/ WbLock
  \/ WbGather \/ WbRestart \/ WbWriteLast \/ WbUnlock \/ WbSignal

Next == Dispatch \/ (\E i \in Irp : Signal(i)) \/ RwThread \/ WbThread

Spec == Init /\ [][Next]_vars

\* Threads run at real-time priority and a dispatcher that has queued an IRP goes on to set the event.
Fairness ==
  /\ WF_vars(RwThread) /\ WF_vars(WbThread)
  /\ \A i \in Irp : WF_vars(Signal(i))

FairSpec == Spec /\ Fairness

-----------------------------------------------------------------------------
(* Properties.                                                             *)

RwPcs == {"wait", "pop", "serve", "readUpdate", "answered", "write", "full",
          "finish", "clear", "lock", "insert"}
WbPcs == {"wait", "check", "lock", "flush", "signal"}

\* Type invariant; the write-back queue never holds more than WB_QUEUE_NUM_BLOCKS.
TypeOK ==
  /\ disk \in [Block -> Content]
  /\ data \in Partial(Block, Content)
  /\ modified \in SUBSET Block
  /\ queue \in Seq(Block) /\ Len(queue) <= size
  /\ lock \in {None, "rw", "wb"}
  /\ wbStart \in BOOLEAN /\ wbFinish \in BOOLEAN
  /\ rwStart \in BOOLEAN /\ rwFinish \in BOOLEAN
  /\ flushAll \in BOOLEAN /\ size \in {0, QueueSize}
  /\ rwList \in Seq(Irp)
  /\ req \in [Irp -> Request \cup {None}]
  /\ signal \in SUBSET Irp /\ cancelled \in SUBSET Irp
  /\ rwpc \in RwPcs /\ wbpc \in WbPcs
  /\ cur \in Irp \cup {None}
  /\ todo \in SUBSET Block
  /\ buf \in Partial(Block, Content)
  /\ acc \in Seq(Content) /\ first \in Block \cup {-1}
  /\ add \in {"none", "hit", "old", "new"}

Queued == {queue[k] : k \in DOMAIN queue}

(* The two events are all that keeps the write-back thread, which clears    *)
(* Modified before the data is on the device, away from the read/write      *)
(* thread, which looks for clean blocks without the lock: while the         *)
(* write-back thread is awake the other one waits for it to finish.         *)
FlushOnlyWhileAwaited == wbpc # "wait" => rwpc = "finish"

(* A block is marked Modified exactly while it is queued (or about to be):  *)
(* were a mark without an entry possible the block would never be written   *)
(* back and never be given up, an entry without a mark would be a dangling  *)
(* pointer once the block is replaced.  No block is queued twice.           *)
ModifiedIsQueued ==
  /\ Cardinality(Queued) = Len(queue)
  /\ modified = Queued \cup (IF add = "new" THEN {NextBlock} ELSE {})
  /\ modified \subseteq cached

(* A cached block that is not marked may be thrown away: the lower device   *)
(* has its contents, or is about to get them in the run the write-back      *)
(* thread has gathered, or the block is the one being added.  It is so as   *)
(* long as every buffer can be mapped (Unmappable = {}): a write that is    *)
(* passed down changes the device under a clean copy.                       *)
CleanIsOnDisk ==
  \A b \in cached \ modified :
    \/ data[b] = disk[b]
    \/ b \in Merged /\ data[b] = InRun(b)
    \/ b \in todo /\ b = NextBlock /\ add = "old"

(* "There always exist Non-Modified Blocks": a block that must enter the    *)
(* pool always finds a place, because the queue is smaller than the pool;   *)
(* and QueueInsert, whose result nobody looks at, always finds room.        *)
RoomForEveryBlock ==
  /\ Cardinality(cached) <= PoolSize
  /\ rwpc \in {"write", "readUpdate"} => Evictions(cached, modified) # {}
  /\ rwpc \in {"clear", "lock", "insert"} => ~IsFull

(* Seen from above the cache is not there: volume contents are those of the *)
(* cached copy where there is one and those of the device elsewhere, and    *)
(* every request is served in its turn as Volume says.  Requests that are   *)
(* passed down because their buffer cannot be mapped are not (a read misses *)
(* the newer cached data, a write leaves an older copy in the pool), so the *)
(* claim is for Unmappable = {}.                                            *)
Serves(i) == [req |-> req[i], void |-> i \in cancelled]
V == INSTANCE Volume WITH
       vol <- [b \in Block |-> IF b \in cached THEN data[b] ELSE disk[b]],
       pending <- [k \in 1..(Len(rwList) + IF cur = None THEN 0 ELSE 1) |->
                     IF cur = None THEN Serves(rwList[k])
                     ELSE IF k = 1 THEN Serves(cur) ELSE Serves(rwList[k - 1])],
       ans <- IF rwpc = "answered" THEN buf ELSE None

ImplementsVolume == V!VolSpec

(* Every request that its issuer does not cancel is completed: the chain    *)
(* of events RwStart, WbStart, WbFinish loses no wake-up.                   *)
RequestsAreServed ==
  \A i \in Irp \ Cancellable : (req[i] # None) ~> (req[i] = None)
=============================================================================
