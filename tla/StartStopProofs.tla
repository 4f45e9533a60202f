--------------------------- MODULE StartStopProofs ---------------------------
(***************************************************************************)
(* Proofs about StartStop for any volume, pool, queue and set of requests. *)
(***************************************************************************)
EXTENDS StartStop, VolumeProofs

-----------------------------------------------------------------------------
(* The invariant of the ioctls that are issued while no request is in      *)
(* flight (Quiet), when every buffer can be mapped (Unmappable = {}).      *)

(* The handshake of the cache, with the thread serving IOCTL_DF_STOP in the *)
(* place of the read/write thread while it flushes.                         *)
FlushAwaited == rwpc = "finish" \/ ctlpc = "flushWait"
StopHandshake ==
  /\ wbpc # "wait" => FlushAwaited /\ ~wbStart /\ ~wbFinish
  /\ wbStart \/ wbFinish => FlushAwaited
  /\ ~(wbStart /\ wbFinish)
  /\ acc # <<>> => wbpc = "flush"

\* The rest of what is invariant of the cache.
CacheInv ==
  /\ TypeOK /\ IrpsInPlace /\ Adding /\ ReadIsCurrent
  /\ QueueIsModified /\ RunIsCurrent /\ CleanIsOnDisk /\ ServiceInv

\* Where IOCTL_DF_START is between two of its steps.
StartPcs == {"idle", "queue", "protect", "undoQueue", "undoPool"}

\* The ioctl's part of the state.
StopTypeOK ==
  /\ protected \in BOOLEAN /\ alive \in BOOLEAN /\ crashed \in BOOLEAN
  /\ ctlpc \in StartPcs \cup {"drain", "drainWait", "clear", "flush", "flushWait", "destroy"}
  /\ arriving \in SUBSET Irp /\ passing \in SUBSET Irp
  /\ host \in [Block -> Content]
  /\ stale \in Nat /\ forgotten \in SUBSET Block

\* A request in the dispatch routine is not completed, not cancelled, not on the list, not served.
ArrivalsInPlace ==
  \A i \in arriving \cup passing :
    req[i] # None /\ i \notin cancelled /\ i # cur /\ \A k \in DOMAIN rwList : rwList[k] # i

(* Requests are queued while the volume is protected and passed down while  *)
(* it is not; while an ioctl is served there are none.                      *)
QuietInv ==
  /\ protected => alive /\ ctlpc = "idle" /\ passing = {}
  /\ ~protected => arriving = {} /\ signal = {} /\ rwList = <<>> /\ cur = None
  /\ ctlpc # "idle" => passing = {}
  /\ ctlpc \in {"queue", "protect"} => alive
  /\ stale = 0

\* The pool is empty while the volume is not protected, the queue once it has been flushed.
PoolDown ==
  /\ ctlpc = "destroy" => queue = <<>>
  /\ ~protected /\ ctlpc \in StartPcs => data = <<>> /\ modified = {} /\ queue = <<>>

\* The parts of block b that the write in progress has stored.
StoredYet(b) == b \in Blocks(req[cur]) /\ (b \notin todo \/ (add \in {"old", "new"} /\ b = NextBlock))

(* The volume holds what the issuers know, and of a write in progress the   *)
(* blocks gone through.                                                     *)
HostInv ==
  IF rwpc \in {"write"} \cup AddPcs
  THEN Contents = [b \in Block |->
         IF StoredYet(b) THEN Merge(host[b], req[cur].val[b], Covers(b)) ELSE host[b]]
  ELSE Contents = host

\* The answer to a read is what the volume holds.
AnswerInv ==
  rwpc = "answered" => \A b \in Block : \A p \in Covers(b) : buf[b][p] = Contents[b][p]

JInv ==
  /\ CacheInv /\ StopHandshake /\ StopTypeOK /\ ArrivalsInPlace
  /\ QuietInv /\ PoolDown /\ HostInv /\ AnswerInv

-----------------------------------------------------------------------------
(* What the invariant says in the situations the steps distinguish.        *)

\* Between two requests the read/write thread waits or looks at the list.
LEMMA NothingServed ==
  ASSUME JInv, ~protected
  PROVE  /\ cur = None /\ rwList = <<>> /\ signal = {} /\ arriving = {}
         /\ rwpc \in {"wait", "pop"} /\ add = "none"
BY DEF JInv, CacheInv, QuietInv, IrpsInPlace, Adding, AddPcs

\* Unless IOCTL_DF_STOP flushes, the threads are as WriteBack has them.
LEMMA AsWithoutStop ==
  ASSUME JInv, ctlpc # "flushWait"
  PROVE  IInv /\ ServiceInv
BY DEF JInv, CacheInv, StopHandshake, FlushAwaited, IInv, Handshake

LEMMA StillWithoutStop ==
  ASSUME IInv, ServiceInv, Unmappable = {}
  PROVE  CacheInv /\ StopHandshake
BY DEF CacheInv, StopHandshake, FlushAwaited, IInv, Handshake

\* With nothing in the pool the volume is the device.
LEMMA EmptyPool ==
  ASSUME TypeOK, data = <<>>
  PROVE  Contents = disk
<1>1. cached = {}
  BY DEF cached
<1> QED BY <1>1 DEF Contents, TypeOK

\* A step that touches neither the cache nor the request that is served.
LEMMA CacheSame ==
  ASSUME JInv, UNCHANGED <<diskVars, rwVars, wbVars>>, req'[cur] = req[cur],
         size' = size \/ rwpc \in {"wait", "pop"}
  PROVE  /\ Adding' /\ ReadIsCurrent' /\ QueueIsModified' /\ RunIsCurrent' /\ CleanIsOnDisk'
         /\ OpAsServed' /\ ReadSoFar' /\ WrittenSoFar'
         /\ host' = host => HostInv' /\ AnswerInv'
<1> USE DEF diskVars, rwVars, wbVars
<1>0. CacheInv /\ ServiceInv /\ HostInv /\ AnswerInv
  BY DEF JInv, CacheInv
<1>1. NextBlock' = NextBlock /\ cached' = cached /\ Queued' = Queued /\ Merged' = Merged
  BY NextBlockSame DEF cached, Queued, Merged
<1>2. Contents' = Contents /\ (req[cur])' = req[cur]
  BY DEF Contents, cached
<1>3. Adding' /\ ReadIsCurrent' /\ QueueIsModified'
  BY <1>0, <1>1 DEF CacheInv, Adding, AddPcs, IsFull, ReadIsCurrent, QueueIsModified
<1>4. RunIsCurrent' /\ CleanIsOnDisk'
  BY <1>0, <1>1 DEF CacheInv, RunIsCurrent, CleanIsOnDisk, InRun
<1>5. OpAsServed' /\ ReadSoFar' /\ WrittenSoFar'
  BY <1>0, <1>2, ServiceSame DEF ServiceInv
<1>6. ASSUME host' = host PROVE HostInv' /\ AnswerInv'
  <2>1. \A b : Covers(b)' = Covers(b) /\ StoredYet(b)' = StoredYet(b)
    BY <1>1, <1>2 DEF Covers, StoredYet, Blocks
  <2>2. HostInv'
    BY <1>0, <1>2, <1>6, <2>1 DEF HostInv, AddPcs
  <2>3. AnswerInv'
    BY <1>0, <1>2, <2>1 DEF AnswerInv
  <2> QED BY <2>2, <2>3
<1> QED BY <1>3, <1>4, <1>5, <1>6

-----------------------------------------------------------------------------
(* The dispatch routine.                                                   *)

\* A request that arrives is nowhere else.
LEMMA ArriveStep ==
  ASSUME JInv, Quiet, NEW i \in Irp, NEW r \in Request, Arrive(i, r)
  PROVE  JInv'
<1> USE DEF diskVars, eventVars, ioctlVars, rwVars, wbVars, auxVars
<1>0. /\ TypeOK /\ IrpsInPlace /\ ArrivalsInPlace /\ QuietInv /\ StopTypeOK /\ StopHandshake
      /\ PoolDown /\ CancelledWait
  BY DEF JInv, CacheInv, ServiceInv
<1>1. /\ req[i] = None /\ req' = [req EXCEPT ![i] = r] /\ r # None /\ ctlpc = "idle"
      /\ UNCHANGED <<diskVars, eventVars, rwVars, wbVars, lock, ioctlVars, rwList, signal, cancelled,
                     protected, alive, ctlpc, crashed, auxVars>>
      /\ arriving' \cup passing' = arriving \cup passing \cup {i}
      /\ arriving' \in SUBSET Irp /\ passing' \in SUBSET Irp
  BY <1>0, IrpAssumption DEF Arrive, StopTypeOK
<1>2. req'[i] = r /\ \A x \in Irp \ {i} : req'[x] = req[x]
  BY <1>0, <1>1 DEF TypeOK
<1>3. i # cur /\ \A k \in DOMAIN rwList : rwList[k] # i /\ rwList[k] \in Irp
  BY <1>0, <1>1, IrpAssumption DEF TypeOK, IrpsInPlace
<1>4. req'[cur] = req[cur]
  <2>1. None \notin Irp
    BY IrpAssumption
  <2> QED BY <1>0, <1>1, <1>3 DEF TypeOK
<1>5. TypeOK' /\ StopTypeOK'
  BY <1>0, <1>1 DEF TypeOK, StopTypeOK
<1>6. IrpsInPlace' /\ ArrivalsInPlace'
  <2>1. IrpsInPlace'
    BY <1>0, <1>1, <1>2, <1>3, <1>4 DEF IrpsInPlace
  <2>2. ArrivalsInPlace'
    <3>1. i \notin cancelled'
      BY <1>0, <1>1 DEF CancelledWait
    <3> QED BY <1>0, <1>1, <1>2, <1>3, <3>1 DEF ArrivalsInPlace, StopTypeOK
  <2> QED BY <2>1, <2>2
<1>7. StopHandshake' /\ PoolDown'
  BY <1>0, <1>1 DEF StopHandshake, FlushAwaited, PoolDown
<1>8. QuietInv'
  BY <1>0, <1>1 DEF QuietInv, Arrive
<1>9. CancelledWait'
  BY <1>0, <1>1, <1>2 DEF CancelledWait, TypeOK
<1> QED BY <1>1, <1>4, <1>5, <1>6, <1>7, <1>8, <1>9, CacheSame DEF JInv, CacheInv, ServiceInv

\* It moves to the end of the list.
LEMMA EnqueueStep ==
  ASSUME JInv, NEW i \in Irp, Enqueue(i)
  PROVE  JInv'
<1> USE DEF diskVars, eventVars, ioctlVars, rwVars, wbVars, auxVars
<1>0. /\ TypeOK /\ IrpsInPlace /\ ArrivalsInPlace /\ QuietInv /\ StopTypeOK /\ StopHandshake
      /\ PoolDown /\ CancelledWait
  BY DEF JInv, CacheInv, ServiceInv
<1>1. /\ i \in arriving /\ arriving' = arriving \ {i} /\ passing' = passing
      /\ rwList' = Append(rwList, i) /\ signal' = signal \cup {i}
      /\ UNCHANGED <<diskVars, eventVars, rwVars, wbVars, lock, ioctlVars, req, cancelled,
                     protected, alive, ctlpc, crashed, auxVars>>
  BY DEF Enqueue
<1>2. protected /\ passing = {}
  BY <1>0, <1>1 DEF QuietInv
<1>3. req[i] # None /\ i # cur /\ \A k \in DOMAIN rwList : rwList[k] # i
  BY <1>0, <1>1 DEF ArrivalsInPlace
<1>4. \A k \in DOMAIN rwList' : IF k \in DOMAIN rwList THEN rwList'[k] = rwList[k]
                                ELSE k = Len(rwList) + 1 /\ rwList'[k] = i
  BY <1>0, <1>1 DEF TypeOK
<1>5. IrpsInPlace'
  BY <1>0, <1>1, <1>3, <1>4 DEF IrpsInPlace
<1>6. ArrivalsInPlace'
  BY <1>0, <1>1, <1>2, <1>4 DEF ArrivalsInPlace
<1>7. TypeOK' /\ StopTypeOK'
  BY <1>0, <1>1 DEF TypeOK, StopTypeOK
<1>8. StopHandshake' /\ PoolDown' /\ QuietInv' /\ CancelledWait'
  BY <1>0, <1>1, <1>2 DEF StopHandshake, FlushAwaited, PoolDown, QuietInv, CancelledWait
<1> QED BY <1>1, <1>5, <1>6, <1>7, <1>8, CacheSame DEF JInv, CacheInv, ServiceInv

\* The event is set.
LEMMA SetEventStep ==
  ASSUME JInv, NEW i \in Irp, SetEvent(i)
  PROVE  JInv'
<1> USE DEF diskVars, eventVars, ioctlVars, rwVars, wbVars, auxVars
<1>0. /\ TypeOK /\ IrpsInPlace /\ ArrivalsInPlace /\ QuietInv /\ StopTypeOK /\ StopHandshake
      /\ PoolDown /\ CancelledWait
  BY DEF JInv, CacheInv, ServiceInv
<1>1. /\ signal' = signal \ {i} /\ rwStart' = TRUE
      /\ UNCHANGED <<diskVars, wbStart, wbFinish, rwFinish, rwVars, wbVars, lock, ioctlVars, rwList, req,
                     cancelled, ssVars>>
  BY DEF SetEvent, Signal
<1>2. TypeOK' /\ IrpsInPlace'
  BY <1>0, <1>1 DEF TypeOK, IrpsInPlace
<1>3. /\ StopTypeOK' /\ ArrivalsInPlace' /\ StopHandshake' /\ PoolDown' /\ QuietInv'
      /\ CancelledWait'
  BY <1>0, <1>1 DEF ssVars, StopTypeOK, ArrivalsInPlace, StopHandshake, FlushAwaited, PoolDown,
     QuietInv, CancelledWait
<1> QED BY <1>1, <1>2, <1>3, CacheSame DEF ssVars, JInv, CacheInv, ServiceInv

\* The issuer of a packet on the list cancels it.
LEMMA CancelStep ==
  ASSUME JInv, NEW i \in Irp, SSCancel(i)
  PROVE  JInv'
<1> USE DEF diskVars, eventVars, ioctlVars, rwVars, wbVars, auxVars
<1>0. /\ TypeOK /\ IrpsInPlace /\ ArrivalsInPlace /\ QuietInv /\ StopTypeOK /\ StopHandshake
      /\ PoolDown /\ CancelledWait
  BY DEF JInv, CacheInv, ServiceInv
<1>1. /\ cancelled' = cancelled \cup {i}
      /\ UNCHANGED <<diskVars, eventVars, rwVars, wbVars, lock, ioctlVars, rwList, req, signal, ssVars>>
  BY DEF SSCancel, Cancel
<1>2. req[i] # None /\ i # cur /\ i \notin arriving \cup passing
  BY <1>0 DEF SSCancel, Cancel, IrpsInPlace, ArrivalsInPlace
<1>3. TypeOK' /\ IrpsInPlace'
  BY <1>0, <1>1 DEF TypeOK, IrpsInPlace
<1>4. StopTypeOK' /\ StopHandshake' /\ PoolDown' /\ QuietInv'
  BY <1>0, <1>1 DEF ssVars, StopTypeOK, StopHandshake, FlushAwaited, PoolDown, QuietInv
<1>5. ArrivalsInPlace' /\ CancelledWait'
  BY <1>0, <1>1, <1>2 DEF ssVars, ArrivalsInPlace, CancelledWait
<1> QED BY <1>1, <1>3, <1>4, <1>5, CacheSame DEF ssVars, JInv, CacheInv, ServiceInv

\* While the volume is not protected the device and its issuers see the same.
LEMMA PassDownStep ==
  ASSUME JInv, NEW i \in Irp, PassDown(i)
  PROVE  JInv'
<1> USE DEF diskVars, eventVars, ioctlVars, rwVars, wbVars, auxVars
<1>0. /\ TypeOK /\ IrpsInPlace /\ ArrivalsInPlace /\ QuietInv /\ StopTypeOK /\ StopHandshake
      /\ PoolDown /\ CancelledWait
  BY DEF JInv, CacheInv, ServiceInv
<1>1. /\ i \in passing /\ passing' = passing \ {i} /\ arriving' = arriving
      /\ disk' = Apply(req[i], disk) /\ host' = Apply(req[i], host)
      /\ req' = [req EXCEPT ![i] = None]
      /\ UNCHANGED <<data, modified, queue, eventVars, rwVars, wbVars, lock, ioctlVars, rwList, signal,
                     cancelled, protected, alive, ctlpc, crashed, stale, forgotten>>
  BY DEF PassDown
<1>2. ~protected /\ ctlpc = "idle"
  BY <1>0, <1>1 DEF QuietInv
<1>3. /\ cur = None /\ rwList = <<>> /\ rwpc \in {"wait", "pop"} /\ add = "none" /\ arriving = {}
      /\ data = <<>> /\ modified = {} /\ queue = <<>>
  BY <1>0, <1>2, NothingServed DEF PoolDown, StartPcs
<1>4. host = disk
  BY <1>0, <1>3, EmptyPool DEF JInv, HostInv, AddPcs
<1>5. req[i] \in Request
  BY <1>0, <1>1 DEF ArrivalsInPlace, TypeOK
<1>6. disk' \in [Block -> Content] /\ host' \in [Block -> Content]
  BY <1>0, <1>1, <1>4, <1>5, ApplyType DEF TypeOK
<1>7. TypeOK' /\ StopTypeOK'
  BY <1>0, <1>1, <1>6 DEF TypeOK, StopTypeOK
<1>8. IrpsInPlace' /\ ArrivalsInPlace'
  <2>1. \A x \in Irp \ {i} : req'[x] = req[x]
    BY <1>0, <1>1 DEF TypeOK
  <2> QED BY <1>0, <1>1, <1>3, <2>1 DEF IrpsInPlace, ArrivalsInPlace, StopTypeOK
<1>9. StopHandshake' /\ PoolDown' /\ QuietInv' /\ CancelledWait'
  <2>1. i \notin cancelled /\ \A x \in Irp \ {i} : req'[x] = req[x]
    BY <1>0, <1>1 DEF ArrivalsInPlace, TypeOK
  <2>2. CancelledWait'
    BY <1>0, <1>1, <2>1 DEF CancelledWait, TypeOK
  <2>3. StopHandshake' /\ PoolDown' /\ QuietInv'
    BY <1>0, <1>1 DEF StopHandshake, FlushAwaited, PoolDown, QuietInv
  <2> QED BY <2>2, <2>3
<1>10. Adding' /\ ReadIsCurrent' /\ QueueIsModified'
  BY <1>1, <1>3 DEF Adding, AddPcs, ReadIsCurrent, QueueIsModified, Queued
<1>11. CleanIsOnDisk' /\ RunIsCurrent'
  <2>1. cached' = {}
    BY <1>1, <1>3 DEF cached
  <2>2. acc' = <<>>
    BY <1>0, <1>1, <1>2, <1>3 DEF StopHandshake, FlushAwaited
  <2> QED BY <1>7, <2>1, <2>2, RunEmptied DEF CleanIsOnDisk
<1>12. HostInv' /\ AnswerInv'
  <2>1. Contents' = disk'
    <3>1. cached' = {}
      BY <1>1, <1>3 DEF cached
    <3> QED BY <1>6, <3>1 DEF Contents
  <2> QED BY <1>1, <1>3, <1>4, <2>1 DEF HostInv, AnswerInv, AddPcs
<1>13. ServiceInv'
  BY <1>1, <1>3, <1>9, NothingBetween DEF ServiceInv
<1> QED BY <1>7, <1>8, <1>9, <1>10, <1>11, <1>12, <1>13 DEF JInv, CacheInv
-----------------------------------------------------------------------------
(* IOCTL_DF_START and IOCTL_DF_STOP.                                       *)

\* With no request in flight none is in any of the places it could be in.
LEMMA NoneInFlight ==
  ASSUME JInv, InFlight = {}
  PROVE  /\ arriving = {} /\ passing = {} /\ signal = {} /\ rwList = <<>> /\ cur = None
         /\ rwpc \in {"wait", "pop"} /\ add = "none"
<1>0. TypeOK /\ IrpsInPlace /\ Adding /\ ArrivalsInPlace /\ StopTypeOK
  BY DEF JInv, CacheInv
<1>1. signal = {} /\ \A i \in Irp : req[i] = None
  BY DEF InFlight
<1>2. arriving = {} /\ passing = {}
  BY <1>0, <1>1 DEF ArrivalsInPlace, StopTypeOK
<1>3. cur = None
  BY <1>0, <1>1 DEF IrpsInPlace, TypeOK
<1>4. rwList = <<>>
  <2>1. SUFFICES ASSUME rwList # <<>> PROVE FALSE
    OBVIOUS
  <2>2. 1 \in DOMAIN rwList /\ rwList[1] \in Irp
    BY <1>0, <2>1 DEF TypeOK
  <2> QED BY <1>0, <1>1, <2>2 DEF IrpsInPlace
<1> QED BY <1>0, <1>1, <1>2, <1>3, <1>4 DEF IrpsInPlace, Adding, AddPcs

\* A step of the ioctls that leaves the cache and the requests alone and keeps the handshake.
LEMMA ControlStep ==
  ASSUME JInv, UNCHANGED <<diskVars, rwVars, wbVars, lock, irpVars, arriving, passing, host>>,
         size' = size \/ rwpc \in {"wait", "pop"},
         TypeOK', StopTypeOK', StopHandshake', QuietInv', PoolDown'
  PROVE  JInv'
<1> USE DEF irpVars
<1>1. CancelledWait' /\ IrpsInPlace' /\ ArrivalsInPlace'
  <2>1. CancelledWait /\ IrpsInPlace /\ ArrivalsInPlace
    BY DEF JInv, CacheInv, ServiceInv
  <2> QED BY <2>1 DEF rwVars, CancelledWait, IrpsInPlace, ArrivalsInPlace
<1> QED BY <1>1, CacheSame DEF JInv, CacheInv, ServiceInv

\* What is set up, or done away with again, is as empty as what was destroyed.
LEMMA StartStep ==
  ASSUME JInv, Quiet, \/ StartPool \/ StartQueue \/ StartProtect
                      \/ StartPoolFails \/ StartQueueFails \/ UndoQueue \/ UndoPool
  PROVE  JInv'
<1> USE DEF diskVars, eventVars, ioctlVars, irpVars, rwVars, wbVars, CtlStep, auxVars
<1>0. TypeOK /\ StopTypeOK /\ StopHandshake /\ QuietInv /\ PoolDown
  BY DEF JInv, CacheInv
<1>1. ~protected /\ ctlpc \in StartPcs /\ passing = {}
  <2>1. CASE StartPool \/ StartPoolFails
    <3>1. InFlight = {} /\ ~protected /\ ctlpc = "idle"
      BY <2>1, Zenon DEF StartPool, StartPoolFails
    <3> QED BY <3>1, NoneInFlight DEF StartPcs
  <2>2. CASE ~(StartPool \/ StartPoolFails)
    <3>1. ctlpc \in {"queue", "protect", "undoQueue", "undoPool"}
      BY <2>2 DEF StartQueue, StartProtect, StartQueueFails, UndoQueue, UndoPool
    <3> QED BY <1>0, <3>1 DEF QuietInv, StartPcs
  <2> QED BY <2>1, <2>2
<1>2. /\ data = <<>> /\ modified = {} /\ queue = <<>> /\ stale = 0
      /\ cur = None /\ rwList = <<>> /\ signal = {} /\ arriving = {} /\ rwpc \in {"wait", "pop"}
  BY <1>0, <1>1, NothingServed DEF PoolDown, QuietInv
<1>3. Len(queue) = 0 /\ Live = {}
  BY <1>2 DEF Live
<1>4. data' = <<>> /\ modified' = {} /\ queue' = <<>> /\ stale' = 0 /\ disk' = disk
  <2>1. CASE StartPool
    BY <1>2, <1>3, <2>1 DEF StartPool
  <2>2. CASE StartQueue \/ StartQueueFails \/ UndoQueue
    BY <1>2, <2>2 DEF StartQueue, StartQueueFails, UndoQueue, ZeroQueue
  <2>3. CASE StartProtect \/ StartPoolFails \/ UndoPool
    BY <1>2, <2>3 DEF StartProtect, StartPoolFails, UndoPool, vars
  <2> QED BY <2>1, <2>2, <2>3
<1>5. forgotten' \in SUBSET Block /\ size' \in {0, QueueSize}
  <2>1. forgotten \in SUBSET Block /\ size \in {0, QueueSize}
    BY <1>0 DEF StopTypeOK, TypeOK
  <2>2. forgotten' \in {forgotten, {}, forgotten \cup Live} /\ size' \in {size, 0, QueueSize}
    BY DEF StartPool, StartQueue, StartQueueFails, UndoQueue, ZeroQueue, StartProtect,
       StartPoolFails, UndoPool, vars
  <2> QED BY <1>3, <2>1, <2>2
<1>6. UNCHANGED <<lock, eventVars, flushAll, irpVars, rwVars, wbVars, arriving, passing, crashed, host>>
  BY DEF StartPool, StartQueue, StartQueueFails, UndoQueue, ZeroQueue, StartProtect,
     StartPoolFails, UndoPool, vars
<1>7. /\ ctlpc' \in StartPcs /\ alive' \in BOOLEAN /\ protected' \in BOOLEAN
      /\ protected' => alive' /\ ctlpc' = "idle"
      /\ ctlpc' \in {"queue", "protect"} => alive'
  <2>0. protected = FALSE
    BY <1>0, <1>1, Zenon DEF StopTypeOK
  <2>1. CASE StartPool
    <3>1. ctlpc' = "queue" /\ alive' = TRUE /\ protected' = protected
      BY <2>1, Zenon DEF StartPool, CtlStep
    <3> QED BY <2>0, <3>1 DEF StartPcs
  <2>2. CASE StartQueue
    <3>1. ctlpc = "queue" /\ ctlpc' = "protect" /\ alive' = alive /\ protected' = protected
      BY <2>2, Zenon DEF StartQueue, CtlStep
    <3> QED BY <1>0, <1>1, <3>1 DEF StartPcs, QuietInv, StopTypeOK
  <2>3. CASE StartProtect
    <3>1. ctlpc = "protect" /\ ctlpc' = "idle" /\ alive' = alive /\ protected' = TRUE
      BY <2>3, Zenon DEF StartProtect, CtlStep
    <3> QED BY <1>0, <1>1, <3>1 DEF StartPcs, QuietInv, StopTypeOK
  <2>4. CASE StartPoolFails \/ StartQueueFails \/ UndoQueue
    <3>1. ctlpc' \in {"undoQueue", "undoPool"} /\ alive' = alive /\ protected' = protected
      BY <2>4 DEF StartPoolFails, StartQueueFails, UndoQueue, ZeroQueue
    <3> QED BY <1>0, <1>1, <3>1 DEF StartPcs, StopTypeOK
  <2>5. CASE UndoPool
    <3>1. ctlpc' = "idle" /\ alive' = FALSE /\ protected' = protected
      BY <2>5, Zenon DEF UndoPool, CtlStep
    <3> QED BY <2>0, <3>1 DEF StartPcs
  <2> QED BY <2>1, <2>2, <2>3, <2>4, <2>5
<1>8. UNCHANGED diskVars
  BY <1>2, <1>4
<1>9. TypeOK' /\ StopHandshake'
  <2>1. wbpc # "wait" \/ wbStart \/ wbFinish => FALSE
    BY <1>0, <1>1, <1>2 DEF StopHandshake, FlushAwaited, StartPcs
  <2>2. TypeOK'
    BY <1>0, <1>3, <1>5, <1>6, <1>8, SizeAssumption DEF TypeOK
  <2>3. StopHandshake'
    BY <1>0, <1>6, <2>1 DEF StopHandshake
  <2> QED BY <2>2, <2>3
<1>10. StopTypeOK'
  <2>1. crashed' \in BOOLEAN
    BY <1>0, <1>6, Zenon DEF StopTypeOK
  <2>2. arriving' \in SUBSET Irp /\ passing' \in SUBSET Irp /\ host' \in [Block -> Content]
    BY <1>0, <1>6 DEF StopTypeOK
  <2> QED BY <1>4, <1>5, <1>7, <2>1, <2>2 DEF StopTypeOK
<1>11. QuietInv' /\ PoolDown'
  <2>1. passing' = {} /\ arriving' = {} /\ signal' = {} /\ rwList' = <<>> /\ cur' = None
    BY <1>1, <1>2, <1>6
  <2>2. ctlpc' # "destroy"
    BY <1>7 DEF StartPcs
  <2> QED BY <1>4, <1>7, <2>1, <2>2 DEF QuietInv, PoolDown
<1> QED BY <1>2, <1>6, <1>8, <1>9, <1>10, <1>11, ControlStep

\* STOP finds no request anywhere, and wakes the write-back thread only to wait for it.
LEMMA StopStep ==
  ASSUME JInv, Quiet, Stop \/ StopDrain \/ StopDrainWait \/ StopDrained \/ StopClear
                        \/ StopFlush \/ StopFlushWait \/ StopFlushed
  PROVE  JInv'
<1> USE DEF diskVars, eventVars, ioctlVars, irpVars, rwVars, wbVars, CtlStep, auxVars
<1>0. TypeOK /\ StopTypeOK /\ StopHandshake /\ QuietInv /\ PoolDown
  BY DEF JInv, CacheInv
<1>1. CASE Stop
  <2>1. /\ ctlpc = "idle" /\ ctlpc' = "drain" /\ protected' = FALSE /\ InFlight = {}
        /\ UNCHANGED <<vars, alive, arriving, passing, crashed, auxVars>>
    <3>1. InFlight = {}
      BY <1>1, Zenon DEF Stop
    <3> QED BY <1>1, <3>1 DEF Stop
  <2>2. TypeOK' /\ StopHandshake' /\ PoolDown'
    BY <1>0, <2>1 DEF vars, TypeOK, StopHandshake, FlushAwaited, PoolDown, StartPcs
  <2>3. StopTypeOK'
    BY <1>0, <2>1 DEF StopTypeOK, StartPcs
  <2>4. QuietInv'
    BY <1>0, <2>1, NoneInFlight DEF vars, QuietInv
  <2> QED BY <2>1, <2>2, <2>3, <2>4, ControlStep DEF vars
<1>2. CASE StopDrain \/ StopDrainWait \/ StopDrained \/ StopClear
  <2>1. /\ ctlpc \in {"drain", "drainWait", "clear"} /\ ctlpc' \in {"drain", "drainWait", "clear", "flush"}
        /\ rwStart' \in BOOLEAN /\ rwFinish' \in BOOLEAN /\ flushAll' \in BOOLEAN
        /\ UNCHANGED <<diskVars, lock, wbStart, wbFinish, size, irpVars, rwVars, wbVars,
                       protected, alive, arriving, passing, crashed, auxVars>>
    BY <1>0, <1>2 DEF StopDrain, StopDrainWait, StopDrained, StopClear, vars, TypeOK
  <2>2. TypeOK' /\ StopTypeOK' /\ StopHandshake' /\ PoolDown' /\ QuietInv'
    BY <1>0, <2>1 DEF TypeOK, StopTypeOK, StopHandshake, FlushAwaited, PoolDown, QuietInv,
       StartPcs
  <2> QED BY <2>1, <2>2, ControlStep
<1>3. CASE StopFlush \/ StopFlushWait \/ StopFlushed
  <2>1. /\ ~protected /\ rwpc # "finish"
    <3>1. ~protected
      BY <1>0, <1>3 DEF StopFlush, StopFlushWait, StopFlushed, QuietInv
    <3> QED BY <3>1, NothingServed
  <2>2. CASE StopFlush
    <3>1. /\ ctlpc = "flush" /\ ctlpc' = "flushWait" /\ wbStart' = TRUE
          /\ UNCHANGED <<diskVars, lock, wbFinish, rwStart, rwFinish, ioctlVars, irpVars, rwVars, wbVars,
                         protected, alive, arriving, passing, crashed, auxVars>>
      BY <2>2 DEF StopFlush
    <3>2. TypeOK' /\ StopTypeOK' /\ StopHandshake' /\ PoolDown' /\ QuietInv'
      BY <1>0, <2>1, <3>1 DEF TypeOK, StopTypeOK, StopHandshake, FlushAwaited, PoolDown, QuietInv,
         StartPcs
    <3> QED BY <3>1, <3>2, ControlStep
  <2>3. CASE StopFlushWait
    <3>1. /\ ctlpc = "flushWait" /\ ctlpc' = "flush" /\ wbFinish /\ wbFinish' = FALSE
          /\ UNCHANGED <<diskVars, lock, wbStart, rwStart, rwFinish, ioctlVars, irpVars, rwVars, wbVars,
                         protected, alive, arriving, passing, crashed, auxVars>>
      BY <2>3 DEF StopFlushWait
    <3>2. wbpc = "wait" /\ wbStart = FALSE /\ wbStart' = FALSE /\ acc = <<>>
      BY <1>0, <3>1 DEF StopHandshake, TypeOK
    <3>3. StopHandshake'
      BY <3>1, <3>2 DEF StopHandshake
    <3>4. TypeOK'
      BY <1>0, <3>1 DEF TypeOK
    <3>5. StopTypeOK'
      BY <1>0, <3>1 DEF StopTypeOK, StartPcs
    <3>6. PoolDown' /\ QuietInv'
      BY <1>0, <3>1 DEF PoolDown, QuietInv, StartPcs
    <3> QED BY <3>1, <3>3, <3>4, <3>5, <3>6, ControlStep
  <2>4. CASE StopFlushed
    <3>1. /\ ctlpc = "flush" /\ ctlpc' = "destroy" /\ queue = <<>>
          /\ UNCHANGED <<vars, protected, alive, arriving, passing, crashed, auxVars>>
      BY <2>4 DEF StopFlushed
    <3>2. TypeOK' /\ StopTypeOK' /\ StopHandshake' /\ PoolDown' /\ QuietInv'
      BY <1>0, <2>1, <3>1 DEF vars, TypeOK, StopTypeOK, StopHandshake, FlushAwaited, PoolDown, QuietInv,
         StartPcs
    <3> QED BY <3>1, <3>2, ControlStep DEF vars
  <2> QED BY <1>3, <2>2, <2>3, <2>4
<1> QED BY <1>1, <1>2, <1>3

\* The blocks that are thrown away with the pool are all on the device.
LEMMA DestroyStep ==
  ASSUME JInv, StopDestroy
  PROVE  JInv'
<1> USE DEF diskVars, eventVars, ioctlVars, irpVars, rwVars, wbVars, auxVars
<1>0. /\ TypeOK /\ IrpsInPlace /\ ArrivalsInPlace /\ QuietInv /\ StopTypeOK /\ StopHandshake
      /\ PoolDown /\ CancelledWait /\ QueueIsModified /\ CleanIsOnDisk /\ HostInv
  BY DEF JInv, CacheInv, ServiceInv
<1>1. /\ ctlpc = "destroy" /\ ctlpc' = "idle"
      /\ flushAll' = FALSE /\ data' = <<>> /\ modified' = {} /\ alive' = FALSE
      /\ UNCHANGED <<disk, queue, lock, eventVars, size, irpVars, rwVars, wbVars,
                     protected, arriving, passing, crashed, auxVars>>
  BY DEF StopDestroy, CtlStep
<1>2. ~protected /\ queue = <<>>
  BY <1>0, <1>1 DEF QuietInv, PoolDown
<1>3. cur = None /\ rwList = <<>> /\ rwpc \in {"wait", "pop"} /\ add = "none"
  BY <1>2, NothingServed
<1>4. acc = <<>> /\ modified = {}
  BY <1>0, <1>1, <1>2, <1>3 DEF StopHandshake, FlushAwaited, QueueIsModified, Queued
<1>5. \A b \in cached : data[b] = disk[b]
  BY <1>0, <1>3, <1>4, RunType DEF CleanIsOnDisk
<1>6. Contents = disk
  BY <1>0, <1>5 DEF Contents, TypeOK
<1>7. data' \in Partial(Block, Content) /\ cached' = {}
  <2>1. DOMAIN data' = {} /\ data' \in [DOMAIN data' -> Content]
    BY <1>1
  <2> QED BY <2>1, PartialFunction DEF cached
<1>8. Contents' = disk'
  BY <1>0, <1>1, <1>7 DEF Contents, TypeOK
<1>9. TypeOK' /\ StopTypeOK'
  <2>1. flushAll' \in BOOLEAN /\ alive' \in BOOLEAN
    BY <1>1, Zenon
  <2>2. /\ modified' = {} /\ ctlpc' = "idle"
        /\ UNCHANGED <<disk, queue, lock, eventVars, size, irpVars, rwVars, wbVars,
                       protected, arriving, passing, crashed, auxVars>>
    BY <1>1, Zenon
  <2> QED BY <1>0, <1>7, <2>1, <2>2 DEF TypeOK, StopTypeOK, StartPcs
<1>10. IrpsInPlace' /\ ArrivalsInPlace' /\ CancelledWait' /\ QuietInv' /\ StopHandshake' /\ PoolDown'
  BY <1>0, <1>1, <1>2 DEF IrpsInPlace, ArrivalsInPlace, CancelledWait, QuietInv, StopHandshake,
     FlushAwaited, PoolDown
<1>11. Adding' /\ ReadIsCurrent' /\ QueueIsModified' /\ HostInv' /\ AnswerInv'
  BY <1>0, <1>1, <1>2, <1>3, <1>6, <1>8 DEF Adding, AddPcs, ReadIsCurrent, QueueIsModified, Queued,
     HostInv, AnswerInv
<1>12. RunIsCurrent' /\ CleanIsOnDisk'
  BY <1>1, <1>4, <1>7, <1>9, RunEmptied DEF CleanIsOnDisk
<1>13. ServiceInv'
  BY <1>1, <1>3, <1>10, NothingBetween DEF ServiceInv
<1> QED BY <1>9, <1>10, <1>11, <1>12, <1>13 DEF JInv, CacheInv
-----------------------------------------------------------------------------
(* The threads.                                                            *)

\* The write-back thread flushes for whoever waits for it; nobody sees a difference.
LEMMA WbStepKeeps ==
  ASSUME JInv, WbStep
  PROVE  JInv'
<1> USE DEF diskVars, eventVars, ioctlVars, irpVars, rwVars, wbVars, auxVars
<1>0. /\ TypeOK /\ IrpsInPlace /\ Adding /\ ReadIsCurrent /\ QueueIsModified /\ RunIsCurrent
      /\ CleanIsOnDisk /\ CancelledWait /\ OpAsServed /\ ReadSoFar /\ WrittenSoFar
      /\ ArrivalsInPlace /\ QuietInv /\ StopTypeOK /\ StopHandshake /\ PoolDown
      /\ HostInv /\ AnswerInv
  BY DEF JInv, CacheInv, ServiceInv
<1>1. WbThread /\ UNCHANGED ssVars
  BY DEF WbStep
<1>2. /\ UNCHANGED <<data, irpVars, rwVars, rwStart, rwFinish, ioctlVars>>
      /\ wbpc = "wait" => UNCHANGED <<disk, modified, queue, acc, first>>
  BY <1>1 DEF WbThread, WbWake, WbCheck, WbLock, WbGather, WbRestart, WbWriteLast, WbUnlock, WbSignal
<1>3. TypeOK' /\ QueueIsModified'
  BY <1>0, <1>1, TypeStepWb, QueueStepWb DEF TypeOK
<1>4. RunIsCurrent' /\ CleanIsOnDisk'
  BY <1>0, <1>1, <1>3, RunStepWb, CleanStepWb
<1>5. Contents' = Contents
  BY <1>0, <1>1, KeptByFlush
<1>6. StopHandshake'
  BY <1>0, <1>1 DEF ssVars, StopHandshake, FlushAwaited, WbThread, WbWake, WbCheck, WbLock, WbGather,
     WbRestart, WbWriteLast, WbUnlock, WbSignal
<1>7. wbpc # "wait" => rwpc \in {"finish", "wait", "pop"}
  <2>1. SUFFICES ASSUME wbpc # "wait", ctlpc = "flushWait" PROVE rwpc \in {"wait", "pop"}
    BY <1>0 DEF StopHandshake, FlushAwaited
  <2>2. ~protected
    BY <1>0, <2>1 DEF QuietInv
  <2> QED BY <2>2, NothingServed
<1>8. Adding' /\ ReadIsCurrent'
  <2>1. NextBlock' = NextBlock
    BY <1>2, NextBlockSame
  <2>2. CASE wbpc = "wait"
    BY <1>0, <1>2, <2>1, <2>2 DEF Adding, AddPcs, IsFull, cached, ReadIsCurrent
  <2>3. CASE wbpc # "wait"
    BY <1>0, <1>2, <1>7, <2>1, <2>3 DEF Adding, AddPcs, cached, ReadIsCurrent
  <2> QED BY <2>2, <2>3
<1>9. ServiceInv'
  <2>1. CancelledWait'
    BY <1>0, <1>2 DEF CancelledWait
  <2> QED BY <1>0, <1>2, <1>5, <2>1, ServiceSame DEF ServiceInv
<1>10. IrpsInPlace' /\ ArrivalsInPlace' /\ QuietInv' /\ StopTypeOK'
  BY <1>0, <1>1, <1>2 DEF ssVars, IrpsInPlace, ArrivalsInPlace, QuietInv, StopTypeOK
<1>11. PoolDown'
  <2>1. CASE wbpc = "wait"
    BY <1>0, <1>1, <1>2, <2>1 DEF ssVars, PoolDown
  <2>2. CASE wbpc # "wait"
    <3>1. protected \/ ctlpc = "flushWait"
      BY <1>0, <2>2, NothingServed DEF StopHandshake, FlushAwaited
    <3>2. ctlpc' # "destroy" /\ (protected' \/ ctlpc' \notin StartPcs)
      BY <1>0, <1>1, <3>1 DEF ssVars, QuietInv, StartPcs
    <3> QED BY <3>2 DEF PoolDown
  <2> QED BY <2>1, <2>2
<1>12. HostInv' /\ AnswerInv'
  <2>1. NextBlock' = NextBlock /\ host' = host
    BY <1>1, <1>2, NextBlockSame DEF ssVars
  <2>2. \A b : Covers(b)' = Covers(b) /\ StoredYet(b)' = StoredYet(b)
    BY <1>2, <2>1 DEF Covers, StoredYet, Blocks
  <2>3. HostInv'
    BY <1>0, <1>2, <1>5, <2>1, <2>2 DEF HostInv, AddPcs
  <2>4. AnswerInv'
    BY <1>0, <1>2, <1>5, <2>2 DEF AnswerInv
  <2> QED BY <2>3, <2>4
<1> QED BY <1>3, <1>4, <1>6, <1>8, <1>9, <1>10, <1>11, <1>12 DEF JInv, CacheInv

\* With no request the read/write thread looks at the list and goes back to wait.
LEMMA RwIdle ==
  ASSUME JInv, RwStep, ~protected
  PROVE  JInv'
<1> USE DEF diskVars, eventVars, ioctlVars, irpVars, rwVars, wbVars, auxVars
<1>0. /\ TypeOK /\ IrpsInPlace /\ Adding /\ ReadIsCurrent /\ QueueIsModified /\ RunIsCurrent
      /\ CleanIsOnDisk /\ CancelledWait /\ OpAsServed /\ ReadSoFar /\ WrittenSoFar
      /\ ArrivalsInPlace /\ QuietInv /\ StopTypeOK /\ StopHandshake /\ PoolDown
      /\ HostInv /\ AnswerInv
  BY DEF JInv, CacheInv, ServiceInv
<1>1. /\ cur = None /\ rwList = <<>> /\ rwpc \in {"wait", "pop"} /\ add = "none"
  BY NothingServed
<1>2. RwThread /\ host' = (IF cur # None /\ cur' = None THEN Apply(req[cur], host) ELSE host)
      /\ UNCHANGED <<protected, alive, ctlpc, arriving, passing, crashed, stale, forgotten>>
  BY DEF RwStep
<1>3. RwWake \/ RwListEmpty
  BY <1>1, <1>2 DEF RwThread, RwPop, RwDropCancelled, RwPassDown, RwRead, RwReadHit, RwForward,
     RwForwardFails, RwReadCached, RwReadPlace, RwReadSkip, RwReadUpdated, RwCompleteRead, RwWrite,
     RwWriteBegin, RwWriteThrough, RwWriteCached, RwWriteNew, RwWriteReplace, RwQueueFull, RwFlushed,
     RwQueueHasRoom, RwClear, RwLock, RwInsertHit, RwInsertOld, RwInsertNew, RwCompleteWrite, Serving
<1>4. /\ rwpc' \in {"wait", "pop"} /\ rwStart' \in BOOLEAN /\ rwFinish' \in BOOLEAN
      /\ UNCHANGED <<diskVars, lock, wbStart, wbFinish, ioctlVars, irpVars, cur, todo, buf, add, wbVars>>
  BY <1>0, <1>3 DEF RwWake, RwListEmpty, TypeOK
<1>5. host' = host
  BY <1>1, <1>2
<1>6. TypeOK' /\ StopTypeOK'
  BY <1>0, <1>2, <1>4, <1>5 DEF TypeOK, StopTypeOK, RwPcs
<1>7. /\ IrpsInPlace' /\ Adding' /\ ReadIsCurrent' /\ CancelledWait'
  BY <1>0, <1>1, <1>4 DEF IrpsInPlace, Adding, AddPcs, ReadIsCurrent, CancelledWait
<1>8. QueueIsModified' /\ RunIsCurrent' /\ CleanIsOnDisk'
  BY <1>0, <1>1, <1>4 DEF QueueIsModified, Queued, cached, RunIsCurrent, Merged, InRun, CleanIsOnDisk
<1>9. ArrivalsInPlace' /\ QuietInv' /\ PoolDown'
  BY <1>0, <1>2, <1>4 DEF ArrivalsInPlace, QuietInv, PoolDown
<1>10. StopHandshake'
  BY <1>0, <1>1, <1>2, <1>4 DEF StopHandshake, FlushAwaited
<1>11. Contents' = Contents
  BY <1>4 DEF Contents, cached
<1>12. HostInv' /\ AnswerInv'
  BY <1>0, <1>1, <1>4, <1>5, <1>11 DEF HostInv, AnswerInv, AddPcs
<1>13. ServiceInv'
  BY <1>4, <1>7, NothingBetween DEF ServiceInv
<1> QED BY <1>6, <1>7, <1>8, <1>9, <1>10, <1>12, <1>13 DEF JInv, CacheInv

\* The threads never touch memory of a pool that is gone.
LEMMA NoFreedMemory ==
  ASSUME JInv
  PROVE  ~UsesFreedMemory
<1>0. /\ TypeOK /\ Adding /\ QueueIsModified /\ QuietInv /\ IrpsInPlace
  BY DEF JInv, CacheInv
<1>1. rwpc \in {"readUpdate", "write"} => alive
  BY <1>0, NothingServed DEF QuietInv
<1>2. rwpc = "insert" => NextBlock \in cached
  BY <1>0 DEF Adding, AddPcs
<1>3. queue # <<>> => Head(queue) \in cached /\ stale = 0
  <2>1. SUFFICES ASSUME queue # <<>> PROVE Head(queue) \in Queued
    BY <1>0 DEF QueueIsModified, QuietInv
  <2> QED BY <1>0, <2>1 DEF TypeOK, Queued
<1> QED BY <1>1, <1>2, <1>3 DEF UsesFreedMemory
-----------------------------------------------------------------------------
(* The read/write thread serving a request: the volume, and what its        *)
(* issuers know of it.                                                     *)

\* The read/write thread cancels and submits nothing.
LEMMA ThreadDispatchesNothing ==
  ASSUME RwThread
  PROVE  [Next]_vars /\ ~Dispatch /\ UNCHANGED <<signal, cancelled>>
<1> USE DEF diskVars, eventVars, ioctlVars, irpVars, rwVars, wbVars, auxVars
<1>1. UNCHANGED <<signal, cancelled>>
  BY DEF RwThread, RwWake, RwPop, RwDropCancelled, RwListEmpty, RwPassDown, RwRead, RwReadHit, RwForward,
     RwForwardFails, RwReadCached, RwReadPlace, RwReadSkip, RwReadUpdated, RwCompleteRead, RwWrite,
     RwWriteBegin, RwWriteThrough, RwWriteCached, RwWriteNew, RwWriteReplace, RwQueueFull, RwFlushed,
     RwQueueHasRoom, RwClear, RwLock, RwInsertHit, RwInsertOld, RwInsertNew, RwCompleteWrite
<1>2. ~Dispatch
  BY <1>1 DEF Dispatch, Submit, Cancel
<1> QED BY <1>1, <1>2 DEF Next

\* When a request is finished its issuer knows of it, and the volume holds it.
LEMMA HostFinished ==
  ASSUME JInv, IInv, ServiceInv, Unmappable = {}, FinishingStep, host' = Apply(req[cur], host)
  PROVE  HostInv'
<1>0. TypeOK /\ IrpsInPlace /\ OpAsServed /\ HostInv /\ host \in [Block -> Content]
  BY DEF JInv, IInv, ServiceInv, StopTypeOK
<1>1. /\ rwpc \notin {"wait", "pop"} /\ rwpc' = "pop" /\ UNCHANGED <<data, disk>>
  <2>1. RwPassDown => disk' = disk
    BY PassedEmpty DEF IInv
  <2> QED BY <2>1, Finished DEF FinishingStep, RwForwardFails, RwCompleteRead, RwCompleteWrite, diskVars
<1>2. Contents' = Contents
  BY <1>1 DEF Contents, cached
<1>3. SUFFICES Contents = Apply(req[cur], host)
  BY <1>1, <1>2 DEF HostInv, AddPcs
<1>4. req[cur] \in Request /\ req[cur].op \in {"read", "write"}
  BY <1>0, <1>1, ServedRequest, RequestAssumption DEF RequestType
<1>5. ASSUME NEW b \in Block, b \notin Blocks(req[cur])
      PROVE  Merge(host[b], req[cur].val[b], req[cur].parts[b]) = host[b]
  <2>1. req[cur].parts[b] = {}
    BY <1>5 DEF Blocks
  <2> QED BY <1>0, <2>1, MergeNone
<1>6. CASE RwForwardFails \/ RwCompleteRead
  <2>1. req[cur].op = "read" /\ rwpc \notin {"write"} \cup AddPcs
    BY <1>0, <1>6 DEF RwForwardFails, RwCompleteRead, Serving, OpAsServed, AddPcs
  <2> QED BY <1>0, <2>1 DEF HostInv, Apply
<1>7. CASE RwPassDown
  <2>1. Blocks(req[cur]) = {} /\ rwpc \notin {"write"} \cup AddPcs
    BY <1>7 DEF RwPassDown, AddPcs
  <2>2. Contents = host
    BY <1>0, <2>1 DEF HostInv
  <2> QED BY <1>0, <1>5, <2>1, <2>2 DEF Apply
<1>8. CASE RwCompleteWrite
  <2>1. rwpc = "write" /\ todo = {} /\ req[cur].op = "write"
    BY <1>0, <1>8 DEF RwCompleteWrite, OpAsServed
  <2>2. Contents = [b \in Block |->
          IF StoredYet(b) THEN Merge(host[b], req[cur].val[b], Covers(b)) ELSE host[b]]
    BY <1>0, <2>1 DEF HostInv
  <2>3. \A b \in Block : StoredYet(b) <=> b \in Blocks(req[cur])
    BY <2>1 DEF StoredYet
  <2>4. \A b \in Block : Contents[b] = Merge(host[b], req[cur].val[b], req[cur].parts[b])
    BY <1>5, <2>2, <2>3 DEF Covers
  <2> QED BY <2>1, <2>2, <2>4 DEF Apply
<1> QED BY <1>6, <1>7, <1>8 DEF FinishingStep

\* A block that is stored is from then on among those gone through.
LEMMA HostStored ==
  ASSUME JInv, IInv, ServiceInv, Unmappable = {}, StoringStep, host' = host
  PROVE  HostInv'
<1> DEFINE n == NextBlock
<1>0. TypeOK /\ Adding /\ OpAsServed /\ HostInv
  BY DEF JInv, IInv, ServiceInv
<1>1. StoresNext /\ todo # {} /\ n \in todo /\ UNCHANGED <<req, cur>>
  BY StoredByWrite
<1>2. /\ rwpc \in {"write", "insert"} /\ rwpc' \in {"write", "full"} /\ add \in {"none", "hit"}
  BY <1>0 DEF StoringStep, RwWriteThrough, RwWriteNew, RwWriteReplace, RwInsertHit, Adding, AddPcs,
     rwVars
<1>3. n \in Blocks(req[cur]) /\ n \in Block
  BY <1>0, <1>1, <1>2 DEF OpAsServed, AddPcs, TypeOK
<1>4. (Blocks(req[cur]))' = Blocks(req[cur]) /\ \A b : Covers(b)' = Covers(b)
  BY <1>1 DEF Blocks, Covers
<1>5. \A b : StoredYet(b)' <=> StoredYet(b) \/ b = n
  <2>1. CASE RwWriteThrough \/ RwInsertHit
    <3>1. todo' = todo \ {n} /\ add' \in {"none", "hit"}
      BY <1>2, <2>1 DEF RwWriteThrough, RwInsertHit
    <3> QED BY <1>1, <1>2, <1>3, <1>4, <3>1 DEF StoredYet
  <2>2. CASE RwWriteNew \/ RwWriteReplace
    <3>1. todo' = todo /\ add' \in {"old", "new"}
      BY <2>2 DEF RwWriteNew, RwWriteReplace
    <3>2. NextBlock' = n
      BY <3>1, NextBlockSame
    <3> QED BY <1>1, <1>2, <1>3, <1>4, <3>1, <3>2 DEF StoredYet
  <2> QED BY <2>1, <2>2 DEF StoringStep
<1>6. ~StoredYet(n)
  BY <1>1, <1>2 DEF StoredYet
<1>7. Contents = [b \in Block |->
        IF StoredYet(b) THEN Merge(host[b], req[cur].val[b], Covers(b)) ELSE host[b]]
  BY <1>0, <1>2 DEF HostInv, AddPcs
<1>8. Contents[n] = host[n]
  BY <1>3, <1>6, <1>7
<1>9. Contents' = [Contents EXCEPT ![n] = Merge(Contents[n], req[cur].val[n], Covers(n))]
  BY <1>1 DEF StoresNext
<1>10. \A b \in Block : Contents'[b] =
         IF StoredYet(b)' THEN Merge(host[b], req[cur].val[b], Covers(b)) ELSE host[b]
  <2> HIDE DEF n
  <2>1. ASSUME NEW b \in Block, b # n PROVE Contents'[b] = Contents[b]
    BY <1>7, <1>9, <2>1
  <2>2. Contents'[n] = Merge(host[n], req[cur].val[n], Covers(n))
    BY <1>3, <1>7, <1>8, <1>9
  <2> QED BY <1>3, <1>5, <1>7, <2>1, <2>2
<1>11. Contents' = [b \in Block |-> Contents'[b]]
  BY DEF Contents
<1>12. Contents' = [b \in Block |->
         IF StoredYet(b)' THEN Merge(host[b], req[cur].val[b], Covers(b)) ELSE host[b]]
  BY <1>10, <1>11
<1> QED BY <1>1, <1>2, <1>4, <1>12 DEF HostInv, AddPcs

\* Any other step of the thread changes neither the volume nor what is gone through.
LEMMA HostKept ==
  ASSUME JInv, IInv, ServiceInv, Unmappable = {}, RwThread, ~FinishingStep, ~StoringStep, host' = host
  PROVE  HostInv'
<1> USE DEF diskVars, eventVars, ioctlVars, irpVars, rwVars, wbVars, auxVars
<1>0. TypeOK /\ Adding /\ HostInv
  BY DEF JInv, IInv
<1>1. Contents' = Contents
  BY ThreadDispatchesNothing, KeptOtherwise
<1>2. CASE rwpc \notin {"write"} \cup AddPcs /\ rwpc' \notin {"write"} \cup AddPcs
  BY <1>0, <1>1, <1>2 DEF HostInv
<1>3. CASE RwWriteBegin
  <2>1. /\ rwpc = "serve" /\ rwpc' = "write" /\ todo' = Blocks(req[cur]) /\ add' = add
        /\ UNCHANGED <<req, cur>>
    BY <1>3 DEF RwWriteBegin, Serving
  <2>2. add = "none" /\ Contents = host
    BY <1>0, <2>1 DEF Adding, AddPcs, HostInv
  <2>3. \A b : ~StoredYet(b)'
    BY <2>1, <2>2 DEF StoredYet, Blocks
  <2>4. Contents' = [b \in Block |-> host[b]]
    BY <1>1, <2>2 DEF Contents
  <2> QED BY <2>1, <2>3, <2>4 DEF HostInv, AddPcs
<1>4. CASE RwWriteCached \/ RwQueueFull \/ RwFlushed \/ RwQueueHasRoom \/ RwClear \/ RwLock
           \/ RwInsertOld \/ RwInsertNew
  <2>1. /\ rwpc \in {"write"} \cup AddPcs /\ rwpc' \in {"write"} \cup AddPcs
        /\ UNCHANGED <<req, cur>>
    BY <1>4 DEF RwWriteCached, RwQueueFull, RwFlushed, RwQueueHasRoom, RwClear, RwLock,
       RwInsertOld, RwInsertNew, AddPcs
  <2>2. (Blocks(req[cur]))' = Blocks(req[cur]) /\ \A b : Covers(b)' = Covers(b)
    BY <2>1 DEF Blocks, Covers
  <2>3. ASSUME NEW b PROVE StoredYet(b)' <=> StoredYet(b)
    <3>1. CASE RwInsertOld \/ RwInsertNew
      <4>1. add \in {"old", "new"} /\ add' = "none" /\ todo' = todo \ {NextBlock}
        BY <3>1 DEF RwInsertOld, RwInsertNew
      <4> QED BY <2>2, <4>1 DEF StoredYet
    <3>2. CASE RwWriteCached
      <4>1. add = "none" /\ add' = "hit" /\ todo' = todo
        BY <1>0, <3>2 DEF RwWriteCached, Adding, AddPcs
      <4> QED BY <2>2, <4>1 DEF StoredYet
    <3>3. CASE RwQueueFull \/ RwFlushed \/ RwQueueHasRoom \/ RwClear \/ RwLock
      <4>1. UNCHANGED <<add, todo>>
        BY <3>3 DEF RwQueueFull, RwFlushed, RwQueueHasRoom, RwClear, RwLock
      <4> QED BY <2>2, <4>1, NextBlockSame DEF StoredYet
    <3> QED BY <1>4, <3>1, <3>2, <3>3
  <2> QED BY <1>0, <1>1, <2>1, <2>2, <2>3 DEF HostInv
<1>5. CASE RwRead
  <2>1. rwpc \notin {"write"} \cup AddPcs /\ rwpc' \notin {"write"} \cup AddPcs
    BY <1>5 DEF FinishingStep, RwRead, RwReadHit, RwForward, RwReadCached, RwReadPlace, RwReadSkip,
       RwReadUpdated, Serving, AddPcs
  <2> QED BY <1>2, <2>1
<1>6. CASE RwWake \/ RwPop \/ RwDropCancelled \/ RwListEmpty
  <2>1. rwpc \notin {"write"} \cup AddPcs /\ rwpc' \notin {"write"} \cup AddPcs
    BY <1>6 DEF RwWake, RwPop, RwDropCancelled, RwListEmpty, AddPcs
  <2> QED BY <1>2, <2>1
<1> QED BY <1>3, <1>4, <1>5, <1>6 DEF RwThread, RwWrite, FinishingStep, StoringStep
\* The answer to a read is found in the pool, or brought up to date block by block.
LEMMA AnswerStep ==
  ASSUME JInv, IInv, ServiceInv, RwThread
  PROVE  AnswerInv'
<1> USE DEF diskVars, eventVars, ioctlVars, irpVars, rwVars, wbVars, auxVars
<1>1. SUFFICES ASSUME rwpc' = "answered" PROVE AnswerInv'
  BY DEF AnswerInv
<1>2. RwReadHit \/ RwReadUpdated
  BY <1>1 DEF RwThread, RwWake, RwPop, RwDropCancelled, RwListEmpty, RwPassDown, RwRead, RwForward,
     RwForwardFails, RwReadCached, RwReadPlace, RwReadSkip, RwCompleteRead, RwWrite,
     RwWriteBegin, RwWriteThrough, RwWriteCached, RwWriteNew, RwWriteReplace, RwQueueFull, RwFlushed,
     RwQueueHasRoom, RwClear, RwLock, RwInsertHit, RwInsertOld, RwInsertNew, RwCompleteWrite,
     FinishCur, Serving
<1>3. UNCHANGED <<data, disk, req, cur>>
  BY <1>2 DEF RwReadHit, RwReadUpdated
<1>4. Contents' = Contents /\ \A b : Covers(b)' = Covers(b)
  BY <1>3 DEF Contents, cached, Covers
<1>5. \A b \in Block : Covers(b) # {} => b \in Blocks(req[cur])
  BY DEF Covers, Blocks
<1>6. \A b \in Blocks(req[cur]) : \A p \in Covers(b) : buf'[b][p] = Contents[b][p]
  <2>1. CASE RwReadHit
    <3>1. buf' = [b \in Blocks(req[cur]) |-> data[b]] /\ Blocks(req[cur]) \subseteq cached
      BY <2>1 DEF RwReadHit
    <3> QED BY <3>1 DEF Contents, Blocks
  <2>2. CASE RwReadUpdated
    <3>1. rwpc = "readUpdate" /\ todo = {} /\ buf' = buf
      BY <2>2 DEF RwReadUpdated
    <3> QED BY <3>1 DEF ServiceInv, ReadSoFar
  <2> QED BY <1>2, <2>1, <2>2
<1> QED BY <1>4, <1>5, <1>6 DEF AnswerInv

\* The dispatch routine keeps its requests while the thread serves others.
LEMMA ArrivalsKept ==
  ASSUME JInv, IInv, RwThread, UNCHANGED <<arriving, passing>>
  PROVE  ArrivalsInPlace'
<1>0. TypeOK /\ IrpsInPlace /\ ArrivalsInPlace /\ StopTypeOK /\ cancelled' = cancelled
  BY ThreadDispatchesNothing DEF JInv, IInv
<1>1. CASE FinishingStep
  <2>1. /\ cur \in Irp /\ req' = [req EXCEPT ![cur] = None] /\ cur' = None /\ rwList' = rwList
    BY <1>1, Finished
  <2>2. \A i \in Irp \ {cur} : req'[i] = req[i]
    BY <1>0, <2>1 DEF TypeOK
  <2>3. None \notin Irp
    BY IrpAssumption
  <2> QED BY <1>0, <2>1, <2>2, <2>3 DEF ArrivalsInPlace, StopTypeOK
<1>2. CASE RwPop \/ RwDropCancelled
  <2>1. rwList # <<>> /\ cur' \in {cur, Head(rwList)} /\ rwList' = Tail(rwList) /\ req' = req
    BY <1>2 DEF RwPop, RwDropCancelled, rwVars
  <2>2. /\ 1 \in DOMAIN rwList /\ cur' \in {cur, rwList[1]}
        /\ \A k \in DOMAIN rwList' : k + 1 \in DOMAIN rwList /\ rwList'[k] = rwList[k + 1]
    BY <1>0, <2>1 DEF TypeOK
  <2> QED BY <1>0, <2>1, <2>2 DEF ArrivalsInPlace
<1>3. CASE ~FinishingStep /\ ~RwPop /\ ~RwDropCancelled
  <2>1. UNCHANGED <<rwList, req, cur>>
    BY <1>3, ThreadDispatchesNothing, RequestsKept
  <2> QED BY <1>0, <2>1 DEF ArrivalsInPlace
<1> QED BY <1>1, <1>2, <1>3

\* What the issuers know changes with a request that is finished.
LEMMA HostChanges ==
  ASSUME IInv, RwThread, host' = IF cur # None /\ cur' = None THEN Apply(req[cur], host) ELSE host
  PROVE  IF FinishingStep THEN host' = Apply(req[cur], host) ELSE host' = host
<1>1. CASE FinishingStep
  BY <1>1, Finished
<1>2. CASE RwPop
  <2>1. cur = None /\ ~FinishingStep
    BY <1>2, Finished DEF RwPop, IInv, IrpsInPlace
  <2> QED BY <2>1
<1>3. CASE RwDropCancelled
  <2>1. cur = None /\ ~FinishingStep
    BY <1>3, Finished DEF RwDropCancelled, IInv, IrpsInPlace
  <2> QED BY <2>1
<1>4. CASE ~FinishingStep /\ ~RwPop /\ ~RwDropCancelled
  <2>1. cur' = cur
    BY <1>4, ThreadDispatchesNothing, RequestsKept
  <2> QED BY <1>4, <2>1
<1> QED BY <1>1, <1>2, <1>3, <1>4

\* The read/write thread serves a request: as WriteBack says, and no ioctl is under way.
LEMMA RwServing ==
  ASSUME JInv, Unmappable = {}, RwStep, protected
  PROVE  JInv'
<1>0. StopTypeOK /\ QuietInv
  BY DEF JInv
<1>1. /\ RwThread
      /\ host' = (IF cur # None /\ cur' = None THEN Apply(req[cur], host) ELSE host)
      /\ UNCHANGED <<protected, alive, ctlpc, arriving, passing, crashed, stale, forgotten>>
  BY DEF RwStep
<1>2. alive /\ ctlpc = "idle" /\ passing = {}
  BY <1>0 DEF QuietInv
<1>3. IInv /\ ServiceInv
  BY <1>2, AsWithoutStop
<1>4. IInv' /\ ServiceInv' /\ UNCHANGED <<signal, cancelled>>
  BY <1>1, <1>3, ThreadDispatchesNothing, IInvStep, ServiceStep
<1>5. CacheInv' /\ StopHandshake'
  BY <1>4 DEF CacheInv, StopHandshake, FlushAwaited, IInv, Handshake
<1>6. HostInv'
  BY <1>1, <1>3, HostChanges, HostFinished, HostStored, HostKept DEF FinishingStep, StoringStep
<1>7. AnswerInv' /\ ArrivalsInPlace'
  BY <1>1, <1>3, AnswerStep, ArrivalsKept
<1>8. QuietInv' /\ PoolDown'
  BY <1>0, <1>1, <1>2, <1>4 DEF QuietInv, PoolDown
<1>9. StopTypeOK'
  <2>1. TypeOK /\ host \in [Block -> Content]
    BY <1>0, <1>3 DEF IInv, StopTypeOK
  <2>2. host' \in [Block -> Content]
    <3>1. CASE FinishingStep
      <4>1. req[cur] \in Request
        BY <1>3, <3>1, Finished, ServedRequest DEF IInv
      <4> QED BY <1>1, <1>3, <2>1, <3>1, <4>1, HostChanges, ApplyType
    <3>2. CASE ~FinishingStep
      BY <1>1, <1>3, <2>1, <3>2, HostChanges
    <3> QED BY <3>1, <3>2
  <2> QED BY <1>0, <1>1, <2>2 DEF StopTypeOK
<1> QED BY <1>5, <1>6, <1>7, <1>8, <1>9 DEF JInv

-----------------------------------------------------------------------------
(* The theorems.                                                           *)

LEMMA InitJInv ==
  ASSUME SSInit, Unmappable = {}
  PROVE  JInv
<1>1. IInv /\ ServiceInv
  <2>1. ServiceInv
    BY DEF SSInit, InitWith, ServiceInv, CancelledWait, OpAsServed, ReadSoFar, WrittenSoFar, AddPcs
  <2> QED BY <2>1, InitIInv DEF SSInit
<1>2. CacheInv /\ StopHandshake
  BY <1>1, StillWithoutStop
<1>3. StopTypeOK /\ ArrivalsInPlace /\ QuietInv /\ PoolDown
  <2>1. disk \in [Block -> Content]
    BY DEF SSInit, InitWith
  <2> QED BY <2>1 DEF SSInit, InitWith, StopTypeOK, StartPcs, ArrivalsInPlace, QuietInv, PoolDown
<1>4. HostInv /\ AnswerInv
  <2>1. Contents = disk
    BY <1>1, EmptyPool DEF IInv, SSInit, InitWith
  <2> QED BY <2>1 DEF SSInit, InitWith, HostInv, AnswerInv, AddPcs
<1> QED BY <1>2, <1>3, <1>4 DEF JInv

LEMMA JInvStep ==
  ASSUME Quiet, Unmappable = {}, JInv, [SSNext]_allVars
  PROVE  JInv'
<1>1. CASE \E i \in Irp, r \in Request : Arrive(i, r)
  BY <1>1, ArriveStep
<1>2. CASE Dispatchers
  BY <1>2, SetEventStep, EnqueueStep, PassDownStep DEF Dispatchers
<1>3. CASE StartPool \/ StartPoolFails
  BY <1>3, StartStep
<1>4. CASE Stop \/ Control
  BY <1>4, StartStep, StopStep, DestroyStep DEF Control
<1>5. CASE RwStep
  BY <1>5, RwServing, RwIdle
<1>6. CASE WbStep
  BY <1>6, WbStepKeeps
<1>7. CASE Crash
  <2>1. /\ crashed' = TRUE
        /\ UNCHANGED <<vars, protected, alive, ctlpc, arriving, passing, auxVars>>
    BY <1>7, Zenon DEF Crash
  <2>2. /\ TypeOK /\ StopTypeOK /\ StopHandshake /\ QuietInv /\ PoolDown
    BY DEF JInv, CacheInv
  <2>3. TypeOK' /\ StopHandshake' /\ QuietInv' /\ PoolDown'
    BY <2>1, <2>2 DEF vars, auxVars, diskVars, eventVars, ioctlVars, irpVars, rwVars, wbVars, TypeOK,
       StopHandshake, FlushAwaited, QuietInv, PoolDown
  <2>4. StopTypeOK'
    BY <2>1, <2>2 DEF auxVars, StopTypeOK
  <2> QED BY <2>1, <2>3, <2>4, ControlStep DEF vars, auxVars, ioctlVars
<1>8. CASE \E i \in Irp : SSCancel(i)
  BY <1>8, CancelStep
<1>9. CASE UNCHANGED allVars
  <2>1. /\ TypeOK /\ StopTypeOK /\ StopHandshake /\ QuietInv /\ PoolDown
    BY DEF JInv, CacheInv
  <2>2. TypeOK' /\ StopTypeOK' /\ StopHandshake' /\ QuietInv' /\ PoolDown'
    BY <1>9, <2>1 DEF allVars, vars, ssVars, auxVars, diskVars, eventVars, ioctlVars, irpVars, rwVars, wbVars, TypeOK,
       StopTypeOK, StopHandshake, FlushAwaited, QuietInv, PoolDown
  <2> QED BY <1>9, <2>2, ControlStep DEF allVars, vars, ssVars, auxVars, ioctlVars, irpVars
<1> QED BY <1>1, <1>2, <1>3, <1>4, <1>5, <1>6, <1>7, <1>8, <1>9 DEF SSNext

(* JInv holds in every state that is reached when the ioctls are issued     *)
(* while no request is in flight.                                           *)
THEOREM StopInvariance ==
  ASSUME Quiet, Unmappable = {}
  PROVE  SSSpec => []JInv
<1>1. SSInit => JInv
  BY InitJInv
<1>2. JInv /\ [SSNext]_allVars => JInv'
  BY JInvStep
<1> QED BY <1>1, <1>2, PTL DEF SSSpec

\* Every variable of the ioctls, the cache and the threads keeps its type.
THEOREM StopTypeCorrect ==
  ASSUME Quiet, Unmappable = {}
  PROVE  SSSpec => []SSTypeOK
<1>1. JInv => SSTypeOK
  BY DEF JInv, CacheInv, StopTypeOK, StartPcs, SSTypeOK
<1> QED BY <1>1, StopInvariance, PTL

(* "Flush Back All Data": after IOCTL_DF_STOP the device holds every write  *)
(* that was completed, whatever was cached, queued and given up before.     *)
THEOREM StopLosesNothing ==
  ASSUME Quiet, Unmappable = {}
  PROVE  SSSpec => []DeviceHoldsTheVolume
<1>1. JInv => DeviceHoldsTheVolume
  <2> SUFFICES ASSUME JInv, ~protected, ctlpc = "idle" PROVE disk = host
    BY DEF DeviceHoldsTheVolume
  <2>1. data = <<>> /\ rwpc \in {"wait", "pop"}
    BY NothingServed DEF JInv, PoolDown, StartPcs
  <2>2. Contents = disk
    BY <2>1, EmptyPool DEF JInv, CacheInv
  <2> QED BY <2>1, <2>2 DEF JInv, HostInv, AddPcs
<1> QED BY <1>1, StopInvariance, PTL

(* A read answers with what was last written, whether it is served by the   *)
(* cache or passed down, and however often protection was switched.         *)
THEOREM EveryAnswerCurrent ==
  ASSUME Quiet, Unmappable = {}
  PROVE  SSSpec => []AnswersAreCurrent
<1>1. ASSUME JInv PROVE AnswersAreCurrent
  <2>1. ASSUME rwpc = "answered", NEW b \in Block, NEW p \in req[cur].parts[b]
        PROVE  buf[b][p] = host[b][p]
    <3>1. Contents = host
      BY <1>1, <2>1 DEF JInv, HostInv, AddPcs
    <3> QED BY <1>1, <2>1, <3>1 DEF JInv, AnswerInv, Covers
  <2>2. ASSUME passing # {} PROVE disk = host
    <3>1. ~protected /\ ctlpc = "idle"
      BY <1>1, <2>2 DEF JInv, QuietInv
    <3>2. data = <<>> /\ rwpc \in {"wait", "pop"}
      BY <1>1, <3>1, NothingServed DEF JInv, PoolDown, StartPcs
    <3>3. Contents = disk
      BY <1>1, <3>2, EmptyPool DEF JInv, CacheInv
    <3> QED BY <1>1, <3>2, <3>3 DEF JInv, HostInv, AddPcs
  <2> QED BY <2>1, <2>2 DEF AnswersAreCurrent
<1> QED BY <1>1, StopInvariance, PTL

\* The pool is destroyed only when no thread will use it again.
THEOREM PoolOutlivesItsUse ==
  ASSUME Quiet, Unmappable = {}
  PROVE  SSSpec => []NeverUsesFreedMemory
<1>1. JInv => NeverUsesFreedMemory
  BY NoFreedMemory DEF NeverUsesFreedMemory
<1> QED BY <1>1, StopInvariance, PTL

\* Marks and queue entries agree also across flushes and destroyed pools.
THEOREM StopKeepsTheMarks ==
  ASSUME Quiet, Unmappable = {}
  PROVE  SSSpec => []ModifiedIsQueued
<1>1. JInv => ModifiedIsQueued
  BY QueuedCardinality DEF JInv, CacheInv, QueueIsModified, ModifiedIsQueued, TypeOK, Injective
<1> QED BY <1>1, StopInvariance, PTL

\* Nor is a block ever clean that the device does not hold.
THEOREM StopKeepsCleanOnDisk ==
  ASSUME Quiet, Unmappable = {}
  PROVE  SSSpec => []CleanIsOnDisk
<1>1. JInv => CleanIsOnDisk
  BY DEF JInv, CacheInv
<1> QED BY <1>1, StopInvariance, PTL
-----------------------------------------------------------------------------
(* Request packets, also when the ioctls are issued while requests are in  *)
(* flight: whatever else a race may break, no packet is completed twice or *)
(* in two hands, and none is lost but those their issuers cancel.          *)

Listed(i) == \E k \in DOMAIN rwList : rwList[k] = i

PlacesInv ==
  /\ IrpTypes /\ IrpsInPlace /\ ArrivalsInPlace
  /\ arriving \in SUBSET Irp /\ passing \in SUBSET Irp /\ arriving \cap passing = {}
  /\ cancelled \in SUBSET Irp /\ \A i \in cancelled : req[i] # None /\ i # cur
  /\ \A i \in Irp : req[i] # None => i \in arriving \cup passing \cup cancelled \/ i = cur \/ Listed(i)

\* A packet is in one of the places, and there once, or cancelled and in none.
LEMMA PlacesCounted ==
  ASSUME PlacesInv
  PROVE  EachIrpInOnePlace
<1> SUFFICES ASSUME NEW i \in Irp
             PROVE  LET places == Cardinality({k \in DOMAIN rwList : rwList[k] = i})
                                    + (IF cur = i THEN 1 ELSE 0)
                                    + (IF i \in arriving THEN 1 ELSE 0)
                                    + (IF i \in passing THEN 1 ELSE 0)
                    IN  IF req[i] = None THEN places = 0
                        ELSE places = 1 \/ (places = 0 /\ i \in cancelled)
  BY DEF EachIrpInOnePlace
<1> DEFINE K == {k \in DOMAIN rwList : rwList[k] = i}
<1>1. i # None
  BY IrpAssumption
<1>2. CASE Listed(i)
  <2>1. PICK k \in DOMAIN rwList : rwList[k] = i
    BY <1>2 DEF Listed
  <2>2. K = {k}
    BY <2>1 DEF PlacesInv, IrpsInPlace
  <2>3. Cardinality(K) = 1
    BY <2>2, FS_Singleton
  <2>4. req[i] # None /\ i # cur /\ i \notin arriving \cup passing
    BY <2>1 DEF PlacesInv, IrpsInPlace, ArrivalsInPlace
  <2> QED BY <2>3, <2>4
<1>3. CASE ~Listed(i)
  <2>1. K = {}
    BY <1>3 DEF Listed
  <2>2. Cardinality(K) = 0
    BY <2>1, FS_EmptySet
  <2>3. req[i] = None => i # cur /\ i \notin arriving \cup passing
    BY <1>1 DEF PlacesInv, IrpsInPlace, ArrivalsInPlace
  <2>4. i \in arriving \cup passing => i # cur
    BY DEF PlacesInv, ArrivalsInPlace
  <2>5. ~(i \in arriving /\ i \in passing)
    BY DEF PlacesInv
  <2>6. req[i] # None => i \in arriving \cup passing \cup cancelled \/ i = cur
    BY <1>3 DEF PlacesInv
  <2> QED BY <2>2, <2>3, <2>4, <2>5, <2>6
<1> QED BY <1>2, <1>3

\* A step that moves no packet.
LEMMA PlacesSame ==
  ASSUME PlacesInv, UNCHANGED <<rwList, req, cancelled, rwpc, cur, arriving, passing>>
  PROVE  PlacesInv'
BY DEF PlacesInv, IrpTypes, IrpsInPlace, ArrivalsInPlace, Listed

\* The dispatch routine takes a packet and gives it to the list or to the lower device.
LEMMA PlacesDispatched ==
  ASSUME PlacesInv, NEW i \in Irp, (\E r \in Request : Arrive(i, r)) \/ Enqueue(i) \/ PassDown(i)
  PROVE  PlacesInv'
<1> USE DEF rwVars, ioctlVars, auxVars
<1>0. /\ rwList \in Seq(Irp) /\ req \in [Irp -> Request \cup {None}] /\ cur \in Irp \cup {None}
      /\ IrpsInPlace /\ ArrivalsInPlace /\ None \notin Irp /\ None \notin Request
      /\ arriving \in SUBSET Irp /\ passing \in SUBSET Irp /\ arriving \cap passing = {}
      /\ \A x \in Irp : req[x] # None => x \in arriving \cup passing \cup cancelled \/ x = cur \/ Listed(x)
      /\ cancelled \in SUBSET Irp /\ \A x \in cancelled : req[x] # None /\ x # cur
  BY IrpAssumption DEF PlacesInv, IrpTypes
<1>1. ASSUME NEW r \in Request, Arrive(i, r) PROVE PlacesInv'
  <2>1. /\ req[i] = None /\ req' = [req EXCEPT ![i] = r] /\ r # None
        /\ UNCHANGED <<rwList, cancelled, rwpc, cur>>
        /\ \/ arriving' = arriving \cup {i} /\ passing' = passing
           \/ passing' = passing \cup {i} /\ arriving' = arriving
    BY <1>0, <1>1 DEF Arrive
  <2>2. req'[i] = r /\ \A x \in Irp \ {i} : req'[x] = req[x]
    BY <1>0, <2>1
  <2>3. /\ i # cur /\ i \notin arriving \cup passing \cup cancelled
        /\ \A k \in DOMAIN rwList : rwList[k] # i /\ rwList[k] \in Irp
    BY <1>0, <2>1 DEF IrpsInPlace, ArrivalsInPlace
  <2>4. IrpTypes' /\ \A x \in cancelled' : req'[x] # None /\ x # cur'
    BY <1>0, <2>1, <2>2, <2>3 DEF IrpTypes
  <2>5. /\ arriving' \in SUBSET Irp /\ passing' \in SUBSET Irp /\ arriving' \cap passing' = {}
        /\ arriving' \cup passing' = arriving \cup passing \cup {i}
    BY <1>0, <2>1, <2>3
  <2>6. IrpsInPlace'
    BY <1>0, <2>1, <2>2, <2>3 DEF IrpsInPlace
  <2>7. ArrivalsInPlace'
    BY <1>0, <2>1, <2>2, <2>3, <2>5 DEF ArrivalsInPlace
  <2>8. \A x \in Irp : req'[x] # None =>
          x \in arriving' \cup passing' \cup cancelled' \/ x = cur' \/ Listed(x)'
    BY <1>0, <2>1, <2>2, <2>5 DEF Listed
  <2> QED BY <1>0, <2>1, <2>4, <2>5, <2>6, <2>7, <2>8 DEF PlacesInv
<1>2. CASE Enqueue(i)
  <2>1. /\ i \in arriving /\ arriving' = arriving \ {i} /\ passing' = passing
        /\ rwList' = Append(rwList, i) /\ UNCHANGED <<req, cancelled, rwpc, cur>>
    BY <1>2 DEF Enqueue
  <2>2. /\ req[i] # None /\ i # cur /\ i \notin passing \cup cancelled
        /\ \A k \in DOMAIN rwList : rwList[k] # i
    BY <1>0, <2>1 DEF ArrivalsInPlace
  <2>3. /\ DOMAIN rwList' = DOMAIN rwList \cup {Len(rwList) + 1}
        /\ rwList'[Len(rwList) + 1] = i /\ \A k \in DOMAIN rwList : rwList'[k] = rwList[k]
        /\ rwList' \in Seq(Irp)
    BY <1>0, <2>1
  <2>4. IrpsInPlace'
    BY <1>0, <2>1, <2>2, <2>3 DEF IrpsInPlace
  <2>5. ArrivalsInPlace'
    BY <1>0, <2>1, <2>2, <2>3 DEF ArrivalsInPlace
  <2>6. \A x \in Irp : Listed(x) \/ x = i => Listed(x)'
    BY <2>3 DEF Listed
  <2> QED BY <1>0, <2>1, <2>3, <2>4, <2>5, <2>6 DEF PlacesInv, IrpTypes
<1>3. CASE PassDown(i)
  <2>1. /\ i \in passing /\ passing' = passing \ {i} /\ req' = [req EXCEPT ![i] = None]
        /\ UNCHANGED <<rwList, cancelled, rwpc, cur, arriving>>
    BY <1>3 DEF PassDown
  <2>2. /\ i # cur /\ i \notin arriving \cup cancelled
        /\ \A k \in DOMAIN rwList : rwList[k] # i /\ rwList[k] \in Irp
    BY <1>0, <2>1 DEF ArrivalsInPlace
  <2>3. req'[i] = None /\ \A x \in Irp \ {i} : req'[x] = req[x]
    BY <1>0, <2>1
  <2>4. IrpsInPlace' /\ IrpTypes'
    BY <1>0, <2>1, <2>2, <2>3 DEF IrpsInPlace, IrpTypes
  <2>5. ArrivalsInPlace'
    BY <1>0, <2>1, <2>2, <2>3 DEF ArrivalsInPlace
  <2>6. \A x \in Irp : req'[x] # None =>
          x \in arriving' \cup passing' \cup cancelled' \/ x = cur' \/ Listed(x)'
    BY <1>0, <2>1, <2>3 DEF Listed
  <2>7. \A x \in cancelled' : req'[x] # None /\ x # cur'
    BY <1>0, <2>1, <2>2, <2>3
  <2> QED BY <1>0, <2>1, <2>4, <2>5, <2>6, <2>7 DEF PlacesInv
<1> QED BY <1>1, <1>2, <1>3

\* The thread takes a packet from the list and gives it up when it is completed.
LEMMA PlacesServed ==
  ASSUME PlacesInv, RwThread, UNCHANGED <<arriving, passing>>
  PROVE  PlacesInv'
<1>0. /\ rwList \in Seq(Irp) /\ req \in [Irp -> Request \cup {None}] /\ cur \in Irp \cup {None}
      /\ IrpsInPlace /\ ArrivalsInPlace /\ None \notin Irp
      /\ arriving \in SUBSET Irp /\ passing \in SUBSET Irp
      /\ \A x \in Irp : req[x] # None => x \in arriving \cup passing \cup cancelled \/ x = cur \/ Listed(x)
      /\ cancelled \in SUBSET Irp /\ \A x \in cancelled : req[x] # None /\ x # cur
  BY IrpAssumption DEF PlacesInv, IrpTypes
<1>1. IrpsInPlace' /\ cancelled' = cancelled
  BY <1>0, ThreadDispatchesNothing, IrpsStep DEF PlacesInv
<1>2. SUFFICES /\ IrpTypes' /\ ArrivalsInPlace'
               /\ \A x \in cancelled : req'[x] # None /\ x # cur'
               /\ \A x \in Irp : req'[x] # None =>
                    x \in arriving \cup passing \cup cancelled \/ x = cur' \/ Listed(x)'
  BY <1>0, <1>1 DEF PlacesInv
<1>3. CASE FinishingStep
  <2>1. /\ cur \in Irp /\ rwList' = rwList /\ req' = [req EXCEPT ![cur] = None] /\ cur' = None
    BY <1>0, <1>3 DEF IrpsInPlace, FinishingStep, FinishCur, RwPassDown, RwForwardFails,
       RwCompleteRead, RwCompleteWrite, Serving
  <2>2. req'[cur] = None /\ \A x \in Irp \ {cur} : req'[x] = req[x]
    BY <1>0, <2>1
  <2> QED BY <1>0, <1>1, <2>1, <2>2 DEF IrpTypes, ArrivalsInPlace, Listed
<1>4. CASE RwPop \/ RwDropCancelled
  <2>1. rwList # <<>> /\ rwList' = Tail(rwList) /\ req' = req /\ cur = None
    BY <1>0, <1>4 DEF RwPop, RwDropCancelled, irpVars, rwVars, IrpsInPlace
  <2>2. /\ 1 \in DOMAIN rwList /\ rwList' \in Seq(Irp) /\ rwList[1] \in Irp
        /\ \A k \in DOMAIN rwList' : k + 1 \in DOMAIN rwList /\ rwList'[k] = rwList[k + 1]
        /\ \A k \in DOMAIN rwList \ {1} : k - 1 \in DOMAIN rwList' /\ rwList'[k - 1] = rwList[k]
    BY <1>0, <2>1
  <2>3. \/ cur' = rwList[1] /\ rwList[1] \notin cancelled
        \/ cur' = None /\ rwList[1] \in cancelled
    BY <1>0, <1>4, <2>1 DEF RwPop, RwDropCancelled, rwVars
  <2>4. ArrivalsInPlace'
    BY <1>0, <1>1, <2>1, <2>2, <2>3 DEF ArrivalsInPlace
  <2>5. ASSUME NEW x \in Irp, Listed(x), x # rwList[1] PROVE Listed(x)'
    <3>1. PICK k \in DOMAIN rwList : rwList[k] = x
      BY <2>5 DEF Listed
    <3>2. k # 1
      BY <2>2, <2>5, <3>1
    <3> QED BY <2>2, <3>1, <3>2 DEF Listed
  <2>6. \A x \in cancelled : req'[x] # None /\ x # cur'
    BY <1>0, <2>1, <2>3
  <2>7. IrpTypes' /\ \A x \in Irp : req'[x] # None =>
          x \in arriving \cup passing \cup cancelled \/ x = cur' \/ Listed(x)'
    BY <1>0, <2>1, <2>2, <2>3, <2>5 DEF IrpTypes
  <2> QED BY <2>4, <2>6, <2>7
<1>5. CASE ~FinishingStep /\ ~RwPop /\ ~RwDropCancelled
  <2>1. UNCHANGED <<rwList, req, cur>>
    BY <1>5, ThreadDispatchesNothing, RequestsKept
  <2> QED BY <1>0, <1>1, <2>1 DEF IrpTypes, ArrivalsInPlace, Listed
<1> QED BY <1>3, <1>4, <1>5

\* A packet that waits on the list is marked as cancelled.
LEMMA PlacesCancelled ==
  ASSUME PlacesInv, NEW i \in Irp, SSCancel(i)
  PROVE  PlacesInv'
<1>1. /\ cancelled' = cancelled \cup {i} /\ \E k \in DOMAIN rwList : rwList[k] = i
      /\ UNCHANGED <<rwList, req, rwpc, cur, arriving, passing>>
  BY DEF SSCancel, Cancel, rwVars, ssVars
<1>2. req[i] # None /\ i # cur /\ i \notin arriving \cup passing
  BY <1>1 DEF PlacesInv, IrpsInPlace, ArrivalsInPlace
<1> QED BY <1>1, <1>2 DEF PlacesInv, IrpTypes, IrpsInPlace, ArrivalsInPlace, Listed

LEMMA InitPlaces == SSInit => PlacesInv
<1>1. ASSUME SSInit PROVE IrpTypes /\ IrpsInPlace
  BY <1>1, InitIInv DEF SSInit, IInv, TypeOK, IrpTypes
<1> QED BY <1>1 DEF SSInit, InitWith, PlacesInv, ArrivalsInPlace

LEMMA PlacesStep ==
  ASSUME PlacesInv, [SSNext]_allVars
  PROVE  PlacesInv'
<1> USE DEF irpVars, rwVars, ioctlVars, auxVars
<1>1. CASE \E i \in Irp, r \in Request : Arrive(i, r)
  BY <1>1, PlacesDispatched
<1>2. CASE \E i \in Irp : Enqueue(i) \/ PassDown(i)
  BY <1>2, PlacesDispatched
<1>3. CASE \E i \in Irp : SetEvent(i) \/ SSCancel(i)
  BY <1>3, PlacesSame, PlacesCancelled DEF SetEvent, Signal, ssVars
<1>4. CASE StartPool \/ StartPoolFails \/ Stop
  BY <1>4, PlacesSame DEF StartPool, StartPoolFails, Stop, vars
<1>5. CASE Control
  BY <1>5, PlacesSame DEF Control, StartQueue, StartQueueFails, StartProtect, UndoQueue, UndoPool,
     ZeroQueue, StopDrain, StopDrainWait, StopDrained, StopClear, StopFlush,
     StopFlushWait, StopFlushed, StopDestroy, vars
<1>6. CASE RwStep
  BY <1>6, PlacesServed DEF RwStep
<1>7. CASE WbStep
  BY <1>7, PlacesSame DEF WbStep, ssVars, WbThread, WbWake, WbCheck, WbLock, WbGather, WbRestart,
     WbWriteLast, WbUnlock, WbSignal
<1>8. CASE Crash \/ UNCHANGED allVars
  BY <1>8, PlacesSame DEF Crash, allVars, vars, ssVars
<1> QED BY <1>1, <1>2, <1>3, <1>4, <1>5, <1>6, <1>7, <1>8 DEF SSNext, Dispatchers

(* A request packet is on its way through the dispatch routine, or once on  *)
(* the list, or in the hands of the read/write thread, and in none of these *)
(* places once it is completed; a pending one that is in none is one its    *)
(* issuer has cancelled.                                                    *)
THEOREM OnePlaceForEachIrp == SSSpec => []EachIrpInOnePlace
<1>1. PlacesInv => EachIrpInOnePlace
  BY PlacesCounted
<1> QED BY <1>1, InitPlaces, PlacesStep, PTL DEF SSSpec
-----------------------------------------------------------------------------
(* The pool while it is alive, also when the ioctls race with requests.     *)

Undoing == ctlpc \in {"undoQueue", "undoPool"}

\* The entries of the pool there is, none of them twice.
Entries == (stale + 1)..Len(queue)
LiveInjective == \A j, k \in Entries : queue[j] = queue[k] => j = k

(* The marks agree with the queue, but for those whose entry InitQueue has  *)
(* thrown away.  The block that is being added may have gone with the pool  *)
(* it was put into; the thread crashes when it gets there.                  *)
Added == add = "new" /\ NextBlock \in cached
LiveQueue ==
  /\ LiveInjective
  /\ modified = Live \cup forgotten \cup (IF Added THEN {NextBlock} ELSE {})
  /\ Live \cap forgotten = {}
  /\ Added => NextBlock \notin Live \cup forgotten
  /\ modified \subseteq cached

(* There is room for the block that is added, if it is in a pool still and  *)
(* no START is being undone; the write-back thread only makes more.         *)
AddHasRoom ==
  /\ add # "none" <=> rwpc \in AddPcs
  /\ rwpc \in AddPcs => todo # {}
  /\ rwpc \in {"clear", "lock", "insert"} /\ NextBlock \in cached /\ ~Undoing => Len(queue) < size

QueueTypes ==
  /\ todo \in SUBSET Block /\ queue \in Seq(Block)
  /\ size \in {0, QueueSize} /\ Len(queue) <= size
  /\ stale \in Nat /\ stale <= Len(queue)

RaceInv ==
  /\ PlacesInv /\ QueueTypes /\ AddHasRoom
  /\ stale # 0 => ctlpc = "queue"
  /\ ~alive => data = <<>> /\ modified = {}
  /\ alive /\ ~Undoing => LiveQueue

\* What is live is what is queued but for the stale entries at the head.
LEMMA LiveIsQueued ==
  ASSUME queue \in Seq(Block), stale = 0
  PROVE  Live = Queued /\ (LiveInjective <=> Injective)
<1>1. Entries = DOMAIN queue
  BY DEF Entries
<1>2. Live = Queued
  BY <1>1 DEF Live, Queued, Entries
<1> QED BY <1>1, <1>2 DEF LiveInjective, Injective

\* A live entry follows those there are.
LEMMA LiveAppended ==
  ASSUME QueueTypes, LiveInjective, NEW b \in Block, b \notin Live,
         queue' = Append(queue, b), stale' = stale
  PROVE  LiveInjective' /\ Live' = Live \cup {b}
<1>0. queue \in Seq(Block) /\ stale \in Nat /\ stale <= Len(queue)
  BY DEF QueueTypes
<1>1. /\ Len(queue') = Len(queue) + 1 /\ Len(queue) \in Nat
      /\ queue'[Len(queue) + 1] = b
      /\ \A k \in 1..Len(queue) : queue'[k] = queue[k]
  BY <1>0
<1>2. /\ Entries' = Entries \cup {Len(queue) + 1} /\ Len(queue) + 1 \notin Entries
      /\ Entries \subseteq 1..Len(queue)
  <2> DEFINE n == Len(queue)
  <2>1. n \in Nat /\ Entries = (stale + 1)..n /\ Entries' = (stale + 1)..(n + 1)
    BY <1>1 DEF Entries
  <2> HIDE DEF n
  <2>2. /\ (stale + 1)..(n + 1) = ((stale + 1)..n) \cup {n + 1}
        /\ n + 1 \notin (stale + 1)..n /\ (stale + 1)..n \subseteq 1..n
    <3>1. stale \in Nat /\ stale <= n
      BY <1>0 DEF n
    <3> QED BY <2>1, <3>1
  <2> QED BY <2>1, <2>2 DEF n
<1>3. queue'[Len(queue) + 1] = b /\ \A k \in Entries : queue'[k] = queue[k]
  BY <1>1, <1>2
<1>4. Live = {queue[k] : k \in Entries} /\ Live' = {queue'[k] : k \in Entries'}
  BY DEF Live, Entries
<1>5. LiveInjective'
  BY <1>2, <1>3, <1>4 DEF LiveInjective
<1>6. Live' = Live \cup {b}
  BY <1>2, <1>3, <1>4
<1> QED BY <1>5, <1>6

\* There are as many live blocks as live entries.
LEMMA LiveCardinality ==
  ASSUME QueueTypes, LiveInjective
  PROVE  Cardinality(Live) = Len(queue) - stale
<1> DEFINE f == [k \in Entries |-> queue[k]]
<1>1. Live = {queue[k] : k \in Entries}
  BY DEF Live, Entries
<1>2. f \in Bijection(Entries, Live)
  BY <1>1 DEF Bijection, Injection, Surjection, IsInjective, LiveInjective
<1>3. ExistsBijection(Entries, Live)
  BY <1>2 DEF ExistsBijection
<1>4. IsFiniteSet(Entries) /\ Cardinality(Entries) = Len(queue) - stale
  <2>1. ASSUME NEW m \in Nat, NEW n \in Nat, m <= n
        PROVE  IsFiniteSet((m + 1)..n) /\ Cardinality((m + 1)..n) = n - m
    <3>1. m + 1 \in Int /\ n \in Int
      BY <2>1
    <3>2. /\ IsFiniteSet((m + 1)..n)
          /\ Cardinality((m + 1)..n) = IF m + 1 > n THEN 0 ELSE n - (m + 1) + 1
      BY <3>1, FS_Interval
    <3> QED BY <2>1, <3>2
  <2>2. stale \in Nat /\ stale <= Len(queue) /\ Len(queue) \in Nat
    BY DEF QueueTypes
  <2> QED BY <2>1, <2>2 DEF Entries
<1> QED BY <1>3, <1>4, FS_Bijection

\* A step that touches neither the pool nor the queue nor what is added, nor begins an undoing.
LEMMA RaceSame ==
  ASSUME RaceInv, PlacesInv',
         UNCHANGED <<data, modified, queue, size, rwpc, todo, add, alive, stale, forgotten>>,
         ctlpc' = ctlpc \/ (ctlpc # "queue" /\ (Undoing => Undoing'))
  PROVE  RaceInv'
<1>1. /\ NextBlock' = NextBlock /\ cached' = cached /\ Live' = Live /\ Added' = Added
      /\ LiveInjective' = LiveInjective
  BY NextBlockSame DEF cached, Live, Added, LiveInjective, Entries
<1>2. Undoing => Undoing'
  BY DEF Undoing
<1>3. LiveQueue => LiveQueue'
  BY <1>1 DEF LiveQueue
<1>4. AddHasRoom'
  BY <1>1, <1>2 DEF RaceInv, AddHasRoom
<1>5. QueueTypes' /\ (stale' # 0 => ctlpc' = "queue")
  BY DEF RaceInv, QueueTypes
<1> QED BY <1>2, <1>3, <1>4, <1>5 DEF RaceInv

\* A pool that is set up or destroyed is empty; what is queued at that time is stale.
LEMMA RacePool ==
  ASSUME RaceInv, PlacesInv', StartPool \/ UndoPool \/ StopDestroy
  PROVE  RaceInv'
<1>0. QueueTypes /\ AddHasRoom /\ (stale # 0 => ctlpc = "queue")
  BY DEF RaceInv
<1>1. /\ data' = <<>> /\ modified' = {} /\ UNCHANGED <<queue, size, rwpc, todo, add>>
      /\ \/ alive' = TRUE /\ stale' = Len(queue) /\ forgotten' = {} /\ ctlpc' = "queue"
         \/ alive' = FALSE /\ stale' = stale /\ ctlpc # "queue"
  <2>1. CASE StartPool
    BY <2>1 DEF StartPool, CtlStep, ioctlVars, rwVars
  <2>2. CASE UndoPool
    BY <2>2 DEF UndoPool, CtlStep, ioctlVars, rwVars, auxVars
  <2>3. CASE StopDestroy
    BY <2>3 DEF StopDestroy, CtlStep, rwVars, auxVars
  <2> QED BY <2>1, <2>2, <2>3
<1>2. cached' = {}
  BY <1>1 DEF cached
<1>3. QueueTypes' /\ (stale' # 0 => ctlpc' = "queue")
  BY <1>0, <1>1 DEF QueueTypes
<1>4. AddHasRoom'
  BY <1>0, <1>1, <1>2 DEF AddHasRoom
<1>5. ASSUME alive' PROVE LiveQueue'
  <2>1. stale' = Len(queue') /\ forgotten' = {} /\ Len(queue') \in Nat
    BY <1>0, <1>1, <1>5 DEF QueueTypes
  <2>2. Entries' = {}
    BY <2>1 DEF Entries
  <2>3. Live' = {} /\ LiveInjective' /\ ~Added'
    BY <1>2, <2>2 DEF Live, Entries, LiveInjective, Added
  <2> QED BY <1>1, <1>2, <2>1, <2>3 DEF LiveQueue
<1> QED BY <1>1, <1>3, <1>4, <1>5 DEF RaceInv

\* The queue is made empty, and what was queued of the pool there is keeps its mark.
LEMMA RaceQueue ==
  ASSUME RaceInv, PlacesInv', StartQueue \/ StartQueueFails \/ UndoQueue
  PROVE  RaceInv'
<1>0. QueueTypes /\ AddHasRoom
  BY DEF RaceInv
<1>1. /\ queue' = <<>> /\ stale' = 0 /\ UNCHANGED <<data, modified, alive, rwpc, todo, add>>
      /\ \/ size' = QueueSize /\ forgotten' = forgotten \cup Live /\ ~Undoing
         \/ size' = 0 /\ Undoing'
  <2>1. CASE StartQueue
    BY <2>1 DEF StartQueue, CtlStep, rwVars, Undoing
  <2>2. CASE StartQueueFails \/ UndoQueue
    BY <2>2 DEF StartQueueFails, UndoQueue, ZeroQueue, CtlStep, rwVars, Undoing
  <2> QED BY <2>1, <2>2
<1>2. Len(queue') = 0 /\ queue' \in Seq(Block) /\ Entries' = {}
  BY <1>1 DEF Entries
<1>3. QueueTypes' /\ stale' = 0
  BY <1>0, <1>1, <1>2, SizeAssumption DEF QueueTypes
<1>4. NextBlock' = NextBlock /\ cached' = cached /\ Added' = Added
  BY <1>1, NextBlockSame DEF cached, Added
<1>5. AddHasRoom'
  BY <1>0, <1>1, <1>2, <1>4, SizeAssumption DEF AddHasRoom
<1>6. ASSUME alive', ~Undoing' PROVE LiveQueue'
  <2>1. LiveQueue /\ forgotten' = forgotten \cup Live
    BY <1>1, <1>6 DEF RaceInv
  <2>2. Live' = {} /\ LiveInjective'
    BY <1>2 DEF Live, Entries, LiveInjective
  <2> QED BY <1>1, <1>4, <2>1, <2>2 DEF LiveQueue
<1>7. ~alive' => data' = <<>> /\ modified' = {}
  BY <1>1 DEF RaceInv
<1> QED BY <1>3, <1>5, <1>6, <1>7 DEF RaceInv

\* The write-back thread takes a block from the queue and its mark away.
LEMMA RaceWb ==
  ASSUME RaceInv, PlacesInv', WbStep
  PROVE  RaceInv'
<1> USE DEF diskVars, irpVars, rwVars, wbVars, ioctlVars, auxVars
<1>1. WbThread /\ ~UsesFreedMemory /\ UNCHANGED <<alive, ctlpc, stale, forgotten>>
  BY DEF WbStep, ssVars
<1>2. CASE WbWake \/ WbCheck \/ WbLock \/ WbUnlock \/ WbSignal \/ WbWriteLast
  BY <1>1, <1>2, RaceSame DEF WbWake, WbCheck, WbLock, WbUnlock, WbSignal, WbWriteLast
<1>3. CASE WbGather \/ WbRestart
  <2>0. QueueTypes /\ AddHasRoom
    BY DEF RaceInv
  <2>1. /\ wbpc = "flush" /\ queue # <<>> /\ queue' = Tail(queue) /\ modified' = modified \ {Head(queue)}
        /\ UNCHANGED <<data, size, rwpc, todo, add>>
    BY <1>3 DEF WbGather, WbRestart
  <2>2. Head(queue) \in cached /\ stale = 0
    <3>1. Head(queue) \in cached /\ ~(stale > 0)
      BY <1>1, <2>1 DEF UsesFreedMemory
    <3> QED BY <2>0, <3>1 DEF QueueTypes
  <2>3. alive
    BY <2>2 DEF RaceInv, cached
  <2>4. NextBlock' = NextBlock /\ cached' = cached /\ Added' = Added /\ Undoing' = Undoing
    BY <1>1, <2>1, NextBlockSame DEF cached, Added, Undoing
  <2>5. /\ queue \in Seq(Block) /\ queue' \in Seq(Block)
        /\ Len(queue') < Len(queue) /\ Len(queue') \in Nat /\ Len(queue) \in Nat
    BY <2>0, <2>1 DEF QueueTypes
  <2>6. Len(queue) <= size => Len(queue') <= size /\ Len(queue') < size
    <3>1. size \in Nat
      BY <2>0, SizeAssumption DEF QueueTypes
    <3> QED BY <2>5, <3>1
  <2>7. QueueTypes' /\ stale' = 0
    BY <1>1, <2>0, <2>1, <2>2, <2>5, <2>6 DEF QueueTypes
  <2>8. AddHasRoom'
    BY <2>0, <2>1, <2>4, <2>6 DEF AddHasRoom, QueueTypes
  <2>9. ASSUME ~Undoing' PROVE LiveQueue'
    <3>1. LiveQueue
      BY <2>3, <2>4, <2>9 DEF RaceInv
    <3>2. Live = Queued /\ Injective
      BY <2>2, <2>5, <3>1, LiveIsQueued DEF LiveQueue
    <3>3. Injective' /\ Head(queue) \in Queued /\ Queued' = Queued \ {Head(queue)}
      BY <2>1, <2>5, <3>2, QueueShortened
    <3>4. Live' = Queued' /\ LiveInjective'
      <4>1. DOMAIN queue' = 1..Len(queue')
        BY <2>5
      <4>2. Entries' = DOMAIN queue'
        BY <2>7, <4>1 DEF Entries
      <4> QED BY <3>3, <4>2 DEF Live, Entries, Queued, LiveInjective, Injective
    <3> QED BY <1>1, <2>1, <2>4, <3>1, <3>2, <3>3, <3>4 DEF LiveQueue
  <2> QED BY <1>1, <2>3, <2>7, <2>8, <2>9 DEF RaceInv
<1> QED BY <1>1, <1>2, <1>3 DEF WbThread

\* The thread has a block to add from one end of the queueing macros to the other.
LEMMA RaceRoom ==
  ASSUME RaceInv, RwThread, ctlpc' = ctlpc, stale' = stale
  PROVE  AddHasRoom' /\ QueueTypes'
<1> USE DEF diskVars, irpVars, rwVars, ioctlVars
<1>0. /\ todo \in SUBSET Block /\ queue \in Seq(Block) /\ Len(queue) <= size /\ AddHasRoom
      /\ size \in {0, QueueSize} /\ stale \in Nat /\ stale <= Len(queue)
      /\ req \in [Irp -> Request \cup {None}] /\ cur \in Irp \cup {None}
      /\ (cur = None <=> rwpc \in {"wait", "pop"}) /\ (cur # None => req[cur] # None)
      /\ Len(queue) \in Nat /\ size \in Nat
  BY SizeAssumption DEF RaceInv, QueueTypes, PlacesInv, IrpTypes, IrpsInPlace
<1>1. rwpc \notin {"wait", "pop"} => Blocks(req[cur]) \in SUBSET Block
  BY <1>0, RequestParts
<1>2. CASE rwpc \notin AddPcs /\ rwpc' \notin AddPcs /\ add' = add /\ UNCHANGED <<queue, size>>
  <2>1. todo' \in {todo, todo \ {NextBlock}} \/ (rwpc \notin {"wait", "pop"} /\ todo' = Blocks(req[cur]))
    BY <1>2 DEF RwThread, RwWake, RwPop, RwDropCancelled, RwListEmpty, RwPassDown, RwRead, RwReadHit,
       RwForward, RwForwardFails, RwReadCached, RwReadPlace, RwReadSkip, RwReadUpdated, RwCompleteRead,
       RwWrite, RwWriteBegin, RwWriteThrough, RwWriteCached, RwWriteNew, RwWriteReplace, RwQueueFull,
       RwFlushed, RwQueueHasRoom, RwClear, RwLock, RwInsertHit, RwInsertOld, RwInsertNew,
       RwCompleteWrite, Serving, AddPcs
  <2> QED BY <1>0, <1>1, <1>2, <2>1 DEF AddHasRoom, AddPcs, QueueTypes
<1>3. CASE RwWriteCached \/ RwWriteNew \/ RwWriteReplace
  BY <1>0, <1>3 DEF RwWriteCached, RwWriteNew, RwWriteReplace, AddHasRoom, AddPcs, QueueTypes
<1>4. CASE RwQueueFull \/ RwFlushed \/ RwQueueHasRoom \/ RwClear \/ RwLock
  <2>1. /\ UNCHANGED <<data, queue, size, todo, add>> /\ rwpc \in AddPcs /\ rwpc' \in AddPcs
        /\ rwpc' \in {"clear", "lock", "insert"} =>
             Len(queue) # size \/ rwpc \in {"clear", "lock", "insert"}
    BY <1>4 DEF RwQueueFull, RwFlushed, RwQueueHasRoom, RwClear, RwLock, IsFull, AddPcs
  <2>2. Len(queue) # size => Len(queue) < size
    BY <1>0
  <2>3. NextBlock' = NextBlock /\ cached' = cached /\ Undoing' = Undoing
    BY <2>1, NextBlockSame DEF cached, Undoing
  <2>4. AddHasRoom'
    BY <1>0, <2>1, <2>2, <2>3 DEF AddHasRoom
  <2> QED BY <1>0, <2>1, <2>4 DEF QueueTypes
<1>5. CASE RwInsertHit \/ RwInsertOld \/ RwInsertNew
  <2>1. /\ rwpc = "insert" /\ rwpc' = "write" /\ add' = "none" /\ todo' = todo \ {NextBlock}
        /\ size' = size /\ (queue' = queue \/ QueueInsert(NextBlock))
    BY <1>5 DEF RwInsertHit, RwInsertOld, RwInsertNew, MarkOld
  <2>2. NextBlock \in Block
    BY <1>0, <2>1, NextBlockInTodo DEF AddHasRoom, AddPcs
  <2>3. queue' = queue \/ (queue' = Append(queue, NextBlock) /\ Len(queue) # size)
    BY <2>1 DEF QueueInsert, IsFull
  <2>4. queue' \in Seq(Block) /\ Len(queue') <= size /\ stale <= Len(queue')
    BY <1>0, <2>2, <2>3
  <2> QED BY <1>0, <1>5, <2>1, <2>4 DEF AddHasRoom, AddPcs, QueueTypes, RwInsertHit, RwInsertOld, RwInsertNew
<1>6. CASE RwWake \/ RwPop \/ RwDropCancelled \/ RwListEmpty \/ RwPassDown
  BY <1>2, <1>6 DEF RwWake, RwPop, RwDropCancelled, RwListEmpty, RwPassDown, FinishCur, AddPcs
<1>7. CASE RwRead
  BY <1>2, <1>7 DEF RwRead, RwReadHit, RwForward, RwForwardFails, RwReadCached, RwReadPlace,
     RwReadSkip, RwReadUpdated, RwCompleteRead, FinishCur, Serving, AddPcs
<1>8. CASE RwWriteBegin \/ RwWriteThrough \/ RwCompleteWrite
  BY <1>2, <1>8 DEF RwWriteBegin, RwWriteThrough, RwCompleteWrite, FinishCur, Serving, AddPcs
<1> QED BY <1>3, <1>4, <1>5, <1>6, <1>7, <1>8 DEF RwThread, RwWrite

\* The read/write thread keeps marks and queue of a live pool together.
LEMMA LiveRw ==
  ASSUME QueueTypes, AddHasRoom, LiveQueue, ~Undoing, RwThread, ~UsesFreedMemory,
         UNCHANGED <<stale, forgotten>>
  PROVE  LiveQueue'
<1> USE DEF diskVars, irpVars, rwVars, ioctlVars
<1>1. CASE UNCHANGED <<queue, modified>> /\ modified \subseteq cached' /\ add # "new" /\ add' # "new"
  BY <1>1 DEF LiveQueue, LiveInjective, Entries, Live, Added
<1>2. CASE UNCHANGED <<queue, modified, data, add, todo>>
  BY <1>2, NextBlockSame DEF LiveQueue, LiveInjective, Entries, Live, Added, cached
<1>3. CASE RwWake \/ RwPop \/ RwDropCancelled \/ RwListEmpty \/ RwPassDown
  BY <1>2, <1>3 DEF RwWake, RwPop, RwDropCancelled, RwListEmpty, RwPassDown, FinishCur
<1>4. CASE \/ RwReadHit \/ RwForward \/ RwForwardFails \/ RwReadCached
           \/ RwReadSkip \/ RwReadUpdated \/ RwCompleteRead
  BY <1>1, <1>4 DEF RwReadHit, RwForward, RwForwardFails, RwReadCached, RwReadSkip,
     RwReadUpdated, RwCompleteRead, FinishCur, Serving, AddHasRoom, AddPcs, cached, LiveQueue
<1>5. CASE RwReadPlace \/ RwWriteReplace
  <2>1. /\ add # "new" /\ add' # "new" /\ UNCHANGED <<queue, modified>>
        /\ \E e \in Evictions(cached, modified) : \E c : Place(NextBlock, c, e)
    BY <1>5 DEF RwReadPlace, RwWriteReplace, AddHasRoom, AddPcs
  <2>2. PICK e \in Evictions(cached, modified) : \E c : Place(NextBlock, c, e)
    BY <2>1
  <2>3. cached' = (cached \ e) \cup {NextBlock}
    BY <2>2 DEF Place, cached
  <2>4. modified \subseteq cached'
    BY <2>3, EvictionsClean DEF LiveQueue
  <2> QED BY <1>1, <2>1, <2>4
<1>6. CASE RwWriteBegin \/ RwWriteThrough \/ RwWriteCached \/ RwCompleteWrite
  BY <1>1, <1>6 DEF RwWriteBegin, RwWriteThrough, RwWriteCached, RwCompleteWrite, FinishCur,
     Serving, AddHasRoom, AddPcs, cached, LiveQueue
<1>7. CASE RwWriteNew
  <2>1. /\ rwpc = "write" /\ NextBlock \notin cached /\ add' = "new"
        /\ modified' = modified \cup {NextBlock} /\ UNCHANGED <<queue, todo>>
        /\ Place(NextBlock, req[cur].val[NextBlock], {})
    BY <1>7 DEF RwWriteNew
  <2>2. modified = Live \cup forgotten /\ modified \subseteq cached
    BY <2>1 DEF AddHasRoom, AddPcs, LiveQueue, Added
  <2>3. cached' = cached \cup {NextBlock}
    BY <2>1 DEF Place, cached
  <2>4. Live' = Live /\ LiveInjective' = LiveInjective /\ NextBlock' = NextBlock
    BY <2>1, NextBlockSame DEF Live, LiveInjective, Entries
  <2>5. Added'
    BY <2>1, <2>3, <2>4 DEF Added
  <2> QED BY <2>1, <2>2, <2>3, <2>4, <2>5 DEF LiveQueue
<1>8. CASE RwQueueFull \/ RwFlushed \/ RwQueueHasRoom \/ RwClear \/ RwLock
  BY <1>2, <1>8 DEF RwQueueFull, RwFlushed, RwQueueHasRoom, RwClear, RwLock
<1>9. CASE RwInsertHit \/ RwInsertOld \/ RwInsertNew
  <2>1. /\ rwpc = "insert" /\ NextBlock \in cached /\ NextBlock \in Block /\ add' = "none"
    BY <1>9, NextBlockInTodo DEF RwInsertHit, RwInsertOld, RwInsertNew, AddHasRoom, AddPcs,
       UsesFreedMemory, QueueTypes
  <2>2. ~IsFull
    BY <2>1, SizeAssumption DEF AddHasRoom, QueueTypes, IsFull
  <2>3. cached' = cached
    BY <1>9 DEF RwInsertHit, RwInsertOld, RwInsertNew, cached
  <2>4. CASE UNCHANGED <<modified, queue>> /\ add # "new"
    BY <1>1, <2>1, <2>3, <2>4 DEF LiveQueue
  <2>5. CASE /\ NextBlock \notin Live \cup forgotten
             /\ modified' = modified \cup {NextBlock} /\ QueueInsert(NextBlock)
    <3>1. LiveInjective' /\ Live' = Live \cup {NextBlock}
      BY <2>1, <2>2, <2>5, LiveAppended DEF QueueInsert, LiveQueue
    <3>2. modified' = Live' \cup forgotten' /\ modified' \subseteq cached'
      BY <2>1, <2>3, <2>5, <3>1 DEF LiveQueue
    <3>3. ~Added'
      BY <2>1 DEF Added
    <3> QED BY <2>5, <3>1, <3>2, <3>3 DEF LiveQueue
  <2>6. (NextBlock \in modified /\ add # "new") \/ NextBlock \notin Live \cup forgotten
    BY <2>1 DEF LiveQueue, Added
  <2> QED BY <1>9, <2>4, <2>5, <2>6 DEF RwInsertHit, RwInsertOld, RwInsertNew, MarkOld, LiveQueue
<1> QED BY <1>3, <1>4, <1>5, <1>6, <1>7, <1>8, <1>9 DEF RwThread, RwRead, RwWrite

\* Nothing is put into a dead pool.
LEMMA RaceRw ==
  ASSUME RaceInv, PlacesInv', RwStep
  PROVE  RaceInv'
<1> USE DEF diskVars, irpVars, rwVars
<1>1. RwThread /\ ~UsesFreedMemory /\ UNCHANGED <<alive, ctlpc, stale, forgotten>>
  BY DEF RwStep
<1>2. rwpc = "insert" => NextBlock \in cached
  BY <1>1 DEF UsesFreedMemory
<1>3. ASSUME alive, ~Undoing PROVE LiveQueue'
  BY <1>1, <1>3, LiveRw DEF RaceInv
<1>4. ASSUME ~alive PROVE data' = <<>> /\ modified' = {}
  <2>1. data = <<>> /\ modified = {} /\ cached = {}
    BY <1>4 DEF RaceInv, cached
  <2>2. /\ ~RwReadPlace /\ ~RwWriteNew /\ ~RwWriteReplace /\ rwpc # "insert"
    BY <1>1, <1>2, <1>4, <2>1 DEF UsesFreedMemory, RwReadPlace, RwWriteNew, RwWriteReplace
  <2> QED BY <1>1, <2>1, <2>2 DEF RwThread, RwWake, RwPop, RwDropCancelled, RwListEmpty, RwPassDown,
     RwRead, RwReadHit, RwForward, RwForwardFails, RwReadCached, RwReadSkip, RwReadUpdated,
     RwCompleteRead, RwWrite, RwWriteBegin, RwWriteThrough, RwWriteCached, RwQueueFull, RwFlushed,
     RwQueueHasRoom, RwClear, RwLock, RwInsertHit, RwInsertOld, RwInsertNew, RwCompleteWrite
<1>5. AddHasRoom' /\ QueueTypes'
  BY <1>1, RaceRoom
<1>6. Undoing' = Undoing /\ (stale' # 0 => ctlpc' = "queue")
  BY <1>1 DEF Undoing, RaceInv
<1> QED BY <1>1, <1>3, <1>4, <1>5, <1>6 DEF RaceInv

(* While the pool is alive and the read/write thread is between two blocks, *)
(* the blocks marked Modified are those in the queue, each once, and those  *)
(* whose entry InitQueue has thrown away, and all are cached -- also when   *)
(* IOCTL_DF_START and IOCTL_DF_STOP come in the middle of requests, up to   *)
(* the moment a thread follows a stale pointer or finds no victim.          *)
THEOREM LivePoolStaysConsistent == SSSpec => []LivePoolIsConsistent
<1>1. SSInit => RaceInv
  <2> SUFFICES ASSUME SSInit PROVE RaceInv
    OBVIOUS
  <2>1. /\ InitWith(0) /\ alive = FALSE /\ ctlpc = "idle" /\ stale = 0
    BY DEF SSInit
  <2>2. /\ queue = <<>> /\ size = 0 /\ todo = {} /\ data = <<>> /\ modified = {}
        /\ rwpc = "wait" /\ add = "none"
    BY <2>1 DEF InitWith
  <2>3. queue \in Seq(Block) /\ Len(queue) = 0
    BY <2>2
  <2> QED BY <2>1, <2>2, <2>3, InitPlaces DEF RaceInv, QueueTypes, AddHasRoom, AddPcs
<1>2. RaceInv /\ [SSNext]_allVars => RaceInv'
  <2> SUFFICES ASSUME RaceInv, [SSNext]_allVars PROVE RaceInv'
    OBVIOUS
  <2> USE DEF irpVars, rwVars, diskVars, ioctlVars, auxVars
  <2>0. PlacesInv'
    BY PlacesStep DEF RaceInv
  <2>1. CASE \E i \in Irp, r \in Request : Arrive(i, r)
    BY <2>0, <2>1, RaceSame DEF Arrive
  <2>2. CASE Dispatchers \/ \E i \in Irp : SSCancel(i)
    BY <2>0, <2>2, RaceSame DEF Dispatchers, SetEvent, SSCancel, Signal, Cancel, Enqueue, PassDown, ssVars
  <2>3. CASE StartPool \/ UndoPool \/ StopDestroy
    BY <2>0, <2>3, RacePool
  <2>4. CASE StartQueue \/ StartQueueFails \/ UndoQueue
    BY <2>0, <2>4, RaceQueue
  <2>5. CASE Stop \/ StartPoolFails \/ StartProtect
    BY <2>0, <2>5, RaceSame DEF Stop, StartPoolFails, StartProtect, CtlStep, Undoing, vars
  <2>6. CASE \/ StopDrain \/ StopDrainWait \/ StopDrained \/ StopClear
             \/ StopFlush \/ StopFlushWait \/ StopFlushed
    BY <2>0, <2>6, RaceSame DEF StopDrain, StopDrainWait, StopDrained, StopClear,
       StopFlush, StopFlushWait, StopFlushed, CtlStep, Undoing, vars
  <2>7. CASE RwStep
    BY <2>0, <2>7, RaceRw
  <2>8. CASE WbStep
    BY <2>0, <2>8, RaceWb
  <2>9. CASE Crash \/ UNCHANGED allVars
    BY <2>0, <2>9, RaceSame DEF Crash, allVars, vars, ssVars
  <2> QED BY <2>1, <2>2, <2>3, <2>4, <2>5, <2>6, <2>7, <2>8, <2>9 DEF SSNext, Control
<1>3. RaceInv => LivePoolIsConsistent
  <2> SUFFICES ASSUME RaceInv, alive, ~Undoing, rwpc \notin AddPcs
               PROVE  /\ modified = Live \cup forgotten /\ Live \cap forgotten = {}
                      /\ modified \subseteq cached
                      /\ Cardinality(Live) = Len(queue) - stale
                      /\ ctlpc # "queue" => stale = 0
    BY DEF LivePoolIsConsistent, AddPcs, Undoing
  <2>1. LiveQueue /\ QueueTypes /\ ~Added /\ (stale # 0 => ctlpc = "queue")
    BY DEF RaceInv, AddHasRoom, Added
  <2> QED BY <2>1, LiveCardinality DEF LiveQueue
<1> QED BY <1>1, <1>2, <1>3, PTL DEF SSSpec
=============================================================================
