----------------------------- MODULE StartStop -----------------------------
(***************************************************************************)
(* IOCTL_DF_START and IOCTL_DF_STOP of DiskFilter3 (Dispatch.c) beside the *)
(* dispatch routine and the two threads of WriteBack.  The thread serving  *)
(* the ioctl drains RwList, has the write-back queue flushed and destroys  *)
(* the pool, by the same auto-reset events the other threads use; the      *)
(* dispatch routine decides on bIsProtected whether a request is queued or *)
(* passed to the lower device, and acts on it later.                       *)
(***************************************************************************)
EXTENDS WriteBack

CONSTANT
  Quiet   \* TRUE: the ioctls are only issued, and only run, while no request is in flight

ASSUME QuietAssumption == Quiet \in BOOLEAN

VARIABLES
  protected,  \* bIsProtected
  alive,      \* the pool is initialised
  ctlpc,      \* the thread serving an ioctl
  arriving,   \* IRPs whose dispatch routine has found bIsProtected = TRUE
  passing,    \* IRPs whose dispatch routine has found it FALSE
  crashed,    \* memory of a destroyed pool was used, or the pool had no victim
  host,       \* contents of the volume as the issuer of completed requests knows them
  stale,      \* entries at the head of WbQueue that are blocks of a pool already destroyed
  forgotten   \* marked blocks of the pool whose entry InitQueue has thrown away

\* What only the properties speak of: the program keeps no record of it.
auxVars == <<host, stale, forgotten>>
ssVars == <<protected, alive, ctlpc, arriving, passing, crashed, auxVars>>
allVars == <<vars, ssVars>>

\* The device extension is zeroed, WbQueue with it.
SSInit ==
  /\ InitWith(0)
  /\ protected = FALSE /\ alive = FALSE /\ ctlpc = "idle"
  /\ arriving = {} /\ passing = {} /\ crashed = FALSE
  /\ host = disk /\ stale = 0 /\ forgotten = {}

InFlight == {i \in Irp : req[i] # None} \cup signal

-----------------------------------------------------------------------------
(* The dispatch routine.                                                   *)

\* Slip: every request is queued.
ArriveAlways(i, r) ==
  /\ ~crashed /\ req[i] = None /\ i \notin signal
  /\ Quiet => ctlpc = "idle"
  /\ req' = [req EXCEPT ![i] = r]
  /\ arriving' = arriving \cup {i}
  /\ UNCHANGED <<diskVars, lock, eventVars, ioctlVars, rwList, signal, cancelled, rwVars, wbVars,
                 protected, alive, ctlpc, passing, crashed, auxVars>>

\* Slip: reads are passed down at all times.
ArriveWritesOnly(i, r) ==
  /\ ~crashed /\ req[i] = None /\ i \notin signal
  /\ Quiet => ctlpc = "idle"
  /\ req' = [req EXCEPT ![i] = r]
  /\ IF protected /\ r.op = "write" THEN arriving' = arriving \cup {i} /\ UNCHANGED passing
                                     ELSE passing' = passing \cup {i} /\ UNCHANGED arriving
  /\ UNCHANGED <<diskVars, lock, eventVars, ioctlVars, rwList, signal, cancelled, rwVars, wbVars,
                 protected, alive, ctlpc, crashed, auxVars>>

\* DF_DispatchReadWrite reads bIsProtected ...
Arrive(i, r) ==
  /\ ~crashed /\ req[i] = None /\ i \notin signal
  /\ Quiet => ctlpc = "idle"
  /\ req' = [req EXCEPT ![i] = r]
  /\ IF protected THEN arriving' = arriving \cup {i} /\ UNCHANGED passing
                  ELSE passing' = passing \cup {i} /\ UNCHANGED arriving
  /\ UNCHANGED <<diskVars, lock, eventVars, ioctlVars, rwList, signal, cancelled, rwVars, wbVars,
                 protected, alive, ctlpc, crashed, auxVars>>

\* Slip: the IRP that was queued is passed down as well.
EnqueueAndPass(i) ==
  /\ ~crashed /\ i \in arriving
  /\ arriving' = arriving \ {i} /\ passing' = passing \cup {i}
  /\ rwList' = Append(rwList, i) /\ signal' = signal \cup {i}
  /\ UNCHANGED <<diskVars, lock, eventVars, ioctlVars, req, cancelled, rwVars, wbVars,
                 protected, alive, ctlpc, crashed, auxVars>>

\* ... and queues the IRP, the event to be set next,
Enqueue(i) ==
  /\ ~crashed /\ i \in arriving
  /\ arriving' = arriving \ {i}
  /\ rwList' = Append(rwList, i) /\ signal' = signal \cup {i}
  /\ UNCHANGED <<diskVars, lock, eventVars, ioctlVars, req, cancelled, rwVars, wbVars,
                 protected, alive, ctlpc, passing, crashed, auxVars>>

SetEvent(i) == ~crashed /\ Signal(i) /\ UNCHANGED ssVars

SSCancel(i) == ~crashed /\ Cancel(i) /\ UNCHANGED ssVars

\* ... or passes it to the lower device, which carries it out.
PassDown(i) ==
  /\ ~crashed /\ i \in passing
  /\ passing' = passing \ {i}
  /\ disk' = Apply(req[i], disk) /\ host' = Apply(req[i], host)
  /\ req' = [req EXCEPT ![i] = None]
  /\ UNCHANGED <<data, modified, queue, lock, eventVars, ioctlVars, rwList, signal, cancelled,
                 rwVars, wbVars, protected, alive, ctlpc, arriving, crashed, stale, forgotten>>

-----------------------------------------------------------------------------
(* IOCTL_DF_START: InitCachePool, InitQueue, then bIsProtected = TRUE.  A  *)
(* thread may still be serving requests of the time before, so what is     *)
(* between the three steps shows.                                          *)

CtlStep(from, to) == ~crashed /\ ctlpc = from /\ ctlpc' = to

\* A new pool; the entries still queued are blocks of the previous one.
StartPool ==
  /\ CtlStep("idle", "queue") /\ ~protected /\ (Quiet => InFlight = {})
  /\ data' = <<>> /\ modified' = {} /\ alive' = TRUE
  /\ stale' = Len(queue) /\ forgotten' = {}
  /\ UNCHANGED <<disk, queue, lock, eventVars, ioctlVars, irpVars, rwVars, wbVars,
                 protected, arriving, passing, crashed, host>>

\* The entries that WbQueue has of blocks of the pool there is.
Live == {queue[k] : k \in (stale + 1)..Len(queue)}

\* Slip: the queue of the previous pool is taken over.
StartOldQueue ==
  /\ CtlStep("queue", "protect")
  /\ size' = QueueSize
  /\ UNCHANGED <<diskVars, lock, eventVars, flushAll, irpVars, rwVars, wbVars,
                 protected, alive, arriving, passing, crashed, auxVars>>

\* InitQueue makes an empty queue of what there was.
StartQueue ==
  /\ CtlStep("queue", "protect")
  /\ queue' = <<>> /\ size' = QueueSize
  /\ stale' = 0 /\ forgotten' = forgotten \cup Live
  /\ UNCHANGED <<disk, data, modified, lock, eventVars, flushAll, irpVars, rwVars, wbVars,
                 protected, alive, arriving, passing, crashed, host>>

StartProtect ==
  /\ CtlStep("protect", "idle")
  /\ protected' = TRUE
  /\ UNCHANGED <<vars, alive, arriving, passing, crashed, auxVars>>

\* Memory for the pool is short.
StartPoolFails ==
  /\ CtlStep("idle", "undoQueue") /\ ~protected /\ (Quiet => InFlight = {})
  /\ UNCHANGED <<vars, protected, alive, arriving, passing, crashed, auxVars>>

\* InitQueue zeroes the queue before it finds that memory is short, DestroyQueue in any case.
ZeroQueue ==
  /\ queue' = <<>> /\ size' = 0 /\ stale' = 0
  /\ UNCHANGED <<disk, data, modified, lock, eventVars, flushAll, irpVars, rwVars, wbVars,
                 protected, alive, arriving, passing, crashed, host, forgotten>>

StartQueueFails == CtlStep("queue", "undoQueue") /\ ZeroQueue

UndoQueue == CtlStep("undoQueue", "undoPool") /\ ZeroQueue

UndoPool ==
  /\ CtlStep("undoPool", "idle")
  /\ data' = <<>> /\ modified' = {} /\ alive' = FALSE
  /\ UNCHANGED <<disk, queue, lock, eventVars, ioctlVars, irpVars, rwVars, wbVars,
                 protected, arriving, passing, crashed, auxVars>>

-----------------------------------------------------------------------------
(* IOCTL_DF_STOP.                                                          *)

Stop ==
  /\ CtlStep("idle", "drain")
  /\ Quiet => InFlight = {}
  /\ protected' = FALSE
  /\ UNCHANGED <<vars, alive, arriving, passing, crashed, auxVars>>

\* While RwList is not empty, start the read/write thread and wait for it.
StopDrain ==
  /\ CtlStep("drain", "drainWait") /\ rwList # <<>>
  /\ rwStart' = TRUE
  /\ UNCHANGED <<diskVars, lock, wbStart, wbFinish, rwFinish, ioctlVars, irpVars, rwVars, wbVars,
                 protected, alive, arriving, passing, crashed, auxVars>>

StopDrainWait ==
  /\ CtlStep("drainWait", "drain") /\ rwFinish
  /\ rwFinish' = FALSE
  /\ UNCHANGED <<diskVars, lock, wbStart, wbFinish, rwStart, ioctlVars, irpVars, rwVars, wbVars,
                 protected, alive, arriving, passing, crashed, auxVars>>

\* The list is empty: both events are cleared, WbFlushAll is set.
StopDrained ==
  /\ CtlStep("drain", "clear") /\ rwList = <<>>
  /\ UNCHANGED <<vars, protected, alive, arriving, passing, crashed, auxVars>>

StopClear ==
  /\ CtlStep("clear", "flush")
  /\ rwStart' = FALSE /\ rwFinish' = FALSE /\ flushAll' = TRUE
  /\ UNCHANGED <<diskVars, lock, wbStart, wbFinish, size, irpVars, rwVars, wbVars,
                 protected, alive, arriving, passing, crashed, auxVars>>

\* While WbQueue is not empty, start the write-back thread and wait for it.
StopFlush ==
  /\ CtlStep("flush", "flushWait") /\ queue # <<>>
  /\ wbStart' = TRUE
  /\ UNCHANGED <<diskVars, lock, wbFinish, rwStart, rwFinish, ioctlVars, irpVars, rwVars, wbVars,
                 protected, alive, arriving, passing, crashed, auxVars>>

StopFlushWait ==
  /\ CtlStep("flushWait", "flush") /\ wbFinish
  /\ wbFinish' = FALSE
  /\ UNCHANGED <<diskVars, lock, wbStart, rwStart, rwFinish, ioctlVars, irpVars, rwVars, wbVars,
                 protected, alive, arriving, passing, crashed, auxVars>>

\* Slip: the queue is not waited for.
StopSkipsFlush ==
  /\ CtlStep("flush", "destroy")
  /\ UNCHANGED <<vars, protected, alive, arriving, passing, crashed, auxVars>>

StopFlushed ==
  /\ CtlStep("flush", "destroy") /\ queue = <<>>
  /\ UNCHANGED <<vars, protected, alive, arriving, passing, crashed, auxVars>>

\* WbFlushAll = FALSE and DestroyCachePool; the queue itself is left as it is.
StopDestroy ==
  /\ CtlStep("destroy", "idle")
  /\ flushAll' = FALSE
  /\ data' = <<>> /\ modified' = {} /\ alive' = FALSE
  /\ UNCHANGED <<disk, queue, lock, eventVars, size, irpVars, rwVars, wbVars,
                 protected, arriving, passing, crashed, auxVars>>

Control ==
  \/ StartQueue \/ StartQueueFails \/ StartProtect \/ UndoQueue \/ UndoPool
  \/ StopDrain \/ StopDrainWait \/ StopDrained \/ StopClear
  \/ StopFlush \/ StopFlushWait \/ StopFlushed \/ StopDestroy

-----------------------------------------------------------------------------
(* The threads of WriteBack, as long as they only use memory of the pool   *)
(* there is: a block is entered into a live pool, a pointer to a block is  *)
(* followed while the block exists.                                        *)

UsesFreedMemory ==
  \/ /\ rwpc \in {"readUpdate", "write"} /\ todo # {} /\ ~alive
     /\ NextBlock \notin cached /\ Whole(NextBlock)
  \/ rwpc = "insert" /\ NextBlock \notin cached
  \/ wbpc = "flush" /\ queue # <<>> /\ (Head(queue) \notin cached \/ stale > 0)

\* A block must enter a pool that is full of marked blocks.
NoVictim ==
  /\ rwpc \in {"readUpdate", "write"} /\ todo # {} /\ alive
  /\ NextBlock \notin cached /\ Whole(NextBlock) /\ Evictions(cached, modified) = {}

Crash ==
  /\ ~crashed /\ (UsesFreedMemory \/ NoVictim)
  /\ crashed' = TRUE
  /\ UNCHANGED <<vars, protected, alive, ctlpc, arriving, passing, auxVars>>

\* A write the read/write thread completes is known to its issuer from then on.
RwStep ==
  /\ ~crashed /\ ~UsesFreedMemory /\ RwThread
  /\ host' = IF cur # None /\ cur' = None THEN Apply(req[cur], host) ELSE host
  /\ UNCHANGED <<protected, alive, ctlpc, arriving, passing, crashed, stale, forgotten>>

WbStep == ~crashed /\ ~UsesFreedMemory /\ WbThread /\ UNCHANGED ssVars

Dispatchers == \E i \in Irp : SetEvent(i) \/ Enqueue(i) \/ PassDown(i)

SSNext ==
  \/ \E i \in Irp, r \in Request : Arrive(i, r)
  \/ \E i \in Irp : SSCancel(i)
  \/ Dispatchers
  \/ StartPool \/ StartPoolFails \/ Stop \/ Control
  \/ RwStep \/ WbStep \/ Crash

SSSpec == SSInit /\ [][SSNext]_allVars

\* Every thread that can go on does.
SSFairSpec ==
  /\ SSSpec
  /\ WF_allVars(RwStep) /\ WF_allVars(WbStep)
  /\ WF_allVars(Control) /\ WF_allVars(Dispatchers)

-----------------------------------------------------------------------------
(* Properties.                                                             *)

\* Type invariant of the ioctl's part of the state.
SSTypeOK ==
  /\ TypeOK
  /\ protected \in BOOLEAN /\ alive \in BOOLEAN /\ crashed \in BOOLEAN
  /\ ctlpc \in {"idle", "queue", "protect", "undoQueue", "undoPool",
                "drain", "drainWait", "clear", "flush", "flushWait", "destroy"}
  /\ arriving \in SUBSET Irp /\ passing \in SUBSET Irp
  /\ host \in [Block -> Content]
  /\ stale \in Nat /\ forgotten \in SUBSET Block

(* "Flush Back All Data": with protection off, no stop under way and        *)
(* nothing in flight the lower device holds every write that was completed. *)
DeviceHoldsTheVolume ==
  ~protected /\ ctlpc = "idle" /\ InFlight = {} => disk = host

(* Every read, queued or passed down, answers with what was last written.   *)
AnswersAreCurrent ==
  /\ rwpc = "answered" =>
       \A b \in Block : \A p \in req[cur].parts[b] : buf[b][p] = host[b][p]
  /\ \A i \in passing : \A b \in Block : \A p \in req[i].parts[b] : disk[b][p] = host[b][p]

(* Destroying the pool takes no memory from under a thread.                 *)
NeverUsesFreedMemory == ~UsesFreedMemory

(* A request packet is in one place only: on its way through the dispatch   *)
(* routine, once on RwList, or in the hands of the read/write thread; one   *)
(* that is in such a place has not been completed.  A pending packet that   *)
(* is in none of them has been cancelled: the thread takes it off the list  *)
(* and never completes it.                                                  *)
EachIrpInOnePlace ==
  \A i \in Irp :
    LET places == Cardinality({k \in DOMAIN rwList : rwList[k] = i})
                    + (IF cur = i THEN 1 ELSE 0)
                    + (IF i \in arriving THEN 1 ELSE 0) + (IF i \in passing THEN 1 ELSE 0)
    IN  IF req[i] = None THEN places = 0 ELSE places = 1 \/ (places = 0 /\ i \in cancelled)

(* While the pool is alive and the read/write thread is between two blocks, *)
(* whatever the order in which the ioctls and the two threads do their      *)
(* steps: a marked block is in the queue once, unless InitQueue has thrown  *)
(* its entry away (it was queued after InitCachePool, by a thread still     *)
(* serving an old write); every entry is a marked block of this pool, but   *)
(* for those InitQueue has still to throw away.  A START that fails is      *)
(* excepted: its pool is about to go.                                       *)
LivePoolIsConsistent ==
  /\ alive /\ ~crashed
  /\ rwpc \notin {"full", "finish", "clear", "lock", "insert"}
  /\ ctlpc \notin {"undoQueue", "undoPool"}
  => /\ modified = Live \cup forgotten /\ Live \cap forgotten = {}
     /\ modified \subseteq cached
     /\ Cardinality(Live) = Len(queue) - stale
     /\ ctlpc # "queue" => stale = 0

(* IOCTL_DF_START and IOCTL_DF_STOP return.                                 *)
StopReturns == ctlpc # "idle" ~> ctlpc = "idle"
=============================================================================
