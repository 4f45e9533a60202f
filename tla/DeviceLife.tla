----------------------------- MODULE DeviceLife -----------------------------
(***************************************************************************)
(* The life of a filter device of DiskFilter3: StartDevice and StopDevice  *)
(* (Utils.c), the requests that call them (Dispatch.c) and the ends of the *)
(* two threads' loops (RWThread.c, WBThread.c).  What the threads do with  *)
(* a request and with the cache is in WriteBack; here a request may leave  *)
(* one more block in the write-back queue.                                 *)
(*                                                                         *)
(* A thread waits for an event of the device extension.  StartDevice       *)
(* initialises the events: who waits for one at that time is taken off its *)
(* list and is never woken.                                                *)
(***************************************************************************)
EXTENDS Integers, FiniteSets, Sequences

CONSTANTS
  Irp,         \* request packets
  QueueSize,   \* WB_QUEUE_NUM_BLOCKS
  MaxStarts    \* bound: how often StartDevice runs

Start == 1..MaxStarts

VARIABLES
  \* the device extension
  starts,        \* calls of StartDevice so far
  bIsStart, bIsProtected, deleted,
  rwObject, rwTerminal,   \* RwThreadObject # NULL, bTerminalRwThread
  wbObject, wbTerminal,   \* WbThreadObject # NULL, bTerminalWbThread
  rwStart, rwFinish, wbStart, wbFinish,   \* the events, SynchronizationEvents
  rwList,        \* RwList
  used,          \* WbQueue.Used
  \* threads
  rw, wb,        \* the threads made by each StartDevice
  stoppc,        \* the thread that runs StopDevice
  completed      \* requests completed and not issued again

rwEvents == <<rwStart, rwFinish>>
wbEvents == <<wbStart, wbFinish>>
threadFlags == <<rwObject, rwTerminal, wbObject, wbTerminal>>
deviceVars == <<starts, bIsStart, bIsProtected, deleted>>
lifeVars == <<deviceVars, threadFlags, rwEvents, wbEvents, rwList, used, rw, wb, stoppc, completed>>

\* DF_AddDevice zeroes the extension.
LifeInit ==
  /\ starts = 0 /\ bIsStart = FALSE /\ bIsProtected = FALSE /\ deleted = FALSE
  /\ rwObject = FALSE /\ rwTerminal = FALSE /\ wbObject = FALSE /\ wbTerminal = FALSE
  /\ rwStart = FALSE /\ rwFinish = FALSE /\ wbStart = FALSE /\ wbFinish = FALSE
  /\ rwList = <<>> /\ used = 0
  /\ rw = [s \in Start |-> "none"] /\ wb = [s \in Start |-> "none"]
  /\ stoppc = "idle" /\ completed = Irp

-----------------------------------------------------------------------------
(* StartDevice.                                                            *)

(* What DF_CreateSystemThread may come to: no thread, one that could not be *)
(* referenced and has its flag set, or one that is referenced.              *)
Outcome == {"none", "flagged", "made"}

\* The threads of ts after their events were initialised and a new one was made.
Restarted(ts, s, outcome) ==
  [x \in Start |-> IF x = s THEN (IF outcome = "none" THEN "none" ELSE "wait")
                   ELSE IF ts[x] \in {"wait", "waitFull"} THEN "lost" ELSE ts[x]]

StartDevice ==
  /\ ~deleted /\ stoppc = "idle" /\ starts < MaxStarts
  /\ starts' = starts + 1
  /\ rwList' = <<>> /\ rwStart' = FALSE /\ rwFinish' = FALSE
  /\ \E rwo \in Outcome :
       /\ rw' = Restarted(rw, starts', rwo)
       /\ rwObject' = (rwo = "made") /\ rwTerminal' = (rwo # "made")
       /\ \/ /\ rwo # "made"
             /\ bIsStart' = FALSE
             /\ UNCHANGED <<wb, wbObject, wbTerminal, wbEvents, used>>
          \/ /\ rwo = "made"
             /\ used' = 0 /\ wbStart' = FALSE /\ wbFinish' = FALSE
             /\ \E wbo \in Outcome :
                  /\ wb' = Restarted(wb, starts', wbo)
                  /\ wbObject' = (wbo = "made") /\ wbTerminal' = (wbo # "made")
                  /\ bIsStart' = (wbo = "made")
  /\ UNCHANGED <<bIsProtected, deleted, stoppc, completed>>

\* DF_QueryDeviceInfo fails.
StartDeviceFails ==
  /\ ~deleted /\ stoppc = "idle" /\ bIsStart
  /\ bIsStart' = FALSE
  /\ UNCHANGED <<starts, bIsProtected, deleted, threadFlags, rwEvents, wbEvents, rwList, used, rw, wb, stoppc, completed>>

\* IOCTL_DF_START; DF_DispatchIoctl looks for a device with bIsStart = TRUE.
Protect ==
  /\ ~deleted /\ bIsStart /\ ~bIsProtected
  /\ bIsProtected' = TRUE /\ used' = 0
  /\ UNCHANGED <<starts, bIsStart, deleted, threadFlags, rwEvents, wbEvents, rwList, rw, wb, stoppc, completed>>

\* DF_DispatchReadWrite of a protected device.
Queue(i) ==
  /\ ~deleted /\ bIsProtected /\ i \in completed
  /\ completed' = completed \ {i}
  /\ rwList' = Append(rwList, i) /\ rwStart' = TRUE
  /\ UNCHANGED <<deviceVars, threadFlags, rwFinish, wbEvents, used, rw, wb, stoppc>>

-----------------------------------------------------------------------------
(* DF_ReadWriteThread.                                                     *)

RwGoes(s, from, to) == rw[s] = from /\ rw' = [rw EXCEPT ![s] = to]

RwWake(s) ==
  /\ RwGoes(s, "wait", "drain") /\ rwStart
  /\ rwStart' = FALSE
  /\ UNCHANGED <<deviceVars, threadFlags, rwFinish, wbEvents, rwList, used, wb, stoppc, completed>>

\* A request is taken off the list and completed; it may put a block in the queue.
RwServe(s) ==
  /\ RwGoes(s, "drain", "drain") /\ rwList # <<>>
  /\ rwList' = Tail(rwList) /\ completed' = completed \cup {Head(rwList)}
  /\ used' \in {n \in {used, used + 1} : n <= QueueSize}
  /\ UNCHANGED <<deviceVars, threadFlags, rwEvents, wbEvents, wb, stoppc>>

\* The queue is full: the write-back thread is started and waited for.
RwEmptyQueue(s) ==
  /\ RwGoes(s, "drain", "waitFull") /\ rwList # <<>> /\ used = QueueSize
  /\ wbStart' = TRUE
  /\ UNCHANGED <<deviceVars, threadFlags, rwEvents, wbFinish, rwList, used, wb, stoppc, completed>>

RwEmptied(s) ==
  /\ RwGoes(s, "waitFull", "drain") /\ wbFinish
  /\ wbFinish' = FALSE
  /\ UNCHANGED <<deviceVars, threadFlags, rwEvents, wbStart, rwList, used, wb, stoppc, completed>>

\* The list is empty: the thread says so and ends if it has been asked to.
RwDrained(s) ==
  /\ rw[s] = "drain" /\ rwList = <<>>
  /\ rwFinish' = TRUE
  /\ rw' = [rw EXCEPT ![s] = IF rwTerminal THEN "ended" ELSE "wait"]
  /\ UNCHANGED <<deviceVars, threadFlags, rwStart, wbEvents, rwList, used, wb, stoppc, completed>>

-----------------------------------------------------------------------------
(* DF_WriteBackThread.                                                     *)

WbWake(s) ==
  /\ wb[s] = "wait" /\ wbStart
  /\ wbStart' = FALSE
  /\ wb' = [wb EXCEPT ![s] = IF ~wbTerminal /\ used < QueueSize THEN "wait" ELSE "flush"]
  /\ UNCHANGED <<deviceVars, threadFlags, rwEvents, wbFinish, rwList, used, rw, stoppc, completed>>

WbFlush(s) ==
  /\ wb[s] = "flush"
  /\ used' = 0 /\ wbFinish' = TRUE
  /\ wb' = [wb EXCEPT ![s] = IF wbTerminal THEN "ended" ELSE "wait"]
  /\ UNCHANGED <<deviceVars, threadFlags, rwEvents, wbStart, rwList, rw, stoppc, completed>>

-----------------------------------------------------------------------------
(* StopDevice, for IRP_MN_REMOVE_DEVICE and PowerSystemShutdown.           *)

StopGoes(from, to) == stoppc = from /\ stoppc' = to

StopDevice ==
  /\ ~deleted /\ StopGoes("idle", IF rwObject THEN "rw" ELSE IF wbObject THEN "wb" ELSE "delete")
  /\ rwTerminal' = (rwTerminal \/ rwObject)
  /\ wbTerminal' = (wbTerminal \/ (~rwObject /\ wbObject))
  /\ UNCHANGED <<deviceVars, rwObject, wbObject, rwEvents, wbEvents, rwList, used, rw, wb, completed>>

StopStartRw ==
  /\ StopGoes("rw", "rwWait") /\ rwList # <<>>
  /\ rwStart' = TRUE
  /\ UNCHANGED <<deviceVars, threadFlags, rwFinish, wbEvents, rwList, used, rw, wb, completed>>

StopRwFinished ==
  /\ StopGoes("rwWait", "rw") /\ rwFinish
  /\ rwFinish' = FALSE
  /\ UNCHANGED <<deviceVars, threadFlags, rwStart, wbEvents, rwList, used, rw, wb, completed>>

StopRwDone ==
  /\ StopGoes("rw", IF wbObject THEN "wb" ELSE "delete") /\ rwList = <<>>
  /\ rwStart' = FALSE /\ rwFinish' = FALSE
  /\ wbTerminal' = (wbTerminal \/ wbObject)
  /\ UNCHANGED <<deviceVars, rwObject, rwTerminal, wbObject, wbEvents, rwList, used, rw, wb, completed>>

StopStartWb ==
  /\ StopGoes("wb", "wbWait") /\ used > 0
  /\ wbStart' = TRUE
  /\ UNCHANGED <<deviceVars, threadFlags, rwEvents, wbFinish, rwList, used, rw, wb, completed>>

StopWbFinished ==
  /\ StopGoes("wbWait", "wb") /\ wbFinish
  /\ wbFinish' = FALSE
  /\ UNCHANGED <<deviceVars, threadFlags, rwEvents, wbStart, rwList, used, rw, wb, completed>>

StopWbDone ==
  /\ StopGoes("wb", "delete") /\ used = 0
  /\ wbStart' = FALSE /\ wbFinish' = FALSE
  /\ UNCHANGED <<deviceVars, threadFlags, rwEvents, rwList, used, rw, wb, completed>>

\* DestroyCachePool and IoDeleteDevice.
StopDelete ==
  /\ StopGoes("delete", "done")
  /\ bIsStart' = FALSE /\ bIsProtected' = FALSE /\ deleted' = TRUE
  /\ UNCHANGED <<starts, threadFlags, rwEvents, wbEvents, rwList, used, rw, wb, completed>>

Stopping ==
  \/ StopStartRw \/ StopRwFinished \/ StopRwDone
  \/ StopStartWb \/ StopWbFinished \/ StopWbDone \/ StopDelete

RwSteps(s) == RwWake(s) \/ RwServe(s) \/ RwEmptyQueue(s) \/ RwEmptied(s) \/ RwDrained(s)
WbSteps(s) == WbWake(s) \/ WbFlush(s)

LifeNext ==
  \/ StartDevice \/ StartDeviceFails \/ Protect \/ StopDevice \/ Stopping
  \/ \E i \in Irp : Queue(i)
  \/ \E s \in Start : RwSteps(s) \/ WbSteps(s)

\* Every thread that can go on does.
LifeSpec ==
  /\ LifeInit /\ [][LifeNext]_lifeVars
  /\ WF_lifeVars(Stopping)
  /\ \A s \in Start : WF_lifeVars(RwSteps(s)) /\ WF_lifeVars(WbSteps(s))

-----------------------------------------------------------------------------
(* Properties.                                                             *)

(* "Terminate thread", Utils.c:229: the thread a StartDevice has made ends  *)
(* once its flag is set, by DF_CreateSystemThread or by StopDevice.         *)
FlaggedThreadEnds ==
  \A s \in Start : rw[s] # "none" /\ rwTerminal ~> rw[s] = "ended"
=============================================================================
