# Verification of WDUtils: the DiskFilter3 cache and the tiamoPCI bus driver

WDUtils is a collection of Windows kernel drivers. Its core is DiskFilter3, a filter driver above a
disk volume that keeps a pool of cached blocks in memory (or on another partition), answers reads
from it, takes writes into it, and writes modified blocks back to the volume later. Its largest
part is tiamoPCI, a PCI bus driver with an arbiter of memory ranges and a plug-and-play state
machine. This directory models in TLA+: of DiskFilter3 the cache and its two threads, the dispatch
routine with its ioctls and its paging-file notifications, the replacement policies, the B+ tree,
and the start and removal of a device; of tiamoPCI the arbiter and plug and play. TLC checks the models on small
instances, and TLAPS proves the safety of the cache, of starting and stopping it, of its replacement policies, of the
B+ tree, of the arbiter and of the plug-and-play state machine for all sizes.
Paths below are relative to `src/DiskFilter3/` unless they begin with `tiamoPCI/`.

## The system

| component | state | operations | modelled in |
|---|---|---|---|
| dispatch of reads and writes (`Dispatch.c:395-413`) | `bIsProtected`, `RwList`, `RwThreadStartEvent` | queue an IRP and set the event, or pass it down | `WriteBack` (`Submit`, `Signal`), `StartStop` (`Arrive`, `Enqueue`, `SetEvent`, `PassDown`) |
| read/write thread (`RWThread.c`, `CacheCommon.c`, `Cache.h`) | the IRP in hand, pool, queue, events | pop, hit, miss, read update, write, replace, queue, complete | `WriteBack` (`Rw...`) |
| write-back thread (`WBThread.c`, `Queue.c`) | buffer of the merged run, `WbQueue`, `WbQueueLock` | wake, merge, write, signal | `WriteBack` (`Wb...`) |
| start and stop ioctls (`Dispatch.c:92-180`) | `bIsProtected`, `WbFlushAll`, the pool's life | initialise; drain, flush, destroy | `StartStop` (`Start...`, `ZeroQueue`, `Undo...`, `Stop...`) |
| OCP, SLRU and LRU replacement policies, lists, storage slots (`Cache_*.c`, `List.c`, `Storage.c`) | two lists, reference counts, slot bitmap and hint | reference, add, protect, promote, demote, replace | `Policies` |
| B+ tree (`bpt_*.c`) | nodes, root | find, insert, delete, destroy | `BPTree` |
| device start, removal, thread termination (`Utils.c:151-320`) | `bIsStart`, thread objects, termination flags, events | `StartDevice`, `StopDevice`, the ends of the threads' loops | `DeviceLife` |
| plug and play of the filter (`Dispatch.c:300-393`) | `PagingCount`, its event, `DO_POWER_PAGABLE` | start, usage notifications; removal | `Paging`; `DeviceLife` |
| memory arbiter (`tiamoPCI/source/pci.arbiter.cpp`, `pci.ar_memio.cpp`) | allocation, its copy, ordering lists, the stack of the search | test, retest, commit, roll back, boot allocation, start | `Arbiter` |
| plug and play of buses and devices (`tiamoPCI/source/pci.state.cpp`, `pci.fdo.cpp`, `pci.pdo.cpp`, `pci.enum.cpp`) | a state and a tentative state per device object, the list of children | scan, report, start, stop, query, cancel, remove, surprise-remove | `PciPnp` |
| everything else in the repository | | | not modelled, see the end |

How the parts of DiskFilter3 interact. A dispatch routine runs in the caller's thread; it appends the IRP to `RwList`
under a spin lock and then sets an auto-reset event. The read/write thread waits for the event and
serves IRPs until the list is empty. A write to a cached or newly cached block marks it `Modified` and
puts it on `WbQueue`. When the queue is full (`EMPTY_WB_QUEUE_IF_FULL`, `Cache.h:257-265`) the
read/write thread sets `WbThreadStartEvent` and waits for `WbThreadFinishEvent`; the write-back thread
empties the queue under `WbQueueLock`, merging consecutive blocks into one write. A stop ioctl uses
the same events from a third thread, and `WbFlushAll` to have a queue that is not full emptied;
`StopDevice` uses them from a fourth, with a flag per thread that ends it. The pool finds a block by its index in
the B+ tree, keeps it in a list of the policy and its contents in a slot of the storage pool.

How the parts of tiamoPCI interact. The plug-and-play manager sends requests to the device object of a bus (FDO) and
to those of the devices on it (PDO). A query for relations has the bus scanned: who is found again keeps
its PDO, who is gone is marked and reported missing, and only then may its PDO be deleted. For resources
the manager asks the arbiter of the bus to test a list of requirements and to commit the result or roll it back.

What is hard about it. The read/write thread looks for clean blocks without the lock under which the
other thread cleans them; the marks are cleared while data is only in a buffer; auto-reset events
coalesce, and both the ioctl and the read/write thread clear them; broken blocks (requests that begin
or end inside a block) go partly around the cache; nobody looks at the result of `QueueInsert`; the
ioctl takes an empty list for an idle thread; a thread looks at its termination flag only once it is woken. The policies compare only one list with its
size and count on a victim there; a deletion from the tree moves entries through several levels. The arbiter backtracks over several entries with a state per
entry that is reused; devices vanish between two requests, while they are scanned, stopped or being removed.
`PROJECT.json` lists each hazard at its line.

What makes it correct. The volume must behave as if there were no cache; a block that may be given up
is on the device; marks and queue agree; a victim and a queue entry are always found; requests are
served; a stop leaves on the device whatever was written; lists, slots and index keep each block once; a thread that is told to ends.
No two devices are given the same address, the copy of a transaction is what was assigned, a search ends. No transition of a
device object is one the table forbids, a report is what is on the bus, and a PDO is deleted only after the manager was told.

## The modules

* `Pool` — what the cache expects of a replacement policy: `Evictions(c, m)`, what a pool that holds
  `c`, of it `m` marked, may give up for one more block.
* `Volume` — the abstract specification: a volume, a queue of requests served in order, an answer.
  No cache, no device, no threads.
* `WriteBack` (extends `Pool`) — the protected volume: dispatch, read/write thread, write-back thread. One action is one
  step between two points where another thread can see something. `ImplementsVolume` says that it
  implements `Volume` under a refinement mapping: a block's contents are the cached copy where there
  is one and the device's elsewhere; the pending requests are the one being served and `RwList`.
* `StartStop` (extends `WriteBack`) — `IOCTL_DF_START` and `IOCTL_DF_STOP` beside those threads, the check of
  `bIsProtected` apart from what follows it, and requests passed down or cancelled. A START makes the pool (`StartPool`,
  `Dispatch.c:153`), the queue (`StartQueue`, 159) and then sets `bIsProtected` (`StartProtect`, 162), each a step of its own, because a thread that
  is still serving a request of the time before sees what is between them; one that fails is undone in two steps (166, 168).
  Three variables are there for the properties only: `host`, the contents as the issuers of completed requests know them; `stale`, how many
  entries at the head of the queue are of a pool already destroyed; `forgotten`, the marked blocks whose entry `InitQueue` has thrown away.
* `Policies` (extends `Pool`) — the three policies; `build`, which no step changes, says which one is compiled in and how it
  divides the pool. `GivesUpWhatPoolMay` says that a policy does only what
  `WriteBack` allows a policy to do, which is what joins the two models.
* `BPTree` — the tree as nodes with pointers up, down and to the next leaf, and what a list of all blocks (`listed`) expects of it. The
  C functions are operators on trees. A call changes a leaf, and a step of its own stands for each level that `insert_into_parent`,
  `coalesce_nodes` and `redistribute_nodes` then go up: `op` says which call is being made and `at` which node it has made too
  large or too small. Calls follow each other (`op = "none"`): no lock guards the
  tree, but the read/write thread makes all calls except the destruction by a stop, and what happens when the two meet is in `StartStop`.
* `DeviceLife` — `StartDevice`, `StopDevice`, and the threads as far as their waiting and ending goes.
* `Paging` — `IRP_MN_START_DEVICE` and `IRP_MN_DEVICE_USAGE_NOTIFICATION` for paging files, several at once.
* `Arbiter` — the handlers of the arbiter, one action each, and the search of `ArbAllocateEntry`, one action per turn of its loops.
* `PciPnp` — the manager's sequences of requests, the driver's handlers, and hardware that comes and goes.
* `WriteBackProofs`, `PoliciesProofs`, `PciPnpProofs`, `ArbiterProofs` — theorems about the modules of those names, and the lemmas they
  rest on; `VolumeProofs` (extends
  `WriteBackProofs`) — that `WriteBack` implements `Volume`; `StartStopProofs` (extends `StartStop` and `VolumeProofs`) —
  theorems about `StartStop`; `BPTreeLemmas` — what the operators of `BPTree` make of the shape of a tree, up to the splits;
  `BPTreeProofs` (extends it) — the same of redistribution, and the theorems about `BPTree`.
* `MCWriteBack`, `MCStartStop`, `MCPolicies`, `MCArbiter` — instances for TLC; `BPTree`, `DeviceLife`, `Paging` and
  `PciPnp` need only a configuration.

Operators marked `Slip:` are deliberately wrong forms of the definition that follows them. No
specification uses them; putting one in place of its neighbour shows that a property can fail.

### State and code

| variable | code |
|---|---|
| `disk` | the lower device |
| `data` | the cached blocks, index (tree) and contents (storage pool) in one function |
| `modified`, `queue`, `lock` | `CACHE_BLOCK.Modified`, `CachePool.WbQueue`, `CachePool.WbQueueLock` |
| `wbStart`, `wbFinish`, `rwStart`, `rwFinish` | the four `SynchronizationEvent`s; waiting resets them |
| `rwList`, `req`, `signal`, `cancelled` | `RwList`, the IRPs in flight, dispatchers between `InsertTailList` and `KeSetEvent`, `Irp->Cancel` |
| `rwpc`, `cur`, `todo`, `buf`, `add` | where the read/write thread is, its IRP, the blocks still to handle, `SysBuf`, which of the three queueing macros it is in |
| `flushAll`, `size` | `CachePool.WbFlushAll`; `WbQueue.Size`, 0 before the first START and after one that failed, when the queue is full and empty |
| `wbpc`, `acc`, `first` | where the write-back thread is, the run in its buffer, the index of its first block |
| `protected`, `alive`, `ctlpc` | `bIsProtected`, whether the pool exists, where the thread serving an ioctl is |
| `arriving`, `passing` | dispatchers that have read `bIsProtected` as TRUE or FALSE and not yet acted on it |
| `low`, `high`, `refs`, `slot`, `hint` of `Policies` | `ColdList`, `ProbationaryList` or `List`; `HotList` or `ProtectedList`; `ReferenceCount`, `StorageIndex`, `HintIndex` |
| `rw`, `wb`, `rwTerminal`, `rwObject` (and `wb...`) of `DeviceLife` | the threads each `StartDevice` made, `bTerminalRwThread`, `RwThreadObject # NULL` |
| `root`, `node`, `at` of `BPTree` | the root the pool keeps, the allocated `node`s, `left` of `insert_into_parent` or `n` of `delete_entry` |
| `allocation`, `possible`, `stack`, `level` of `Arbiter` | `Allocation`, `PossibleAllocation`, `AllocationStack`, the index of `CurrentState` in it |
| `fdo`, `pdo`, `children`, `NotPresent`, `ReportedMissing` of `PciPnp` | `DeviceState` and `TentativeNextState` of the extensions, `ChildPdoList`, the flags of a PDO |
| `busNode`, `node`, `reported` of `PciPnp` | the manager's view of the bus, of each PDO, and of the last answer |

### Abstractions

* Bytes. A block has a few parts, the pieces a request may start or end at. A request names the parts
  it covers of every block: this is what `detect_broken` computes from offset and length.
* Which block is replaced. `WriteBack` chooses any block a policy may choose; `Policies` has the policies themselves.
* The two write paths, `QueryAndWriteToCachePool` and `WriteUpdateCachePool` with the direct writes of
  `RWThread.c:162-207`, handle each block alike and in ascending order, so they share their actions.
* Failures. A read of the lower device may fail (`RwForwardFails`), memory for a read may be short
  (`RwForward`, `RwReadSkip`), a start may fail (`StartPoolFails`, `StartQueueFails`, `StartDeviceFails`), and the memory manager may fail to map the buffer of a request (`Unmappable`, see below). Writes to the lower device do not fail: `IoDoRWRequestSync`
  tries again until one succeeds (`Utils.c:111-147`).
* One block of the queue is taken, copied and unmarked in one step (`WbGather`): the lock is held, and the
  proved `FlushOnlyWhileAwaited` says that the only other thread that looks is waiting. In `StartStop`, where
  the ioctl can wake the write-back thread while the read/write thread runs, this remains an abstraction.
* One ioctl at a time; it is the issuer that would have to start a second. `InitCachePool`, `InitQueue`, `DestroyQueue` and
  `DestroyCachePool` are one step each.
* Buffers that cannot be mapped. `RWThread.c:58` passes a request to the device not only when its length is 0 but also when
  `MmGetSystemAddressForMdlSafe` (35) had no memory to map its buffer; the request then goes past whatever is cached, a read past newer
  data and a write under it. `RwPassDown` makes that step for the IRPs in the constant `Unmappable`. With such IRPs the cache does **not**
  implement the volume: TLC finds `ImplementsVolume` and `CleanIsOnDisk` (run `cache` with `Unmappable = {i1}`), `DeviceHoldsTheVolume` and
  `AnswersAreCurrent` (run `quiet`) violated, while the types, `FlushOnlyWhileAwaited`, `ModifiedIsQueued`, `RoomForEveryBlock` and
  `NeverUsesFreedMemory` still hold. The runs `cache`, `order`, `quiet` and `flush` therefore have `Unmappable = {}`, and the theorems that need it say
  so; `racing` has no such restriction. What a read that is passed down answers is not recorded.
* In `StartStop` a step that would follow a pointer into a destroyed pool, or add a
  block to it, or that finds no block to replace, is replaced by `Crash`, after which nothing happens any more.
* In `Policies` the tree is the set of blocks it finds, the lists are sequences, and a reference count
  above 2 counts as 2, because the code only compares it with 2 (`Cache_OCP.c:147`). SLRU and LRU also have a branch that adds
  a block when no victim was found; `VictimExists` shows that it is not reached, and it is left out.
* In `BPTree` the record of a key has its name, and the last pointer of a leaf is a field of its own, `next`. A node that is full gets
  its new entry before it is split, as the temporary arrays of the code do. When a call returns, nodes are
  renamed by their kind and first key, so that two trees of the same shape are one state; the proofs need only that no two nodes
  get the same name.
* In `Arbiter` attributes of a state are kept from an entry to the next where the code reuses one
  (`ArbRetestAllocation` and `ArbBootAllocation` have one state for all entries, so that the alias attribute of a read-only entry stays
  set: `Kept`). A copy that was tested again may therefore mark ranges as aliases that the first test did not, which `CopyIsTheAssignment` allows
  for. The mark has a consequence: a later request that is an alias itself, read-only memory at a fixed place, sees through it and may be given
  an address of an ordinary, writable range of another device. `RangesExclusive` therefore excuses two ranges that are both marked only if one of them really was
  asked for as an alias (`AskedAsAlias`); that both were is not so, and TLC shows it on the instance of `arbiter`, in 15 steps. The code marks as aliases
  read-only memory and what a legacy driver reports as fixed. A boot list is refused as a whole if a legacy driver has taken one of its devices.
  `ALIGN_ADDRESS_UP` in `ArbpBuildAlternative` discards its result, and the model does not align there either. The
  manager obeys what the handlers assert: it retests only what was tested last (`tested`, `assigned`) and as long as the allocation has not changed
  since, allocates each boot list once, starts the arbiter between transactions. Left out: `ArbShareDriverExclusive` (1246, 2438-2515), which gives a device the whole window over a range of another device of the same driver if a requirement
  has `CmResourceShareDriverExclusive`, which nothing in the repository sets, or a range the attribute that only this routine sets; `ArbQueryConflict`, which restores the copy it
  works on; shortage of memory; the port arbiter (`ario_*`), which shares the search and differs in aliases of ports.
* In `PciPnp` the manager serialises its requests, finishes one sequence before the next, stops and removes children before their bus, and
  asks before it stops or removes; what else is refused is chosen freely. A bus refuses
  every query to stop, so `IRP_MN_STOP_DEVICE` never reaches it. Power, resources, interfaces, bus numbers, shortage of memory and a PDO that
  cannot be created are left out.

## The runs

| run | instance | checks |
|---|---|---|
| `cache` | 3 blocks of 2 parts, pool 2, queue 1, one IRP, broken fronts and ends | types, `FlushOnlyWhileAwaited`, `ModifiedIsQueued`, `CleanIsOnDisk`, `RoomForEveryBlock`, `ImplementsVolume` |
| `order` | 2 blocks, pool 3, queue 2, two IRPs, one cancellable, fairness | `ImplementsVolume`, `RequestsAreServed` |
| `quiet` | `StartStop`, 3 blocks, queue 2, runs of at most 2, ioctls only between requests, fairness | types, `DeviceHoldsTheVolume`, `AnswersAreCurrent`, `NeverUsesFreedMemory`, `ModifiedIsQueued`, `CleanIsOnDisk`, `StopReturns` |
| `racing` | `StartStop`, 3 blocks of one part, pool 2, queue 1, two IRPs (interchangeable) that may be cancelled and unmapped, writes of one block, ioctls at any time | `EachIrpInOnePlace`, `LivePoolIsConsistent` |
| `flush` | `StartStop`, 2 blocks, pool 2, queue 1, one IRP, ioctls at any time | violated: see the findings |
| `policies` | LRU with a list of 4; SLRU and OCP with 2 and 2, and 1 and 3; 5 blocks (interchangeable) | types, `EachBlockOnce`, `ListsWithinSize`, `SlotForEveryBlock`, `VictimExists`, `GivesUpWhatPoolMay` |
| `bptree` | order 4, 13 keys | `Balanced`, `LinksAgree`, `LeavesInOrder`, `FindsWhatIsListed` |
| `life` | one start, one IRP, queue 1, fairness | violated: see the findings |
| `paging` | two paging files | violated: see the findings |
| `arbiter` | 8 addresses, two devices, 14 lists of up to 3 entries, 1 boot list, fairness | types, `RangesExclusive`, `CopyIsTheAssignment`, `AssignedAsAsked`, `PrefetchableKeptApart`, `OthersKeepTheirRanges`, `SearchEnds` |
| `search` | 8 addresses, one list of two entries | violated: see the findings |
| `pnp` | 1 slot, 2 kinds of device, 2 PDOs, fairness | types, `NoCheckFails`, `StatesAgree`, `KnownPdosExist`, `ReportsTheBus`, `MissingIsDestroyed` |

What each shows is in the `about` of `PROJECT.json`. There is one bound on behaviours, `MaxStarts`, how often `StartDevice`
runs; all other state is finite because there are
finitely many IRPs, blocks, keys, addresses and device objects, so TLC explores every reachable state (10^4 to 3 · 10^6).

Why the sizes are enough. With one block more than the pool holds, each insertion can need a
victim; with a queue of one, each write after the first empties it; a queue of two is the least that
can merge, and three blocks the least that has neighbours and a gap. Two values tell old data from
new; two parts make a block broken at either side, and three blocks give a request a broken front and
end with a whole block between. Two IRPs show order and coalesced events, and in `racing` one that is being served while
the other is queued, cancelled or passed down around a STOP and a START; the properties of that run do not depend on data, so there is one value. In the policies the list that is replaced in is larger
than the queue by one, the tightest that `common.h` allows in kind; a second list of one makes every second
promotion demote. Thirteen keys are the fewest with which inner nodes of a tree of order 4 are redistributed; the order in the code is 128, and
nothing in the operations but where a node is cut and how many keys it may have depends on it; the proofs are for every order. Eight addresses hold three alternatives of different alignment
side by side, with a reserved address and a prefetchable window among them; lists of three entries backtrack over more than one
level. Two devices that take turns in one slot and two PDOs show an exchange between two scans, a PDO that is still there when its device is
replaced, and one that is used again. Before the proof the invariant of `PciPnp` was also checked with two slots or two devices and three PDOs (some 4 · 10^5 states each).

`CHECK_DEADLOCK FALSE` appears where a `Crash` ends a behaviour (`racing`, `flush`) and where a
device may be removed for good (`life`).

Fairness. Each thread of DiskFilter3 is weakly fair: both threads run at real-time priority (`RWThread.c:16`,
`WBThread.c:26`) and wait for nothing but the events and the lock, which are modelled; a dispatcher
that has queued an IRP goes on to set the event in the next statement (`Dispatch.c:407-409`), and the
thread serving an ioctl or a removal goes on like any other. Issuing a request, cancelling it and issuing an ioctl are not fair: nobody has
to. `RequestsAreServed` leaves out the IRPs their issuer may cancel, because the code never completes
one that it finds cancelled (`RWThread.c:27-31`). The search of the arbiter is weakly fair: its loop waits
for nothing. In `PciPnp` a scan that has begun goes on (weak fairness); removal and surprise removal of each PDO are strongly
fair, since the manager has one queue for removals and a PDO's turn comes though scans and other requests go before it.

### Findings

* `flush`: `Dispatch.c:127` says "Flush Back All Data". The ioctl waits for an empty `RwList`, but an IRP leaves the list before it is
  served. A write that is being served when the flush
  loop ends enters its block afterwards; the pool is destroyed, the write is completed with
  success, and its data is nowhere. It does not happen when the volume is quiet (run `quiet`).
* `life`: `Utils.c:229` says "Terminate thread". The thread looks at the flag (232) only after it has been woken, and nobody wakes it; nor does
  `StopDevice` wake an idle thread, whose event it clears.
* `paging`: `Dispatch.c:328` takes `CurrentPnpState` = 0 for a device that is not started, but `IRP_MN_START_DEVICE` is 0. Every paging file put on a started
  disk is passed down uncounted, and the filter's device object stays pagable, against the comment at 359.
* `search`: `tiamoPCI/source/pci.arbiter.cpp:1358` says "have we run out space in this alternative move on to the next?", but the condition below it
  moves on whenever there is space left. A test can fail although an assignment exists.

Two more races, seen in `racing` and excepted by name in `LivePoolIsConsistent` rather than listed as findings. A thread that still serves an old write
may put a block into the new pool between `InitCachePool` and `InitQueue`: its entry is thrown away, the block stays marked and is never written back
(`forgotten`). With enough of them every block of the pool is marked, and there is no victim although `Cache_OCP.c:183` says "There always exist
Non-Modified Blocks" (`NoVictim`; the invariants of the cache exclude it as long as the ioctls come between requests). And while a START that failed is undone the
queue is already zeroed and the pool not yet destroyed.

## The proofs

### The cache

`WriteBackProofs` proves for any sets of blocks, parts, values, IRPs and requests, and any sizes, of
`Spec` of `WriteBack`:

| theorem | states |
|---|---|
| `Invariance` | `IInv` always |
| `TypeCorrect` | `TypeOK`, with the bound of the queue |
| `FlushExclusive` | `FlushOnlyWhileAwaited` |
| `MarkedIsQueued` | `ModifiedIsQueued` |
| `NothingIsLost` | `CleanIsOnDisk` |
| `PoolWithinSize` | the pool never exceeds its size |
| `AlwaysRoom` | `RoomForEveryBlock` |

Assumptions: `PoolAssumption` and `SizeAssumption` (sizes are positive, the queue is smaller than the
pool; `common.h` has 12800 blocks and 3000 entries), `BlockAssumption` (indices are naturals),
`RequestAssumption` (requests are well formed), `IrpAssumption` (`None` and the thread names are none of the IRPs or requests).
TLC evaluates all of them in every run of `WriteBack`. `NothingIsLost` has the hypothesis `Unmappable = {}` besides; the other six hold whether or not buffers can be mapped.

The argument. `CleanIsOnDisk`, the property that no data is lost, is not inductive. That a block stays clean while the
write-back thread holds it in its buffer depends on the read/write thread not touching the
pool then, which depends on the events. `Handshake` says so: while the read/write thread waits in
`EMPTY_WB_QUEUE_IF_FULL`, the turn is in exactly one of `wbStart`, the awake thread, `wbFinish`, or
nowhere yet; at other times the write-back thread sleeps and neither event is set. `RunIsCurrent` says that the run in
the buffer is what the pool holds, `QueueIsModified` that a queued block is cached and queued once, so that
gathering a block finds it. `ReadIsCurrent` is needed when a block that was read from the device
enters the pool as clean: nothing changed the device's copy since. `Adding` and `IrpsInPlace` say which
block and which IRP the read/write thread is concerned with. `IInv` is the conjunction of these with
the types, and was checked by TLC on the instances above before it was proved; its preservation is one
lemma per conjunct, with a step per action that can disturb it.
`AlwaysRoom` follows by counting: the marked blocks are in bijection with the queue and at most one
more, fewer than the pool holds, so a full pool has a block that is not marked. That the block to be
handled next exists (`NextBlockInTodo`) needs the least element of a set of naturals, which is
derived from the well-foundedness of the order on finite subsets.

### The volume

`VolumeProofs` proves, under the same assumptions, for the same constants and with `Unmappable = {}` (every buffer can be mapped), of `Spec` of `WriteBack`:

| theorem | states |
|---|---|
| `ServiceInvariance` | `ServiceInv` always |
| `VolumeIsServed` | `ImplementsVolume` |

The argument. `Contents`, `Owed` and `Given` name what the refinement mapping shows of a state: the contents of the
volume, the requests in the order they will be served, the answer. Every step of the cache is a step of `Volume` or shows
nothing:

* `Contents` changes in four steps only (`StoringStep`), each of which stores the parts of one block a write asks for, as
  `WriteBlock` does. Giving up a block shows nothing because the block is on the device (`CleanIsOnDisk`, and outside a
  flush there is no run); writing a run shows nothing because the pool holds what the run does (`RunIsCurrent`).
* `Owed` grows at its end with a dispatch, loses its head when a request is finished, and any one that is cancelled; taking
  an IRP off the list shows nothing, since the one in hand comes first.
* A read is answered when no block is left to go through, and `ServiceInv` says that the blocks gone through agree with the
  volume, those of a write are stored, the step the thread is at fits the operation of its request,
  and the IRP in hand is never a cancelled one.

So what was read earlier is still true when the answer is given, although the write-back thread may run in between: nothing it does changes `Contents`.

### Starting and stopping

`StartStopProofs` proves of `SSSpec` of `StartStop`, for the same constants:

| theorem | states | the ioctls |
|---|---|---|
| `StopInvariance` | `JInv` always | between requests |
| `StopTypeCorrect` | `SSTypeOK` | between requests |
| `StopLosesNothing` | `DeviceHoldsTheVolume` | between requests |
| `EveryAnswerCurrent` | `AnswersAreCurrent` | between requests |
| `PoolOutlivesItsUse` | `NeverUsesFreedMemory` | between requests |
| `StopKeepsTheMarks` | `ModifiedIsQueued` | between requests |
| `StopKeepsCleanOnDisk` | `CleanIsOnDisk` | between requests |
| `OnePlaceForEachIrp` | `EachIrpInOnePlace` | at any time |
| `LivePoolStaysConsistent` | `LivePoolIsConsistent` | at any time |

Assumptions: those of the cache; and for the theorems marked "between requests" also `Unmappable = {}` and `Quiet`, that the
ioctls are issued, and served to their end, while no request is in flight. The code does not enforce `Quiet`; without it those
properties do not hold, of which `flush` is the example. The theorems marked "at any time" assume neither: IRPs may be cancelled or passed down
unmapped, and come at every point of an ioctl.

The argument under `Quiet`. `JInv` keeps what `IInv` says of the cache except its handshake. `StopHandshake` replaces that
with one in which the thread serving `IOCTL_DF_STOP` stands in the read/write thread's place while it
waits for a flush. `QuietInv` says that nothing is queued or served while the volume is not protected,
`PoolDown` that there is then no pool and no queue once the flush is over. So at `DestroyCachePool` no block is
marked, all of them are on the device (`CleanIsOnDisk`), and giving all of them up at once changes `Contents` as little
as giving up one does. `HostInv` relates the volume to what the issuers know: they are equal, but for the blocks of the write in
progress that have been stored already; `AnswerInv` says the same of the answer to a read. As long as no
stop is flushing, a step of the two threads is one of `WriteBack`, and its lemmas are cited; the flushes
of the stop are proved with the lemmas on queue and run that those are made of.

The argument without it. `PlacesInv` needs nothing of the pool: it follows an IRP from the dispatch routine to its completion; a pending IRP that is
nowhere is a cancelled one (`PlacesCancelled`). `RaceInv` adds that a pool that is not alive is empty, that only a START between pool and queue has stale entries,
and that in a live pool, unless its START is being undone, the marked blocks are those of the live entries (`Live`), those forgotten, and the one
being added (`LiveQueue`). With one exception that its proof brought out: the block being added may have gone
with a destroyed pool, even if a new one is up. The thread then either waits, or follows the stale pointer, which is `Crash`. A block is put on the queue only if
there is room, which also has to survive the queue being zeroed under the thread: a zeroed queue has size 0 and counts as full, so `AddHasRoom` excepts the
time in which a START is undone.

### The replacement policies

`PoliciesProofs` proves for any set of blocks, pool, division of it and queue, and for LRU, SLRU and OCP alike, of `PolSpec` of `Policies`:

| theorem | states |
|---|---|
| `PoliciesInvariance` | `PolInv` always |
| `PoliciesTypeCorrect` | `PolTypeOK` |
| `NoBlockTwice` | `EachBlockOnce` |
| `NeverOverfull` | `ListsWithinSize` |
| `AlwaysASlot` | `SlotForEveryBlock` |
| `AlwaysAVictim` | `VictimExists` |
| `PoliciesImplementPool` | `GivesUpWhatPoolMay` |

Assumptions: `PoolAssumption`, and `PoliciesAssumption` (the queue is not empty and shorter than the list new blocks enter; LRU has one list).

The argument. `PolInv` says that the two lists together hold each cached block once (`Hold`), keep their sizes, that
no two blocks share a slot (`Apart`) and that no more blocks are marked than the queue has entries
(`MarksWithinQueue`). All that a policy does to its lists is to take a block out, put one in front, and cut and join at
the ends; a lemma for each says what becomes of the set and the length of a list without repetition. Moving blocks
between lists keeps their number, which is why neither list overfills and why a slot is left when only one list is
compared with its size. A list that is full has more blocks than the queue has entries, so one of them is not marked, and
the last of those is the victim. `PoliciesImplementPool` joins these proofs to the previous ones: `WriteBack` lets
the pool give up any set in `Evictions`, and a policy never gives up anything else, so what is proved of the cache
holds with each of the three.

### The B+ tree

`BPTreeProofs` proves for any order of at least 3 and any range of keys, of `BptSpec` of `BPTree`:

| theorem | states |
|---|---|
| `TreeInvariant` | `BptInv` always |
| `StaysBalanced` | `Balanced` |
| `LinksAlwaysAgree` | `LinksAgree` |
| `LeavesStayInOrder` | `LeavesInOrder` |
| `AlwaysFindsWhatIsListed` | `FindsWhatIsListed` |

Assumption: `BptAssumption` (keys are integers, the order is at least 3). With order 2 an inner node would have no key.

The argument. The four properties speak of a tree between two calls; what holds at each step on the way up is `BptInv`. It says that the heap
has a `Shape`: there is a place for every allocated node, a height and a range of keys `lo .. hi - 1`, such that a leaf has height 0
and holds its records in order within its range, the children of an inner node are one level lower, name it as their parent and divide
its range at its keys, and a leaf is linked to the one whose range begins where its own ends. So a place is fixed by the
place of the parent, and every operation is proved by saying which places change: a split divides a range, a merge
joins two, a redistribution moves the key between two, and a new root puts one level on top. `Waiting` says that every node has a
number of keys between its limits (`Sized`), but for the one the call goes on with, which has exactly one too many or one too few; arithmetic on `CUT` then
shows that both halves of a split are large enough, that two nodes that fit together stay within the maximum, and that a
neighbour that does not fit has one to spare. `KeysOf` relates the keys in the leaves to `listed`: a
split or merge keeps them, although keys of inner nodes may outlive the blocks they were taken from.

The properties follow: `Levels` and `Find_Leaf`, functions that go down from the root, reach exactly the nodes of a height and the
leaf in whose range a key is (`Levels` and `Below` therefore name exactly the allocated nodes). Renaming keeps all of it because it is
one-to-one (`Naming`), which `Names` ensures itself.

`BptInv` quantifies over the places of all nodes, more functions than TLC can go through, so TLC did not check it as it stands. It checks what follows from it, the four properties,
on every reachable tree of the instance of `bptree`.

### The memory arbiter

`ArbiterProofs` proves for any number of addresses, lists, orderings and windows, of `ArbiterSpec` of `Arbiter`:

| theorem | states |
|---|---|
| `ArbiterInvariant` | `ArbiterInv` always |
| `ArbiterTypes` | `ArbTypeOK` |
| `RangesAreExclusive` | `RangesExclusive` |
| `CopyIsAssigned` | `CopyIsTheAssignment` |
| `AssignmentsAsAsked` | `AssignedAsAsked` |
| `PrefetchableApart` | `PrefetchableKeptApart` |
| `OthersKeep` | `OthersKeepTheirRanges` |

Assumptions: `ArbiterAssumption` (entries are well formed, the alternatives of one are all prefetchable and all read-only or none, no
alternative is longer than its window, a boot list has one descriptor per entry); `OrderingAssumption`, fewer ordering windows than the
numbers kept for the reserved priorities, which the code has as `MAXLONG` and the two before it; and `NaturalAlignment`, that nothing is
aligned more coarsely than its length. Base address registers, bridge windows and preferred placements are all so, each at the line the module
names. The last is needed: trimming computes `(end - (len - 1)) & ~(align - 1)` without a check for wrap-around, and a
coarse alignment in a window that ends near the last address rounds up to address 0. TLC evaluates all three.

The argument. Nothing of what is promised is inductive while a search goes on, so `ArbiterInv` follows the stack. `Settled` are the levels that
hold a place: those below the current one, and the current one just after a step back. `CopyInv`, the heart of it, says that the copy is, as a bag,
what the other devices have and one range for each settled level whose alternative has a length; giving a range back (`Backtrack`) must
rebuild exactly the range that was added, from an entry, an alternative, attributes and a place kept in different parts of the state. `WindowInv` says what
was tried for a level: a window within its alternative, aligned, all of it if the requirement is fixed, and apart from the prefetchable
windows unless the entry may use them; `PlaceInv` that the place is in that window, also after it has shrunk; `PriorityInv` that
a priority is one of the special ones or names an ordering with room, without which trimming could wrap around. `AssignedInv` keeps an assignment compatible with
what the other devices have, which is what makes testing it again, without a search, safe; `TransactionInv` says what a copy is between
searches. Exclusiveness is proved by adding one range at a time: `RtlFindRange` returns a place that nothing visible overlaps, and what is invisible to a
request is exactly what the property excuses: a range sees through the mark of an alias only if its own entry asked for one, so it is the `AskedAsAlias` of the two. `ArbOverrideConflict` returns places that do overlap, but only ranges of the same device. Each
of these invariants was checked by TLC on the instance of `arbiter` before its proof. That sorting permutes a list, that pruning leaves windows apart from
those pruned, and that `Wanting` keeps the order, are lemmas about functions defined by recursion on numbers, at the beginning of `ArbiterProofs`.

### Plug and play

`PciPnpProofs` proves for any slots, devices and device objects, of `PnpSpec` of `PciPnp`:

| theorem | states |
|---|---|
| `PnpTypeCorrect` | `PnpTypeOK` |
| `ChecksNeverFail` | `NoCheckFails` |
| `StatesAlwaysAgree` | `StatesAgree` |
| `KnownAreChildren` | `KnownPdosExist` |
| `ReportIsTheBus` | `ReportsTheBus` |

Assumption: `PnpAssumption` (the empty slot is no device; finitely many device objects and slots).

The argument has two layers. `TransitionInv` says which extensions a device object may have after each step of the manager: `BusInv` for the bus,
`ChildInv` for each PDO by what the manager did with it last, whether it is reported missing and whether it is still a child. With that every handler finds a state from which its transition
is in the table, which is `ChecksNeverFail`. `ReportInv` adds what the scan relies on: `FoundOnce`, no two children that are present have the same
function, `ScanInv`, what has been scanned agrees with the bus if nothing was exchanged since the scan began, and
`ReportedInv`, the answer is the children that are present. Both were checked by TLC before they were proved.

### What is only model-checked

Everything about `DeviceLife` and `Paging`, whose runs end in findings; and the liveness properties `RequestsAreServed`, `StopReturns`, `SearchEnds` and `MissingIsDestroyed`, which are outside what the
provers can do.

## Not modelled

* Of DiskFilter3: `App/Control.c`, a command line for the ioctls; `md5.c`, a vendored hash used for debugging;
  statistics, profiling, debug output; driver entry, attachment, power requests, which are only forwarded; the ring
  of `Queue.c`, seen as a sequence; the arithmetic of `detect_broken`; failures of writes, whose results the code does not look at.
* DiskFilter0 to DiskFilter2, earlier forms of the same driver, superseded by DiskFilter3.
* DMON0, DMON1 and DMON2, disk monitors, the first of them third-party: two only log, and DMON2's cache, filled on
  completion, was replaced by DiskFilter's.
* minifilter0 to minifilter2, samples that log file operations or swap buffers; the
  thread, timer, bitmap, lock and service samples; dbgview, a ring of messages for a reading program.
* tiamoDisk, a virtual disk bus that forwards requests to a memory image.
* Of tiamoPCI: `arb/arbiter.c`, the library original that `pci.arbiter.cpp` implements again, so that a model of it would
  be `Arbiter` once more; the port arbiter; configuration of bus numbers; reading and writing configuration
  space; power, CardBus, interfaces, legacy resource assignment, registry parsing, hacks for single chips; structures and tables.

Most of the repository's lines are of these kinds, superseded, third-party, or register-level code
without a protocol of its own, which is why the models stand for a small share of them.
