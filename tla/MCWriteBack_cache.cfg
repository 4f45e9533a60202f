\* Blocks of two parts, a pool of two and a queue of one: replacement and emptying the queue at every turn,
\* broken fronts and ends read and written around the pool.
CONSTANTS
  NumBlocks = 3
  NumParts = 2
  Data = {0, 1}
  PoolSize = 2
  QueueSize = 1
  MergeLimit = 2
  None = None
  Irp = {i1}
  Cancellable = {}
  Unmappable = {}
  Block <- MCBlock
  Part <- MCPart
  Request <- MCBroken
SPECIFICATION Spec
INVARIANTS TypeOK FlushOnlyWhileAwaited ModifiedIsQueued CleanIsOnDisk RoomForEveryBlock
PROPERTIES ImplementsVolume
