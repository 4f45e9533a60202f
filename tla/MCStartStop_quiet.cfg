\* START and STOP issued while no request is in flight.
CONSTANTS
  NumBlocks = 3
  Data = {0, 1}
  PoolSize = 3
  QueueSize = 2
  MergeLimit = 2
  None = None
  Irp = {i1}
  Cancellable = {}
  Unmappable = {}
  Quiet = TRUE
  Block <- MCBlock
  Part <- MCPart
  Request <- MCRequest
SPECIFICATION SSFairSpec
INVARIANTS SSTypeOK DeviceHoldsTheVolume AnswersAreCurrent NeverUsesFreedMemory ModifiedIsQueued CleanIsOnDisk
PROPERTIES StopReturns
