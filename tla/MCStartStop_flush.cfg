\* STOP issued at any time: is every completed write on the lower device afterwards?
CONSTANTS
  NumBlocks = 2
  Data = {0, 1}
  PoolSize = 2
  QueueSize = 1
  MergeLimit = 2
  None = None
  Irp = {i1}
  Cancellable = {}
  Unmappable = {}
  Quiet = FALSE
  Block <- MCBlock
  Part <- MCPart
  Request <- MCRequest
SPECIFICATION SSSpec
INVARIANTS DeviceHoldsTheVolume
CHECK_DEADLOCK FALSE
