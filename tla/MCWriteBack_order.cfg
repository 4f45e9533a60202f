\* Two request packets at once, one of which may be cancelled, and a queue of two blocks that are not merged:
\* order of service, and service.
CONSTANTS
  NumBlocks = 2
  NumParts = 1
  Data = {0, 1}
  PoolSize = 3
  QueueSize = 2
  MergeLimit = 1
  None = None
  Irp = {i1, i2}
  Cancellable = {i2}
  Unmappable = {}
  Block <- MCBlock
  Part <- MCPart
  Request <- MCSingleBlocks
SPECIFICATION FairSpec
PROPERTIES ImplementsVolume RequestsAreServed
