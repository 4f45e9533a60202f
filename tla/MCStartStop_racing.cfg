\* START and STOP issued at any time, requests that may be cancelled or passed down unmapped;
\* a thread that uses freed memory or finds no block to replace brings the system down.
CONSTANTS
  NumBlocks = 3
  Data = {0}
  PoolSize = 2
  QueueSize = 1
  MergeLimit = 2
  None = None
  Irp = {i1, i2}
  Cancellable = {i1, i2}
  Unmappable = {i1, i2}
  Quiet = FALSE
  Block <- MCBlock
  Part <- MCPart
  Request <- MCWrites
SYMMETRY Symmetry
SPECIFICATION SSSpec
INVARIANTS EachIrpInOnePlace LivePoolIsConsistent
CHECK_DEADLOCK FALSE
