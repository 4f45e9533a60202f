\* One request at a time, a queue of one, and StartDevice once.
CONSTANTS
  Irp = {i1}
  QueueSize = 1
  MaxStarts = 1
SPECIFICATION LifeSpec
PROPERTIES FlaggedThreadEnds
CHECK_DEADLOCK FALSE
