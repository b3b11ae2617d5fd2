CONSTANTS
  Limit <- SmallLimits
  PipeSize = 2
  Chunk = 2
  MaxWritten = 4
  Deadline = 1
SPECIFICATION FairSpec
CHECK_DEADLOCK FALSE
INVARIANTS
  TypeOK
  CaptureIsTrue
  NoPipeDeadlock
  NoChildLeftBehind
PROPERTIES
  EveryRunEnds
