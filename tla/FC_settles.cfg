SPECIFICATION FairSpec
CONSTANTS
  loop = loop
  ctl = ctl
  Caller <- LoopAndControl
  HighWaterMark = 4
  LowWaterMark = 1
  Chunk = 2
  Sends = 6
INVARIANTS
  TypeOK
  BufferBound
PROPERTY SendSettles
CHECK_DEADLOCK FALSE
