SPECIFICATION Spec
CONSTANTS
  ip1 = ip1
  Key <- OneClient
  SenderIp = ip1
  MaxTokens = 4
  Refill = 1
  IdleTimeout = 4
  MaxElapsed = 2
  Absent = Absent
  Frames = 4
  Fragments = 3
  MaxOthers = 1
INVARIANTS
  TypeOK
  EmittedWhole
  WindowBound
PROPERTY
  BucketSpec
CHECK_DEADLOCK FALSE
