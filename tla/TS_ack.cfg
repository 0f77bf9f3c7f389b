SPECIFICATION Spec
CONSTANTS
  NumChunks = 2
  MaxEpoch = 1
  Relay <- P2P
  UserCancels = FALSE
  SourceChanges = FALSE
  SlowKeys = {}
PROPERTIES
  AckCompletes
CHECK_DEADLOCK FALSE
