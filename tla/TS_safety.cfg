SPECIFICATION Spec
CONSTANTS
  NumChunks = 2
  MaxEpoch = 2
  Relay <- BothModes
  UserCancels = TRUE
  SourceChanges = TRUE
  SlowKeys = {1}
INVARIANTS
  TypeOK
  AckMeansSaved
  SavedIsWhole
  OneStreamingLoop
  
  NoErrorAfterSave
CHECK_DEADLOCK FALSE
