SPECIFICATION ArchiveSpec
CONSTANTS
  NumChunks = 3
  MaxEpoch = 1
  Relay <- BothModes
  UserCancels = TRUE
  SourceChanges = FALSE
  SlowKeys = {}
  LocalLen = 3
  CentralLen = 4
  EndLen = 2
  SizeLimit = 200
  Split <- TheSplit
  CountLimit = 10
  UnpackLimit = 80
  ZipNames <- TheZipNames
  Selections <- TheSelections
INVARIANTS
  SelectionArrives

  
CHECK_DEADLOCK FALSE
