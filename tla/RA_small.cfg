SPECIFICATION FairSpec
CONSTANTS
  NumChunks = 2
  YieldEvery = 4
  Contents <- Any
  Copies = 2
INVARIANTS
  TypeOK
  
  
PROPERTY
  FileReturned
CHECK_DEADLOCK FALSE
