SPECIFICATION FairSpec
CONSTANTS
  ip1 = ip1
  Key <- OneClient
  SenderIp = ip1
  MaxTokens = 4
  Refill = 1
  IdleTimeout = 4
  MaxElapsed = 2
  Absent = Absent
  Frames = 3
  Fragments = 3
  MaxOthers = 0
PROPERTY RelayDelivers
CHECK_DEADLOCK FALSE
