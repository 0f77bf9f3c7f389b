SPECIFICATION FairSpec
CONSTANTS
  tx1 = tx1
  tx2 = tx2
  rx1 = rx1
  rx2 = rx2
  NoPeer = NoPeer
  Sender <- OneSender
  Receiver <- OneReceiver
  SenderFrames = 2
  ReceiverFrames = 1
  MaxCandidates = 1
  MaxDrops = 1
  Backpressure = TRUE
  Leaving <- Anyone
INVARIANTS TypeOK 
  NoStrandedCandidate
PROPERTIES
  ConnectedAlike
  OpenIsUsable
CHECK_DEADLOCK FALSE
