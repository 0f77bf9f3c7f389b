SPECIFICATION Spec
CONSTANTS
  tx1 = tx1
  tx2 = tx2
  rx1 = rx1
  rx2 = rx2
  NoPeer = NoPeer
  Sender <- OneSender
  Receiver <- TwoReceivers
  SenderFrames = 0
  ReceiverFrames = 0
  MaxCandidates = 1
  MaxDrops = 0
  Backpressure = FALSE
  Leaving <- Nobody
PROPERTY BoundSenderStays
CHECK_DEADLOCK FALSE
