SPECIFICATION FairSpec
CONSTANTS
  w1 = w1
  w2 = w2
  w3 = w3
  s1 = s1
  s2 = s2
  rx1 = rx1
  rx2 = rx2
  tx1 = tx1
  any1 = any1
  t1 = t1
  Socket <- TwoSockets
  Session <- OneSession
  PeerId <- ThreePeers
  RxPeer <- TwoReceivers
  TxPeer <- OneSender
  Token <- OneToken
  IssuedToken <- OneToken
  SessionTimeout = 2
  Downtime = {0, 1}
  Timers <- BothTimers
  AppClients = TRUE
  WriteMayFail = FALSE
  NoSocket = NoSocket
  NoPeer = NoPeer
  NoToken = NoToken
  NoContext = NoContext
  Absent = Absent
INVARIANTS
  EmptyRoomPurged
  JoinedMeansRegistered
  
PROPERTIES LostSocketReleased
