SPECIFICATION Spec
CONSTANTS
  w1 = w1
  w2 = w2
  w3 = w3
  s1 = s1
  s2 = s2
  rx1 = rx1
  rx2 = rx2
  tx1 = tx1
  any1 = any1
  t1 = t1
  Socket <- ThreeSockets
  Session <- OneSession
  PeerId <- FourPeers
  RxPeer <- TwoReceivers
  TxPeer <- OneSender
  Token <- OneToken
  IssuedToken <- OneToken
  SessionTimeout = 1
  Downtime = {}
  Timers <- OnlyCleanup
  AppClients = FALSE
  WriteMayFail = TRUE
  NoSocket = NoSocket
  NoPeer = NoPeer
  NoToken = NoToken
  NoContext = NoContext
  Absent = Absent
SYMMETRY Symmetry
INVARIANTS
  TypeOK
  RoomCapacity
  OnePerRole
  NoEcho
