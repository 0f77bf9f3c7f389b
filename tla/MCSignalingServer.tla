------------------------- MODULE MCSignalingServer -------------------------
(* Small instances of SignalingServer for TLC. *)
EXTENDS SignalingServer, TLC

CONSTANTS w1, w2, w3, s1, s2, rx1, rx2, tx1, any1, t1

TwoSockets == {w1, w2}
ThreeSockets == {w1, w2, w3}
OneSession == {s1}
TwoSessions == {s1, s2}
TwoReceivers == {rx1, rx2}
OneSender == {tx1}
ThreePeers == {rx1, rx2, tx1}
FourPeers == {rx1, rx2, tx1, any1}
OneToken == {t1}
BothTimers == {"heartbeat", "cleanup"}
OnlyCleanup == {"cleanup"}

Symmetry == Permutations(Socket) \cup Permutations(RxPeer) \cup Permutations(Session)
=============================================================================
