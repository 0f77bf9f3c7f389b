--------------------------- MODULE MCPeerTransport ---------------------------
(* Small instances of PeerTransport for TLC. *)
EXTENDS PeerTransport

CONSTANTS tx1, tx2, rx1, rx2

OneSender == {tx1}
TwoSenders == {tx1, tx2}
OneReceiver == {rx1}
TwoReceivers == {rx1, rx2}

Nobody == {}
Anyone == Peer
FirstSender == {tx1}
==============================================================================
