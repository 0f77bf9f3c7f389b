---------------------------- MODULE MCTunnelRelay ----------------------------
(* Small instances of TunnelRelay for TLC. *)
EXTENDS TunnelRelay

CONSTANT ip1

OneClient == {ip1}
==============================================================================
