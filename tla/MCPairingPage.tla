--------------------------- MODULE MCPairingPage ---------------------------
(* Small instances of PairingPage for TLC. *)
EXTENDS PairingPage

CONSTANTS file, folder

TheSelection == {file, folder}
TheArchives == {folder}
Calm == {}
Hurried == {"hurries"}
Switching == {"switches"}
=============================================================================
