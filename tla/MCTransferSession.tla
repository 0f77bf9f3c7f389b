------------------------ MODULE MCTransferSession ------------------------
(* Small instances of TransferSession for TLC. *)
EXTENDS TransferSession

P2P == {FALSE}
BothModes == {TRUE, FALSE}
==========================================================================
