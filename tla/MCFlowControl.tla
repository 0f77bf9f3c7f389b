---------------------------- MODULE MCFlowControl ----------------------------
(* Small instances of FlowControl for TLC. *)
EXTENDS FlowControl

CONSTANTS loop, ctl

\* the streaming loop and the control messages
LoopAndControl == {loop, ctl}
==============================================================================
