---------------------------- MODULE MCReassembler ----------------------------
(* Small instances of Reassembler for TLC. *)
EXTENDS Reassembler

\* Frames may be resent, damaged, or carry another plaintext for the same index.
Any == {"original", "conflict", "damaged"}
Conflicting == {"original", "conflict"}
==============================================================================
