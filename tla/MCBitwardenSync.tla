-------------------------- MODULE MCBitwardenSync --------------------------
(* Small instances of BitwardenSync for TLC.                                 *)
EXTENDS BitwardenSync

=============================================================================
