---------------------------- MODULE MCAccessLedger ----------------------------
(* Small instances of AccessLedger for TLC. *)
EXTENDS AccessLedger, TLC
=============================================================================
