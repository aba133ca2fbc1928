----------------------------- MODULE MCSession ------------------------------
(* The session and its counterparty, for TLC.                              *)
EXTENDS FixLink
=============================================================================
