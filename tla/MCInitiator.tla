---------------------------- MODULE MCInitiator -----------------------------
(* The initiator with two sessions, for TLC.                               *)
EXTENDS Initiator
=============================================================================
