--------------------------- MODULE MCButlerBridge ---------------------------
(* An instance of ButlerBridge for TLC. *)
EXTENDS ButlerBridge

CONSTANTS q1, r1
=============================================================================
