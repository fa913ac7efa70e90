---------------------------- MODULE MCBridgeLink ----------------------------
(* Instances of BridgeLink for TLC. *)
EXTENDS BridgeLink

CONSTANTS r1, r2, c1, c2
=============================================================================
