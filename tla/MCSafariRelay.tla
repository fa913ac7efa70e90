---------------------------- MODULE MCSafariRelay ----------------------------
(* Instances of SafariRelay for TLC. *)
EXTENDS SafariRelay
=============================================================================
