---------------------------- MODULE MCSocketStream ----------------------------
(* Instances of SocketStream for TLC. *)
EXTENDS SocketStream
=============================================================================
