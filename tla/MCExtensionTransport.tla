-------------------------- MODULE MCExtensionTransport --------------------------
(* ExtensionTransport with few messages, ports and sockets. *)
EXTENDS ExtensionTransport
=================================================================================
