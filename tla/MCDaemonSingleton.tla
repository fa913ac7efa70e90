-------------------------- MODULE MCDaemonSingleton --------------------------
(* Instances of DaemonSingleton for TLC. *)
EXTENDS DaemonSingleton

CONSTANTS s1, s2, s3, n1, cli
=============================================================================
