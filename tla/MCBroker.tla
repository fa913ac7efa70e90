------------------------------ MODULE MCBroker ------------------------------
(* Instances of Broker for TLC. *)
EXTENDS Broker, TLC

CONSTANTS s1, s2, a, b, c

\* The relays are interchangeable; sockets and requests differ in kind.
Symmetry == Permutations({s1, s2})
=============================================================================
