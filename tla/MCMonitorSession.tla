--------------------------- MODULE MCMonitorSession ---------------------------
(* Instances of MonitorSession for TLC. *)
EXTENDS MonitorSession, TLC

\* Documents are told apart only as the same or another one, and so are sessions and
\* the tabs of the managed groups.
Symmetry == Permutations(Docs) \cup Permutations(Ids) \cup Permutations(Managed)
=============================================================================
