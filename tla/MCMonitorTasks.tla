--------------------------- MODULE MCMonitorTasks ---------------------------
(* Instances of MonitorTasks for TLC. *)
EXTENDS MonitorTasks, TLC

CONSTANTS o, q, r, early, late

\* The processes are interchangeable, and so are the times.
Symmetry == Permutations({o,q,r}) \cup Permutations({early, late})
=============================================================================
