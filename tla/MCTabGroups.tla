----------------------------- MODULE MCTabGroups -----------------------------
(* Instances of TabGroups for TLC. *)
EXTENDS TabGroups, TLC

\* The tabs the user does not touch are interchangeable, as are groups, labels and
\* windows. For safety only.
Symmetry == Permutations(Tabs \ UserTabs) \cup Permutations(Groups) \cup Permutations(Labels)
              \cup Permutations(Windows)

\* While a sweep is under way nothing happens but its steps.
UndisturbedSweep == sweep.pc # "none" => sweep' # sweep
=============================================================================
