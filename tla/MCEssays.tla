------------------------------ MODULE MCEssays ------------------------------
(* Instances of Essays.                                                     *)
EXTENDS Essays, TLC

TwoRuns == 1..2
Symmetry == Permutations(Projects) \cup Permutations(Callers)
=============================================================================
