--------------------------- MODULE MCThreadHistory ---------------------------
(* Instances of ThreadHistory for the model checker.                         *)
EXTENDS ThreadHistory, TLC

Symmetry == Permutations(Run) \cup Permutations(Job)
=============================================================================
