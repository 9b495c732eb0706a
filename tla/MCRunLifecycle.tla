--------------------------- MODULE MCRunLifecycle ---------------------------
(* Instances of RunLifecycle for the model checker.                        *)
EXTENDS RunLifecycle, TLC

\* Every slot in a process of its own.
DistinctOwner == [w \in Worker |-> w]

\* All slots in one process: they pass the same workerId.
SharedOwner == [w \in Worker |-> CHOOSE o \in OwnerId : TRUE]

Symmetry == Permutations(Run) \cup Permutations(Worker)
=============================================================================
