--------------------------- MODULE MCRoutineWakeup ---------------------------
(* Instances of RoutineWakeup for the model checker.                       *)
EXTENDS RoutineWakeup, TLC
=============================================================================
