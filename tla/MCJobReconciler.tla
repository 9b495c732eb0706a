--------------------------- MODULE MCJobReconciler ---------------------------
(* Instances of JobReconciler for the model checker.                       *)
EXTENDS JobReconciler, TLC
=============================================================================
