----------------------------- MODULE MCThreadLog -----------------------------
(* Instances of ThreadLog for the model checker.                             *)
EXTENDS ThreadLog
=============================================================================
