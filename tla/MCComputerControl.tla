-------------------------- MODULE MCComputerControl --------------------------
(* Instances of ComputerControl for the model checker.                     *)
EXTENDS ComputerControl, TLC
=============================================================================
