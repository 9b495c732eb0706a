---------------------------- MODULE TeamComputer ----------------------------
(***************************************************************************)
(* The bots of a team and the computer they share: what ComputerLease, for *)
(* whom the computer is up, and ComputerControl, who has its screens, are  *)
(* both about.                                                             *)
(***************************************************************************)

CONSTANT Bot    \* the bots that share the computer
=============================================================================
