----------------------------- MODULE MCTeaching -----------------------------
(* The instance of Teaching that TLC checks. *)
EXTENDS Teaching
=============================================================================
