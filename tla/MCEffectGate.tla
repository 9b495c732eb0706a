---------------------------- MODULE MCEffectGate ----------------------------
(* Instances of EffectGate: a request of a consequential tool and one of a   *)
(* tool that is asked about only because of a rule.                          *)
EXTENDS EffectGate, TLC

CONSTANTS r1, r2, send, look

TwoTools == [q \in Request |-> IF q = r1 THEN send ELSE look]

Symmetry == Permutations(Worker)
=============================================================================
