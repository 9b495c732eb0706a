--------------------------- MODULE MCComputerLease ---------------------------
(* Instances of ComputerLease: two bots with a run each.                     *)
EXTENDS ComputerLease, TLC

CONSTANTS r1, r2, b1, b2

TwoBots == r1 :> b1 @@ r2 :> b2

\* Bound: what may happen of what a user asks for, takeovers, lapses and crashes together.
MaxTogether == 2

Bounded ==
    spent["boots"] + spent["stops"] + spent["takeovers"] + spent["lapses"] + spent["crashes"]
        <= MaxTogether

\* Calls are interchangeable.
AnyCall == Permutations(Call)
=============================================================================
