---------------------------- MODULE EffectPromise ----------------------------
(***************************************************************************)
(* What the gate promises about the effects of a run, without rows, keys,  *)
(* handlers, leases, rules or judges: an effect happens only after it was  *)
(* begun, and not when it was denied; one that may happen once only does;  *)
(* it is called done only when it has happened, and if nobody can tell it  *)
(* stays unknown; and what is said of an outcome is never taken back.      *)
(***************************************************************************)
EXTENDS Naturals

CONSTANTS
    Request,   \* requests for an effect
    Single     \* those whose effect may happen only once

VARIABLES
    phase,     \* open, denied, begun, done, or unknown: begun, and nobody knows
    happened   \* how often each single effect happened

vars == <<phase, happened>>

Init ==
    /\ phase = [q \in Request |-> "open"]
    /\ happened = [q \in Single |-> 0]

Moves(q, from, to) ==
    /\ phase[q] = from
    /\ phase' = [phase EXCEPT ![q] = to]
    /\ UNCHANGED happened

Deny(q) == Moves(q, "open", "denied")

Begin(q) == Moves(q, "open", "begun")

Confirm(q) == (q \in Single => happened[q] = 1) /\ Moves(q, "begun", "done")

GiveUp(q) == Moves(q, "begun", "unknown")

\* The effect itself: it may come after somebody gave up on it.
Happen(q) ==
    /\ q \in Single
    /\ phase[q] \in {"begun", "unknown"}
    /\ happened[q] = 0
    /\ happened' = [happened EXCEPT ![q] = 1]
    /\ UNCHANGED phase

Next == \E q \in Request : Deny(q) \/ Begin(q) \/ Confirm(q) \/ GiveUp(q) \/ Happen(q)

Spec == Init /\ [][Next]_vars
=============================================================================
