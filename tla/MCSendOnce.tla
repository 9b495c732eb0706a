----------------------------- MODULE MCSendOnce -----------------------------
(* The calls of SendOnce's instance: two bots, one group of both. *)
EXTENDS SendOnce, TLC

Sent(kind, thread, to, from) == [kind |-> kind, thread |-> thread, to |-> to, from |-> from]

Calls ==
  [one   |-> Sent("send", "g", {"x"}, Nobody),
   both  |-> Sent("send", "g", {"x", "y"}, Nobody),
   hook  |-> Sent("webhook", "x", {"x"}, Nobody),
   more  |-> Sent("follow_up", "x", {"x"}, Nobody),
   toY   |-> Sent("bot_message", "y", {"y"}, "x"),
   toX   |-> Sent("bot_message", "x", {"x"}, "y")]
CallKeys == DOMAIN Calls
\* Calls in progress are interchangeable.
Symmetry == Permutations(Call)
=============================================================================
