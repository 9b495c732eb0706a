-------------------------- MODULE EffectGateProofs --------------------------
(***************************************************************************)
(* Proofs about EffectGate, for every number of workers and requests,      *)
(* every bound and every set of rules: its state stays well formed, the    *)
(* side effect of a consequential request happens at most once, outcomes   *)
(* are true and final, a card comes before what it asks about, and the     *)
(* gate implements EffectPromise.                                          *)
(***************************************************************************)
EXTENDS EffectGate, TLAPS

\* The statuses of a row somebody has claimed; it never leaves them.
Claimed == {"executing", "completed", "uncertain"}

\* Worker w has claimed the row of q and has yet to perform its side effect.
Performing(w, q) == hand[w].at = "performing" /\ hand[w].q = q /\ hand[w].kept

\* A call on its way through the gate carries a request and the rules it was planned
\* under, and a consequential request is kept under its own key.
CallOK(h) ==
    h.at \notin {"out", "starting", "idle"} =>
        /\ h.q \in Request
        /\ h.rules \in [Tool -> Rule]
        /\ ToolOf[h.q] \in Consequential => h.kept

CallsOK == \A w \in Worker : CallOK(hand[w])

CardOK == run.status = "waiting_input" => run.card \in Request

\* The claim counts: one performer at a time, and none once it has happened.
RanOnce ==
    \A q \in Request : ToolOf[q] \in Consequential =>
        ran[q] <= 1 /\ (ran[q] > 0 => effect[q].status \in Claimed)

PerformersClaimed ==
    \A w \in Worker, q \in Request : Performing(w, q) =>
        /\ effect[q].status \in Claimed
        /\ ToolOf[q] \in Consequential => ran[q] = 0

OnePerformer ==
    \A v, w \in Worker, q \in Request : Performing(v, q) /\ Performing(w, q) => v = w

-----------------------------------------------------------------------------
(* What the four ways to update a handler do.                               *)

\* Goes changes the stage of w and nothing else.
LEMMA GoesEffect ==
    ASSUME NEW w \in Worker, NEW stage \in Stage, hand \in [Worker -> Handler], Goes(w, stage)
    PROVE  /\ hand' \in [Worker -> Handler]
           /\ hand'[w].at = stage
           /\ hand'[w].q = hand[w].q
           /\ hand'[w].rules = hand[w].rules
           /\ hand'[w].kept = hand[w].kept
           /\ hand'[w].seen = hand[w].seen
           /\ hand'[w].fence = hand[w].fence
           /\ hand'[w].replay = hand[w].replay
           /\ hand'[w].replayed = hand[w].replayed
           /\ \A v \in Worker \ {w} : hand'[v] = hand[v]
<1>1. hand[w] \in Handler
  OBVIOUS
<1>2. hand' = [hand EXCEPT ![w] = [hand[w] EXCEPT !.at = stage]]
  BY DEF Goes
<1>3. [hand[w] EXCEPT !.at = stage] \in Handler
  BY <1>1 DEF Handler
<1> QED BY <1>1, <1>2, <1>3 DEF Handler

\* A handler between two calls, or gone.
LEMMA RestEffect ==
    ASSUME NEW w \in Worker, hand \in [Worker -> Handler],
           NEW h \in Handler, h.at \in {"out", "starting", "idle"},
           hand' = [hand EXCEPT ![w] = h]
    PROVE  /\ hand' \in [Worker -> Handler]
           /\ hand'[w].at \in {"out", "starting", "idle"}
           /\ \A v \in Worker \ {w} : hand'[v] = hand[v]
  OBVIOUS

LEMMA IdleType ==
    \A fence \in Nat, replay \in SUBSET Request, rules \in [Tool -> Rule] \cup {NoRules} :
        Idle(fence, replay, rules) \in Handler /\ Idle(fence, replay, rules).at = "idle"
<1> TAKE fence \in Nat, replay \in SUBSET Request, rules \in [Tool -> Rule] \cup {NoRules}
<1> QED BY DEF Idle, Handler, Stage, NoEffect, EffectRow, EffectStatus, Verdict

LEMMA StartingType ==
    \A fence \in Nat :
        /\ [Idle(fence, {}, NoRules) EXCEPT !.at = "starting"] \in Handler
        /\ [Idle(fence, {}, NoRules) EXCEPT !.at = "starting"].at = "starting"
<1> TAKE fence \in Nat
<1> QED BY DEF Idle, Handler, Stage, NoEffect, EffectRow, EffectStatus, Verdict

LEMMA OutType == Out \in Handler /\ Out.at = "out"
<1>1. Idle(0, {}, NoRules) \in Handler
  BY IdleType
<1> QED BY <1>1 DEF Out, Handler, Stage

LEMMA ReturnedEffect ==
    ASSUME NEW w \in Worker, hand \in [Worker -> Handler], Returned(w)
    PROVE  /\ hand' \in [Worker -> Handler]
           /\ hand'[w].at \in {"out", "starting", "idle"}
           /\ \A v \in Worker \ {w} : hand'[v] = hand[v]
<1> DEFINE h == Idle(hand[w].fence, hand[w].replay, hand[w].rules)
<1>1. hand[w] \in Handler
  OBVIOUS
<1>2. hand[w].fence \in Nat /\ hand[w].replay \in SUBSET Request
      /\ hand[w].rules \in [Tool -> Rule] \cup {NoRules}
  BY <1>1 DEF Handler
<1>3. h \in Handler /\ h.at = "idle"
  BY <1>2, IdleType
<1>4. hand' = [hand EXCEPT ![w] = h]
  BY DEF Returned
<1> HIDE DEF h
<1> QED BY <1>3, <1>4, RestEffect

\* The branch of a call is a stage; a row read as new or intended is never performed
\* without a claim.
LEMMA BranchStage ==
    ASSUME NEW seen \in EffectStatus, NEW decision \in {"ask", "allow"}
    PROVE  Branch(seen, decision) \in {"idle", "settling", "claiming", "renewing"}
  BY DEF Branch, EffectStatus

LEMMA RecordStage ==
    ASSUME NEW seen \in EffectRow, NEW plan \in {"ask", "allow", "judge"}
    PROVE  AfterRecord(plan, seen) \in {"idle", "settling", "claiming", "renewing", "judging"}
<1>1. seen.status \in EffectStatus /\ seen.verdict \in Verdict
  BY DEF EffectRow
<1>2. /\ Branch(seen.status, "ask") \in {"idle", "settling", "claiming", "renewing"}
      /\ Branch(seen.status, "allow") \in {"idle", "settling", "claiming", "renewing"}
  BY <1>1, BranchStage
<1> QED BY <1>1, <1>2 DEF AfterRecord, Verdict

LEMMA PlanType == \A r, t : Plan(r, t) \in {"ask", "allow", "judge"}
  BY DEF Plan

\* A stage change inside a call keeps the call's request, rules and key.
LEMMA GoesCalls ==
    ASSUME NEW w \in Worker, NEW stage \in Stage, GateTypeOK, CallsOK, Goes(w, stage),
           hand[w].at \notin {"out", "starting", "idle"}
    PROVE  hand' \in [Worker -> Handler] /\ CallsOK'
<1>1. hand \in [Worker -> Handler]
  BY DEF GateTypeOK
<1>2. hand' \in [Worker -> Handler]
  BY <1>1, GoesEffect
<1>3. ASSUME NEW v \in Worker PROVE CallOK(hand'[v])
  <2>1. CallOK(hand[v])
    BY DEF CallsOK
  <2>2. CASE v # w
    BY <1>1, <2>1, <2>2, GoesEffect
  <2>3. CASE v = w
    BY <1>1, <2>1, <2>3, GoesEffect DEF CallOK
  <2> QED BY <2>2, <2>3
<1> QED BY <1>2, <1>3 DEF CallsOK

\* A handler that rests has no call.
LEMMA RestCalls ==
    ASSUME NEW w \in Worker, CallsOK,
           hand'[w].at \in {"out", "starting", "idle"},
           \A v \in Worker \ {w} : hand'[v] = hand[v]
    PROVE  CallsOK'
<1> SUFFICES ASSUME NEW v \in Worker PROVE CallOK(hand'[v])
  BY DEF CallsOK
<1>1. CallOK(hand[v])
  BY DEF CallsOK
<1>2. CASE v # w
  BY <1>1, <1>2
<1>3. CASE v = w
  BY <1>3 DEF CallOK
<1> QED BY <1>2, <1>3

LEMMA ReturnedCalls ==
    ASSUME NEW w \in Worker, GateTypeOK, CallsOK, Returned(w)
    PROVE  hand' \in [Worker -> Handler] /\ CallsOK'
<1>1. hand \in [Worker -> Handler]
  BY DEF GateTypeOK
<1> QED BY <1>1, ReturnedEffect, RestCalls

LEMMA LeftCalls ==
    ASSUME NEW w \in Worker, GateTypeOK, CallsOK, hand' = [hand EXCEPT ![w] = Out]
    PROVE  hand' \in [Worker -> Handler] /\ CallsOK'
<1>1. hand \in [Worker -> Handler] /\ Out \in Handler /\ Out.at = "out"
  BY OutType DEF GateTypeOK
<1> QED BY <1>1, RestEffect, RestCalls

\* The well-formedness of everything but the handlers, for one status or verdict.
LEMMA EffectUpdate ==
    ASSUME NEW q \in Request, NEW st \in EffectStatus, effect \in [Request -> EffectRow],
           effect' = [effect EXCEPT ![q].status = st]
    PROVE  effect' \in [Request -> EffectRow]
<1>1. effect' = [effect EXCEPT ![q] = [effect[q] EXCEPT !.status = st]]
  OBVIOUS
<1>2. effect[q] \in EffectRow
  OBVIOUS
<1>3. [effect[q] EXCEPT !.status = st] \in EffectRow
  BY <1>2 DEF EffectRow
<1> QED BY <1>1, <1>3

LEMMA VerdictUpdate ==
    ASSUME NEW q \in Request, NEW v \in Verdict, effect \in [Request -> EffectRow],
           effect' = [effect EXCEPT ![q].verdict = v]
    PROVE  /\ effect' \in [Request -> EffectRow]
           /\ \A p \in Request : effect'[p].status = effect[p].status
<1>1. effect' = [effect EXCEPT ![q] = [effect[q] EXCEPT !.verdict = v]]
  OBVIOUS
<1>2. effect[q] \in EffectRow
  OBVIOUS
<1>3. /\ [effect[q] EXCEPT !.verdict = v] \in EffectRow
      /\ [effect[q] EXCEPT !.verdict = v].status = effect[q].status
  BY <1>2 DEF EffectRow
<1> QED BY <1>1, <1>3

LEMMA CreateUpdate ==
    ASSUME NEW q \in Request, rows \in Nat, effect \in [Request -> EffectRow],
           effect' = [effect EXCEPT ![q] =
               [status |-> "intended", verdict |-> "none", place |-> rows + 1]]
    PROVE  /\ effect' \in [Request -> EffectRow]
           /\ \A p \in Request \ {q} : effect'[p] = effect[p]
           /\ effect'[q].status = "intended"
<1> DEFINE row == [status |-> "intended", verdict |-> "none", place |-> rows + 1]
<1>1. row \in EffectRow /\ row.status = "intended"
  BY DEF EffectRow, EffectStatus, Verdict
<1> HIDE DEF row
<1>2. effect' = [effect EXCEPT ![q] = row]
  BY DEF row
<1> QED BY <1>1, <1>2

-----------------------------------------------------------------------------
(* The state stays well formed.                                             *)

Formed == GateTypeOK /\ CallsOK /\ CardOK

LEMMA FormedInit == Init => Formed
<1> SUFFICES ASSUME Init PROVE Formed
  OBVIOUS
<1>1. NoEffect \in EffectRow
  BY DEF NoEffect, EffectRow, EffectStatus, Verdict
<1>2. Out \in Handler /\ Out.at = "out"
  BY OutType
<1>3. GateTypeOK
  BY <1>1, <1>2 DEF Init, GateTypeOK, RunStatus
<1>4. CallsOK
  BY <1>2 DEF Init, CallsOK, CallOK
<1>5. CardOK
  BY DEF Init, CardOK
<1> QED BY <1>3, <1>4, <1>5 DEF Formed

\* A step of a handler, one case for each of its stages.
LEMMA FormedHandler ==
    ASSUME NEW w \in Worker, Formed, HandlerStep(w)
    PROVE  Formed'
<1> USE GateAssumption
<1>0. GateTypeOK /\ CallsOK /\ CardOK /\ hand[w] \in Handler /\ CallOK(hand[w])
  BY DEF Formed, GateTypeOK, CallsOK
<1>1. CASE Lease(w)
  <2>1. hand' \in [Worker -> Handler] /\ hand'[w].at \in {"out", "starting", "idle"}
        /\ \A v \in Worker \ {w} : hand'[v] = hand[v]
    <3>1. [Idle(run.fence + 1, {}, NoRules) EXCEPT !.at = "starting"] \in Handler
          /\ [Idle(run.fence + 1, {}, NoRules) EXCEPT !.at = "starting"].at = "starting"
      <4>1. run.fence + 1 \in Nat
        BY <1>0 DEF GateTypeOK
      <4> QED BY <4>1, StartingType
    <3> QED BY <1>0, <1>1, <3>1, RestEffect DEF Lease, GateTypeOK
  <2>2. CallsOK'
    BY <1>0, <2>1, RestCalls
  <2>3. run' \in [status : RunStatus, fence : Nat, card : Request \cup {NoRequest}]
        /\ run'.status = "running" /\ spent' \in [stalls : Nat, edits : Nat]
    <3>1. run' = [run EXCEPT !.status = "running", !.fence = run.fence + 1]
      BY <1>1 DEF Lease
    <3>2. run' = [status |-> "running", fence |-> run.fence + 1, card |-> run.card]
      BY <1>0, <3>1 DEF GateTypeOK
    <3>3. spent' = spent \/ spent' = [spent EXCEPT !.stalls = spent.stalls + 1]
      BY <1>1 DEF Lease
    <3>4. [spent EXCEPT !.stalls = spent.stalls + 1] \in [stalls : Nat, edits : Nat]
      BY <1>0 DEF GateTypeOK
    <3> QED BY <1>0, <3>2, <3>3, <3>4 DEF GateTypeOK, RunStatus
  <2> QED BY <1>0, <1>1, <2>1, <2>2, <2>3 DEF Lease, Formed, GateTypeOK, CardOK
<1>2. CASE LoadApproved(w)
  <2> DEFINE approved == {q \in Request : effect[q].status = "approved"}
  <2>1. hand[w].fence \in Nat /\ hand[w].rules \in [Tool -> Rule] \cup {NoRules}
    BY <1>0 DEF Handler
  <2>2. Idle(hand[w].fence, approved, hand[w].rules) \in Handler
        /\ Idle(hand[w].fence, approved, hand[w].rules).at = "idle"
    <3>1. approved \in SUBSET Request
      OBVIOUS
    <3> HIDE DEF approved
    <3> QED BY <2>1, <3>1, IdleType
  <2>3. hand' \in [Worker -> Handler] /\ CallsOK'
    BY <1>0, <1>2, <2>2, RestEffect, RestCalls DEF LoadApproved, GateTypeOK
  <2> QED BY <1>0, <1>2, <2>3 DEF LoadApproved, Formed, GateTypeOK, CardOK
<1>3. ASSUME NEW q \in Request, CallTool(w, q) PROVE Formed'
  <2> DEFINE h        == hand[w]
             replayed == h.replay # {}
             rules    == IF h.rules = NoRules THEN rule ELSE h.rules
             plan     == Plan(rules[ToolOf[q]], ToolOf[q])
             kept     == Keyed(rules[ToolOf[q]], ToolOf[q])
             stage    == IF ~kept THEN "performing"
                         ELSE IF effect[q].status = "none" THEN "creating"
                         ELSE AfterRecord(plan, effect[q])
             replay   == h.replay \ {q}
             next     == IF stage = "idle" THEN Idle(h.fence, replay, rules)
                         ELSE [at |-> stage, fence |-> h.fence, replay |-> replay,
                               rules |-> rules, q |-> q, seen |-> effect[q],
                               kept |-> kept, replayed |-> replayed]
  <2>1. hand' = [hand EXCEPT ![w] = next]
        /\ UNCHANGED <<run, effect, rows, rule, ran, granted, asked, spent>>
    BY <1>3 DEF CallTool
  <2>2. h.fence \in Nat /\ replay \in SUBSET Request /\ rules \in [Tool -> Rule]
    BY <1>0 DEF Handler, GateTypeOK
  <2>3. stage \in Stage /\ effect[q] \in EffectRow
    <3>1. effect[q] \in EffectRow
      BY <1>0 DEF GateTypeOK
    <3>2. plan \in {"ask", "allow", "judge"}
      BY PlanType
    <3>3. AfterRecord(plan, effect[q]) \in {"idle", "settling", "claiming", "renewing", "judging"}
      <4> HIDE DEF plan
      <4> QED BY <3>1, <3>2, RecordStage
    <3> QED BY <3>1, <3>3 DEF Stage
  <2>4. kept \in BOOLEAN /\ (ToolOf[q] \in Consequential => kept)
    BY DEF Keyed
  <2>5. next \in Handler /\ CallOK(next)
    <3>1. CASE stage = "idle"
      <4>1. Idle(h.fence, replay, rules) \in Handler
            /\ Idle(h.fence, replay, rules).at = "idle"
        <5> HIDE DEF rules, replay
        <5>1. rules \in [Tool -> Rule] \cup {NoRules}
          BY <2>2
        <5>2. h.fence \in Nat /\ replay \in SUBSET Request
          BY <2>2
        <5> HIDE DEF h
        <5> QED BY <5>1, <5>2, IdleType
      <4> HIDE DEF stage, rules, replay
      <4> QED BY <3>1, <4>1 DEF CallOK
    <3>2. CASE stage # "idle"
      <4> HIDE DEF stage, rules, replay, kept, h
      <4>1. replayed \in BOOLEAN
        OBVIOUS
      <4> HIDE DEF replayed
      <4>2. next = [at |-> stage, fence |-> h.fence, replay |-> replay,
                    rules |-> rules, q |-> q, seen |-> effect[q],
                    kept |-> kept, replayed |-> replayed]
        BY <3>2
      <4> QED BY <2>2, <2>3, <2>4, <4>1, <4>2 DEF Handler, CallOK
    <3> QED BY <3>1, <3>2
  <2> HIDE DEF next
  <2>6. hand' \in [Worker -> Handler] /\ CallsOK'
    BY <1>0, <2>1, <2>5 DEF GateTypeOK, CallsOK
  <2> QED BY <1>0, <2>1, <2>6 DEF Formed, GateTypeOK, CardOK
<1>4. CASE Create(w)
  <2>1. hand[w].q \in Request /\ hand[w].seen \in EffectRow
    BY <1>0, <1>4 DEF Create, CallOK, Handler
  <2>2. CASE Returned(w) /\ UNCHANGED <<effect, rows>>
    <3>1. hand' \in [Worker -> Handler] /\ CallsOK'
      BY <1>0, <2>2, ReturnedCalls
    <3> QED BY <1>0, <1>4, <2>2, <3>1 DEF Create, Formed, GateTypeOK, CardOK
  <2>3. CASE ~(Returned(w) /\ UNCHANGED <<effect, rows>>)
    <3> DEFINE plan == Plan(hand[w].rules[ToolOf[hand[w].q]], ToolOf[hand[w].q])
    <3>1. /\ effect' = [effect EXCEPT ![hand[w].q] =
                 [status |-> "intended", verdict |-> "none", place |-> rows + 1]]
          /\ rows' = rows + 1
          /\ Goes(w, AfterRecord(plan, hand[w].seen))
          /\ UNCHANGED <<run, rule, ran, granted, asked, spent>>
      BY <1>4, <2>3 DEF Create
    <3>2. effect' \in [Request -> EffectRow] /\ rows' \in Nat
      <4>1. rows \in Nat /\ effect \in [Request -> EffectRow]
        BY <1>0 DEF GateTypeOK
      <4>2. effect' \in [Request -> EffectRow]
        BY <2>1, <3>1, <4>1, CreateUpdate
      <4> QED BY <3>1, <4>1, <4>2
    <3>3. plan \in {"ask", "allow", "judge"}
      BY PlanType
    <3> HIDE DEF plan
    <3>4. AfterRecord(plan, hand[w].seen) \in Stage
      BY <2>1, <3>3, RecordStage DEF Stage
    <3>5. hand' \in [Worker -> Handler] /\ CallsOK'
      BY <1>0, <1>4, <3>1, <3>4, GoesCalls DEF Create
    <3> QED BY <1>0, <3>1, <3>2, <3>5 DEF Formed, GateTypeOK, CardOK
  <2> QED BY <2>2, <2>3
<1>5. ASSUME NEW v \in {"pass", "ask", "error"}, Judge(w, v) PROVE Formed'
  <2> DEFINE stage == Branch(hand[w].seen.status, IF v = "pass" THEN "allow" ELSE "ask")
  <2>1. hand[w].q \in Request /\ hand[w].seen.status \in EffectStatus
    BY <1>0, <1>5 DEF Judge, CallOK, Handler, EffectRow
  <2>2. effect' \in [Request -> EffectRow]
    BY <1>0, <1>5, <2>1, VerdictUpdate DEF Judge, GateTypeOK, Verdict
  <2>3. stage \in Stage
    BY <2>1, BranchStage DEF Stage
  <2>4. hand' \in [Worker -> Handler] /\ CallsOK'
    BY <1>0, <1>5, <2>3, GoesCalls, ReturnedCalls DEF Judge
  <2> QED BY <1>0, <1>5, <2>2, <2>4 DEF Judge, Formed, GateTypeOK, CardOK
<1>6. CASE Renew(w)
  <2>1. hand' \in [Worker -> Handler] /\ CallsOK'
    BY <1>0, <1>6, GoesCalls, LeftCalls DEF Renew, Stage
  <2> QED BY <1>0, <1>6, <2>1 DEF Renew, Formed, GateTypeOK, CardOK
<1>7. CASE Pause(w)
  <2>1. hand[w].q \in Request
    BY <1>0, <1>7 DEF Pause, CallOK
  <2>2. hand' \in [Worker -> Handler] /\ CallsOK'
    BY <1>0, <1>7, ReturnedCalls, LeftCalls DEF Pause
  <2>3. run' \in [status : RunStatus, fence : Nat, card : Request \cup {NoRequest}] /\ CardOK'
    BY <1>0, <1>7, <2>1 DEF Pause, GateTypeOK, CardOK, RunStatus
  <2> QED BY <1>0, <1>7, <2>1, <2>2, <2>3 DEF Pause, Formed, GateTypeOK
<1>8. CASE Claim(w)
  <2>1. hand[w].q \in Request
    BY <1>0, <1>8 DEF Claim, CallOK
  <2>2. hand' \in [Worker -> Handler] /\ CallsOK'
    BY <1>0, <1>8, GoesCalls DEF Claim, Stage
  <2>3. effect' \in [Request -> EffectRow]
    BY <1>0, <1>8, <2>1, EffectUpdate DEF Claim, GateTypeOK, EffectStatus
  <2> QED BY <1>0, <1>8, <2>2, <2>3 DEF Claim, Formed, GateTypeOK, CardOK
<1>9. CASE Refused(w)
  <2>1. hand' \in [Worker -> Handler] /\ CallsOK'
    BY <1>0, <1>9, GoesCalls, ReturnedCalls DEF Refused, Stage
  <2> QED BY <1>0, <1>9, <2>1 DEF Refused, Formed, GateTypeOK, CardOK
<1>10. CASE Settle(w)
  <2>1. hand[w].q \in Request
    BY <1>0, <1>10 DEF Settle, CallOK
  <2>2. hand' \in [Worker -> Handler] /\ CallsOK'
    BY <1>0, <1>10, ReturnedCalls DEF Settle
  <2>3. effect' \in [Request -> EffectRow]
    BY <1>0, <1>10, <2>1, EffectUpdate DEF Settle, SettledAs, GateTypeOK, EffectStatus
  <2> QED BY <1>0, <1>10, <2>2, <2>3 DEF Settle, Formed, GateTypeOK, CardOK
<1>11. CASE Perform(w)
  <2>1. hand' \in [Worker -> Handler] /\ CallsOK'
    BY <1>0, <1>11, GoesCalls DEF Perform, Stage
  <2>2. ran' \in [Request -> Nat]
    BY <1>0, <1>11 DEF Perform, GateTypeOK, CallOK
  <2> QED BY <1>0, <1>11, <2>1, <2>2 DEF Perform, Formed, GateTypeOK, CardOK
<1>12. CASE Record(w)
  <2>1. hand[w].q \in Request
    BY <1>0, <1>12 DEF Record, CallOK
  <2>2. hand' \in [Worker -> Handler] /\ CallsOK'
    BY <1>0, <1>12, ReturnedCalls DEF Record
  <2>3. effect' \in [Request -> EffectRow]
    BY <1>0, <1>12, <2>1, EffectUpdate DEF Record, SettledAs, GateTypeOK, EffectStatus
  <2> QED BY <1>0, <1>12, <2>2, <2>3 DEF Record, Formed, GateTypeOK, CardOK
<1>13. CASE Complete(w) \/ Fail(w)
  <2>1. hand' \in [Worker -> Handler] /\ CallsOK'
    BY <1>0, <1>13, LeftCalls DEF Complete, Fail
  <2>2. run' \in [status : RunStatus, fence : Nat, card : Request \cup {NoRequest}] /\ CardOK'
    BY <1>0, <1>13 DEF Complete, Fail, GateTypeOK, CardOK, RunStatus
  <2> QED BY <1>0, <1>13, <2>1, <2>2 DEF Complete, Fail, Formed, GateTypeOK
<1>14. CASE Crash(w)
  <2>1. hand' \in [Worker -> Handler] /\ CallsOK'
    BY <1>0, <1>14, LeftCalls DEF Crash
  <2> QED BY <1>0, <1>14, <2>1 DEF Crash, Formed, GateTypeOK, CardOK
<1> QED
  BY <1>1, <1>2, <1>3, <1>4, <1>5, <1>6, <1>7, <1>8, <1>9, <1>10, <1>11, <1>12, <1>13, <1>14
  DEF HandlerStep

LEMMA FormedUser ==
    ASSUME Formed, UserStep
    PROVE  Formed'
<1> USE GateAssumption
<1>0. GateTypeOK /\ CallsOK /\ CardOK
  BY DEF Formed
<1>1. ASSUME NEW answer \in {"allow", "always", "deny"}, Answer(answer) PROVE Formed'
  <2> DEFINE q == run.card
  <2>1. q \in Request
    BY <1>0, <1>1 DEF Answer, CardOK
  <2>2. effect' \in [Request -> EffectRow]
    BY <1>0, <1>1, <2>1, EffectUpdate DEF Answer, AnswerStatus, GateTypeOK, EffectStatus
  <2>3. rule' \in [Tool -> Rule]
    <3>1. \A r \in Rule : AfterAlways(r) \in Rule
      BY DEF AfterAlways, Rule
    <3>2. ToolOf[q] \in Tool /\ rule[ToolOf[q]] \in Rule
      BY <1>0, <2>1 DEF GateTypeOK
    <3>3. rule' = rule \/ rule' = [rule EXCEPT ![ToolOf[q]] = AfterAlways(rule[ToolOf[q]])]
      BY <1>1 DEF Answer
    <3> HIDE DEF q
    <3> QED BY <1>0, <3>1, <3>2, <3>3 DEF GateTypeOK
  <2>4. run' \in [status : RunStatus, fence : Nat, card : Request \cup {NoRequest}] /\ CardOK'
    <3>1. run' = [run EXCEPT !.status = "queued", !.card = NoRequest]
      BY <1>1 DEF Answer
    <3>2. run' = [status |-> "queued", fence |-> run.fence, card |-> NoRequest]
      BY <1>0, <3>1 DEF GateTypeOK
    <3> QED BY <1>0, <3>2 DEF GateTypeOK, CardOK, RunStatus
  <2>5. granted' \subseteq Request
    BY <1>0, <1>1, <2>1 DEF Answer, GateTypeOK
  <2> QED BY <1>0, <1>1, <2>2, <2>3, <2>4, <2>5 DEF Answer, Formed, GateTypeOK, CallsOK
<1>2. CASE Stop
  <2>1. run' = [run EXCEPT !.status = "cancelled", !.card = NoRequest]
    BY <1>2 DEF Stop
  <2>2. run' = [status |-> "cancelled", fence |-> run.fence, card |-> NoRequest]
    BY <1>0, <2>1 DEF GateTypeOK
  <2> QED BY <1>0, <1>2, <2>2 DEF Stop, Formed, GateTypeOK, CardOK, CallsOK, RunStatus
<1>3. ASSUME NEW t \in Tool, NEW r \in Rule, EditRules(t, r) PROVE Formed'
  <2>1. rule' \in [Tool -> Rule]
    BY <1>0, <1>3 DEF EditRules, GateTypeOK
  <2>2. spent' \in [stalls : Nat, edits : Nat]
    BY <1>0, <1>3 DEF EditRules, GateTypeOK
  <2> QED BY <1>0, <1>3, <2>1, <2>2 DEF EditRules, Formed, GateTypeOK, CardOK, CallsOK
<1> QED BY <1>1, <1>2, <1>3 DEF UserStep

-----------------------------------------------------------------------------
(* The claim counts.                                                        *)

Counts == RanOnce /\ PerformersClaimed /\ OnePerformer

\* A step that performs nothing, claims nothing and takes no row out of its claimed
\* statuses keeps the counts.
LEMMA QuietStep ==
    ASSUME Counts, ran' = ran,
           \A q \in Request : effect[q].status \in Claimed => effect'[q].status \in Claimed,
           \A v \in Worker, q \in Request : Performing(v, q)' => Performing(v, q)
    PROVE  Counts'
<1>1. RanOnce'
  BY DEF Counts, RanOnce
<1>2. PerformersClaimed'
  BY DEF Counts, PerformersClaimed
<1>3. OnePerformer'
  BY DEF Counts, OnePerformer
<1> QED BY <1>1, <1>2, <1>3 DEF Counts

\* A handler that goes to another stage than performing, or rests, performs nothing.
LEMMA GoesQuiet ==
    ASSUME NEW w \in Worker, NEW stage \in Stage, stage # "performing",
           hand \in [Worker -> Handler], Goes(w, stage)
    PROVE  \A v \in Worker, q \in Request : Performing(v, q)' => Performing(v, q)
  BY GoesEffect DEF Performing

LEMMA ReturnedQuiet ==
    ASSUME NEW w \in Worker, hand \in [Worker -> Handler], Returned(w)
    PROVE  \A v \in Worker, q \in Request : Performing(v, q)' => Performing(v, q)
  BY ReturnedEffect DEF Performing

LEMMA LeftQuiet ==
    ASSUME NEW w \in Worker, hand \in [Worker -> Handler], hand' = [hand EXCEPT ![w] = Out]
    PROVE  \A v \in Worker, q \in Request : Performing(v, q)' => Performing(v, q)
  BY OutType DEF Performing

\* The claim itself: the row was not claimed, so nobody performs it and, when it is
\* consequential, it has not happened.
LEMMA ClaimCounts ==
    ASSUME NEW w \in Worker, Formed, Counts, Claim(w)
    PROVE  Counts'
<1> DEFINE p == hand[w].q
<1>0. /\ hand \in [Worker -> Handler] /\ effect \in [Request -> EffectRow]
      /\ ran \in [Request -> Nat] /\ ran' = ran /\ hand[w].at = "claiming"
  BY DEF Formed, GateTypeOK, Claim
<1>1. p \in Request
  BY <1>0 DEF Formed, CallsOK, CallOK
<1>2. CASE ~ClaimSucceeds(hand[w])
  <2>1. Goes(w, "refused") /\ effect' = effect
    BY <1>2 DEF Claim
  <2>2. \A v \in Worker, q \in Request : Performing(v, q)' => Performing(v, q)
    BY <1>0, <2>1, GoesQuiet DEF Stage
  <2> QED BY <1>0, <2>1, <2>2, QuietStep
<1>3. CASE ClaimSucceeds(hand[w])
  <2>1. Goes(w, "performing") /\ effect' = [effect EXCEPT ![p].status = "executing"]
    BY <1>3 DEF Claim
  <2>2. effect[p].status \notin Claimed
    BY <1>3 DEF ClaimSucceeds, ClaimFrom, Claimed
  <2>3. /\ \A q \in Request \ {p} : effect'[q] = effect[q]
        /\ effect'[p].status = "executing"
    BY <1>0, <1>1, <2>1 DEF EffectRow
  <2>4. \A v \in Worker : ~Performing(v, p)
    BY <1>1, <2>2 DEF Counts, PerformersClaimed
  <2>5. /\ hand'[w].q = p
        /\ \A v \in Worker \ {w}, q \in Request : Performing(v, q)' <=> Performing(v, q)
    BY <1>0, <2>1, GoesEffect DEF Performing, Stage
  <2>6. ToolOf[p] \in Consequential => ran[p] = 0
    BY <1>0, <1>1, <2>2 DEF Counts, RanOnce
  <2>7. RanOnce'
    BY <1>0, <1>1, <2>3 DEF Counts, RanOnce, Claimed
  <2>8. PerformersClaimed'
    <3> SUFFICES ASSUME NEW v \in Worker, NEW q \in Request, Performing(v, q)'
                 PROVE  /\ effect'[q].status \in Claimed
                        /\ ToolOf[q] \in Consequential => ran'[q] = 0
      BY DEF PerformersClaimed
    <3>1. CASE v = w
      <4>1. q = p
        BY <2>5, <3>1 DEF Performing
      <4> QED BY <1>0, <2>3, <2>6, <4>1 DEF Claimed
    <3>2. CASE v # w
      <4>1. Performing(v, q)
        BY <2>5, <3>2
      <4>2. q # p
        BY <2>4, <4>1
      <4> QED BY <1>0, <2>3, <4>1, <4>2 DEF Counts, PerformersClaimed
    <3> QED BY <3>1, <3>2
  <2>9. OnePerformer'
    <3> SUFFICES ASSUME NEW u \in Worker, NEW v \in Worker, NEW q \in Request,
                        Performing(u, q)', Performing(v, q)'
                 PROVE  u = v
      BY DEF OnePerformer
    <3>1. CASE u # w /\ v # w
      BY <2>5, <3>1 DEF Counts, OnePerformer
    <3>2. CASE u = w \/ v = w
      <4>1. q = p
        BY <2>5, <3>2 DEF Performing
      <4> QED BY <1>1, <2>4, <2>5, <4>1
    <3> QED BY <3>1, <3>2
  <2> QED BY <2>7, <2>8, <2>9 DEF Counts
<1> QED BY <1>2, <1>3

\* The side effect: its performer is the only one, and it had not happened.
LEMMA PerformCounts ==
    ASSUME NEW w \in Worker, Formed, Counts, Perform(w)
    PROVE  Counts'
<1> DEFINE p == hand[w].q
<1>0. /\ hand \in [Worker -> Handler] /\ effect' = effect
      /\ ran \in [Request -> Nat] /\ hand[w].at = "performing" /\ Goes(w, "recording")
      /\ CallOK(hand[w])
  BY DEF Formed, GateTypeOK, CallsOK, Perform
<1>1. p \in Request /\ (ToolOf[p] \in Consequential => hand[w].kept)
  BY <1>0 DEF CallOK
<1>2. /\ \A v \in Worker, q \in Request : Performing(v, q)' => Performing(v, q) /\ v # w
  BY <1>0, GoesEffect DEF Performing, Stage
<1>3. /\ \A q \in Request \ {p} : ran'[q] = ran[q]
      /\ ran'[p] \in {ran[p], ran[p] + 1}
  BY <1>0, <1>1 DEF Perform
<1>4. ToolOf[p] \in Consequential => ran[p] = 0 /\ effect[p].status \in Claimed
  BY <1>0, <1>1 DEF Counts, PerformersClaimed, Performing
<1>5. RanOnce'
  BY <1>0, <1>1, <1>3, <1>4 DEF Counts, RanOnce
<1>6. \A v \in Worker, q \in Request :
          Performing(v, q)' /\ q = p => ToolOf[q] \notin Consequential
  <2> SUFFICES ASSUME NEW v \in Worker, NEW q \in Request, Performing(v, q)', q = p,
                      ToolOf[q] \in Consequential
               PROVE  FALSE
    OBVIOUS
  <2>1. Performing(v, q) /\ v # w
    BY <1>2
  <2>2. Performing(w, q)
    BY <1>0, <1>1 DEF Performing
  <2> QED BY <2>1, <2>2 DEF Counts, OnePerformer
<1>7. PerformersClaimed'
  <2> SUFFICES ASSUME NEW v \in Worker, NEW q \in Request, Performing(v, q)'
               PROVE  /\ effect'[q].status \in Claimed
                      /\ ToolOf[q] \in Consequential => ran'[q] = 0
    BY DEF PerformersClaimed
  <2>1. effect[q].status \in Claimed /\ (ToolOf[q] \in Consequential => ran[q] = 0)
    BY <1>2 DEF Counts, PerformersClaimed
  <2> QED BY <1>0, <1>3, <1>6, <2>1
<1>8. OnePerformer'
  BY <1>2 DEF Counts, OnePerformer
<1> QED BY <1>5, <1>7, <1>8 DEF Counts

LEMMA CountsInit == Init => Counts
<1> SUFFICES ASSUME Init PROVE Counts
  OBVIOUS
<1>1. \A w \in Worker, q \in Request : ~Performing(w, q)
  BY OutType DEF Init, Performing
<1> QED BY <1>1 DEF Init, Counts, RanOnce, PerformersClaimed, OnePerformer

LEMMA CountsHandler ==
    ASSUME NEW w \in Worker, Formed, Counts, HandlerStep(w)
    PROVE  Counts'
<1> DEFINE Quiet == \A v \in Worker, q \in Request : Performing(v, q)' => Performing(v, q)
           Kept  == \A q \in Request :
                        effect[q].status \in Claimed => effect'[q].status \in Claimed
<1>0. /\ hand \in [Worker -> Handler] /\ effect \in [Request -> EffectRow]
      /\ run.fence \in Nat /\ hand[w] \in Handler /\ CallOK(hand[w])
  BY DEF Formed, GateTypeOK, CallsOK
<1>1. CASE Lease(w)
  <2>1. Quiet
    <3>1. run.fence + 1 \in Nat
      BY <1>0
    <3>2. [Idle(run.fence + 1, {}, NoRules) EXCEPT !.at = "starting"].at = "starting"
      BY <3>1, StartingType
    <3> QED BY <1>0, <1>1, <3>2 DEF Lease, Performing
  <2> QED BY <1>1, <2>1, QuietStep DEF Lease
<1>2. CASE LoadApproved(w)
  <2>1. Quiet
    BY <1>0, <1>2 DEF LoadApproved, Performing, Idle
  <2> QED BY <1>2, <2>1, QuietStep DEF LoadApproved
<1>3. ASSUME NEW q \in Request, CallTool(w, q) PROVE Counts'
  <2>1. hand'[w].at = "performing" => ~hand'[w].kept
    <3> DEFINE rules == IF hand[w].rules = NoRules THEN rule ELSE hand[w].rules
               plan  == Plan(rules[ToolOf[q]], ToolOf[q])
               kept  == Keyed(rules[ToolOf[q]], ToolOf[q])
               gate  == IF effect[q].status = "none" THEN "creating"
                        ELSE AfterRecord(plan, effect[q])
    <3>1. plan \in {"ask", "allow", "judge"}
      BY PlanType
    <3>2. gate # "performing"
      <4> HIDE DEF plan
      <4> QED BY <1>0, <3>1, RecordStage
    <3>3. hand'[w].at = "idle" \/ hand'[w].kept = kept
      BY <1>0, <1>3 DEF CallTool, Idle
    <3>4. hand'[w].at \in {"idle", IF ~kept THEN "performing" ELSE gate}
      BY <1>0, <1>3 DEF CallTool, Idle
    <3> HIDE DEF kept, gate
    <3> QED BY <3>2, <3>3, <3>4
  <2>2. \A v \in Worker \ {w} : hand'[v] = hand[v]
    BY <1>0, <1>3 DEF CallTool
  <2>3. \A v \in Worker, p \in Request : Performing(v, p)' => Performing(v, p)
    BY <2>1, <2>2 DEF Performing
  <2> QED BY <1>3, <2>3, QuietStep DEF CallTool
<1>4. CASE Create(w)
  <2>1. hand[w].q \in Request /\ hand[w].seen \in EffectRow
    BY <1>0, <1>4 DEF Create, CallOK, Handler
  <2>2. Quiet
    <3> DEFINE plan == Plan(hand[w].rules[ToolOf[hand[w].q]], ToolOf[hand[w].q])
    <3>1. Returned(w) \/ Goes(w, AfterRecord(plan, hand[w].seen))
      BY <1>4 DEF Create
    <3>2. plan \in {"ask", "allow", "judge"}
      BY PlanType
    <3> HIDE DEF plan
    <3>3. AfterRecord(plan, hand[w].seen) \in Stage \ {"performing"}
      BY <2>1, <3>2, RecordStage DEF Stage
    <3> QED BY <1>0, <3>1, <3>3, GoesQuiet, ReturnedQuiet
  <2>3. Kept
    BY <1>0, <1>4, <2>1 DEF Create, Claimed
  <2> QED BY <1>4, <2>2, <2>3, QuietStep DEF Create
<1>5. ASSUME NEW v \in {"pass", "ask", "error"}, Judge(w, v) PROVE Counts'
  <2> DEFINE stage == Branch(hand[w].seen.status, IF v = "pass" THEN "allow" ELSE "ask")
  <2>1. hand[w].q \in Request /\ hand[w].seen.status \in EffectStatus
    BY <1>0, <1>5 DEF Judge, CallOK, Handler, EffectRow
  <2>2. stage \in Stage /\ stage # "performing"
    BY <2>1, BranchStage DEF Stage
  <2>3. Quiet
    <3>1. Goes(w, stage) \/ Returned(w)
      BY <1>5 DEF Judge
    <3> HIDE DEF stage
    <3> QED BY <1>0, <2>2, <3>1, GoesQuiet, ReturnedQuiet
  <2>4. Kept
    BY <1>0, <1>5, <2>1, VerdictUpdate DEF Judge, Verdict
  <2> QED BY <1>5, <2>3, <2>4, QuietStep DEF Judge
<1>6. CASE Renew(w)
  <2>1. Quiet
    BY <1>0, <1>6, GoesQuiet, LeftQuiet DEF Renew, Stage
  <2> QED BY <1>6, <2>1, QuietStep DEF Renew
<1>7. CASE Pause(w)
  <2>1. Quiet
    BY <1>0, <1>7, ReturnedQuiet, LeftQuiet DEF Pause
  <2> QED BY <1>7, <2>1, QuietStep DEF Pause
<1>8. CASE Claim(w)
  BY <1>8, ClaimCounts
<1>9. CASE Refused(w)
  <2>1. Quiet
    BY <1>0, <1>9, GoesQuiet, ReturnedQuiet DEF Refused, Stage
  <2> QED BY <1>9, <2>1, QuietStep DEF Refused
<1>10. CASE Settle(w) \/ Record(w)
  <2>1. Quiet
    BY <1>0, <1>10, ReturnedQuiet DEF Settle, Record
  <2>2. hand[w].q \in Request
    BY <1>0, <1>10 DEF Settle, Record, CallOK
  <2>3. Kept
    BY <1>0, <1>10, <2>2 DEF Settle, Record, SettledAs, Claimed, EffectRow
  <2> QED BY <1>10, <2>1, <2>3, QuietStep DEF Settle, Record
<1>11. CASE Perform(w)
  BY <1>11, PerformCounts
<1>12. CASE Complete(w) \/ Fail(w) \/ Crash(w)
  <2>1. Quiet
    BY <1>0, <1>12, LeftQuiet DEF Complete, Fail, Crash
  <2> QED BY <1>12, <2>1, QuietStep DEF Complete, Fail, Crash
<1> QED
  BY <1>1, <1>2, <1>3, <1>4, <1>5, <1>6, <1>7, <1>8, <1>9, <1>10, <1>11, <1>12
  DEF HandlerStep

LEMMA CountsUser ==
    ASSUME Formed, Counts, UserStep
    PROVE  Counts'
<1>0. effect \in [Request -> EffectRow]
  BY DEF Formed, GateTypeOK
<1>1. ran' = ran /\ hand' = hand
  BY DEF UserStep, Answer, Stop, EditRules
<1>2. \A q \in Request : effect[q].status \in Claimed => effect'[q].status \in Claimed
  <2>1. ASSUME NEW answer \in {"allow", "always", "deny"}, Answer(answer)
        PROVE  \A q \in Request : effect[q].status \in Claimed => effect'[q].status \in Claimed
    BY <1>0, <2>1 DEF Answer, Answerable, Claimed, EffectRow
  <2> QED BY <2>1 DEF UserStep, Stop, EditRules
<1>3. \A v \in Worker, q \in Request : Performing(v, q)' => Performing(v, q)
  BY <1>1 DEF Performing
<1> QED BY <1>1, <1>2, <1>3, QuietStep

-----------------------------------------------------------------------------
(* How the status of a row moves.                                           *)

\* The moves of a status the code makes, each by an update that names the status before.
StatusMove(old, new) ==
    \/ new = old
    \/ old = "none" /\ new = "intended"
    \/ old = "intended" /\ new \in {"approved", "denied"}
    \/ old \in {"intended", "approved"} /\ new = "executing"
    \/ old = "executing" /\ new \in {"completed", "uncertain"}

\* An update of the status of q moves the status of no other row.
LEMMA StatusUpdate ==
    ASSUME NEW q \in Request, NEW st, effect \in [Request -> EffectRow],
           effect' = [effect EXCEPT ![q].status = st], StatusMove(effect[q].status, st)
    PROVE  \A p \in Request : StatusMove(effect[p].status, effect'[p].status)
<1>1. \A p \in Request \ {q} : effect'[p] = effect[p]
  OBVIOUS
<1>2. effect'[q].status = st
  BY DEF EffectRow
<1> QED BY <1>1, <1>2 DEF StatusMove

\* Every step of the gate, of the handlers and of the user moves statuses only so.
LEMMA StatusesMove ==
    ASSUME Formed, [Next]_vars
    PROVE  \A q \in Request : StatusMove(effect[q].status, effect'[q].status)
<1>0. effect \in [Request -> EffectRow] /\ \A w \in Worker : CallOK(hand[w])
  BY DEF Formed, GateTypeOK, CallsOK
<1>1. CASE UNCHANGED effect
  BY <1>1 DEF StatusMove
<1>2. ASSUME NEW w \in Worker, Create(w)
      PROVE  \A q \in Request : StatusMove(effect[q].status, effect'[q].status)
  <2>1. hand[w].q \in Request /\ rows \in Nat
    BY <1>0, <1>2 DEF Create, CallOK, Formed, GateTypeOK
  <2>2. CASE effect' = [effect EXCEPT ![hand[w].q] =
                 [status |-> "intended", verdict |-> "none", place |-> rows + 1]]
             /\ effect[hand[w].q].status = "none"
    BY <1>0, <2>1, <2>2, CreateUpdate DEF StatusMove
  <2> QED BY <1>1, <1>2, <2>2 DEF Create
<1>3. ASSUME NEW w \in Worker, NEW v \in {"pass", "ask", "error"}, Judge(w, v)
      PROVE  \A q \in Request : StatusMove(effect[q].status, effect'[q].status)
  <2>1. hand[w].q \in Request
    BY <1>0, <1>3 DEF Judge, CallOK
  <2> QED BY <1>0, <1>3, <2>1, VerdictUpdate DEF Judge, Verdict, StatusMove
<1>4. ASSUME NEW w \in Worker, Claim(w) \/ Settle(w) \/ Record(w)
      PROVE  \A q \in Request : StatusMove(effect[q].status, effect'[q].status)
  <2>1. hand[w].q \in Request
    BY <1>0, <1>4 DEF Claim, Settle, Record, CallOK
  <2>2. CASE Claim(w)
    BY <1>0, <1>1, <2>1, <2>2, StatusUpdate DEF Claim, ClaimSucceeds, ClaimFrom, StatusMove
  <2>3. CASE Settle(w)
    BY <1>0, <1>1, <2>1, <2>3, StatusUpdate DEF Settle, SettledAs, StatusMove
  <2>4. CASE Record(w)
    BY <1>0, <1>1, <2>1, <2>4, StatusUpdate DEF Record, RecordSucceeds, StatusMove
  <2> QED BY <1>4, <2>2, <2>3, <2>4
<1>5. ASSUME NEW answer \in {"allow", "always", "deny"}, Answer(answer)
      PROVE  \A q \in Request : StatusMove(effect[q].status, effect'[q].status)
  <2>1. run.card \in Request
    BY <1>5 DEF Answer, Formed, CardOK
  <2> QED BY <1>0, <1>5, <2>1, StatusUpdate DEF Answer, Answerable, AnswerStatus, StatusMove
<1>6. ASSUME NEW w \in Worker,
             \/ Lease(w) \/ LoadApproved(w) \/ Renew(w) \/ Pause(w) \/ Refused(w) \/ Perform(w)
             \/ Complete(w) \/ Fail(w) \/ Crash(w)
             \/ \E q \in Request : CallTool(w, q)
      PROVE  UNCHANGED effect
  BY <1>6 DEF Lease, LoadApproved, Renew, Pause, Refused, Perform, Complete, Fail, Crash, CallTool
<1>7. CASE UserStep
  BY <1>1, <1>5, <1>7 DEF UserStep, Stop, EditRules
<1>8. ASSUME NEW w \in Worker, HandlerStep(w)
      PROVE  \A q \in Request : StatusMove(effect[q].status, effect'[q].status)
  BY <1>1, <1>2, <1>3, <1>4, <1>6, <1>8 DEF HandlerStep
<1>9. CASE UNCHANGED vars
  BY <1>1, <1>9 DEF vars
<1> QED BY <1>7, <1>8, <1>9 DEF Next

\* Worker w has performed the side effect of q and has yet to record it.
Recording(w, q) == hand[w].at = "recording" /\ hand[w].q = q /\ hand[w].kept

\* A row whose side effect is about to be recorded is claimed.
RecordersClaimed ==
    \A w \in Worker, q \in Request : Recording(w, q) => effect[q].status \in Claimed

\* A handler comes to record what it performed, and nothing else.
LEMMA RecordersPerformed ==
    ASSUME Formed, [Next]_vars, NEW w \in Worker, NEW q \in Request, Recording(w, q)'
    PROVE  Recording(w, q) \/ Performing(w, q)
<1>0. hand \in [Worker -> Handler] /\ \A v \in Worker : hand[v] \in Handler /\ CallOK(hand[v])
  BY DEF Formed, GateTypeOK, CallsOK
<1>1. ASSUME NEW v \in Worker, v # w, HandlerStep(v) PROVE Recording(w, q)
  <2>1. hand'[w] = hand[w]
    BY <1>0, <1>1 DEF HandlerStep, Lease, LoadApproved, Create, Renew, Pause, Claim, Refused,
       Settle, Perform, Record, Complete, Fail, Crash, CallTool, Judge, Goes, Returned
  <2> QED BY <2>1 DEF Recording
<1>2. CASE HandlerStep(w)
  <2>1. hand[w].q \in Request \cup {NoRequest} /\ hand[w].seen \in EffectRow
        /\ hand[w].seen.status \in EffectStatus
    BY <1>0 DEF Handler, EffectRow
  <2>2. ASSUME NEW stage \in Stage \ {"recording"}, Goes(w, stage) PROVE FALSE
    BY <1>0, <2>2, GoesEffect DEF Recording
  <2>3. ASSUME Returned(w) PROVE FALSE
    BY <1>0, <2>3, ReturnedEffect DEF Recording
  <2>4. ASSUME hand' = [hand EXCEPT ![w] = Out] PROVE FALSE
    BY <1>0, <2>4, OutType DEF Recording
  <2>5. CASE Perform(w)
    BY <1>0, <2>5, GoesEffect DEF Perform, Recording, Performing, Stage
  <2>6. ASSUME Lease(w) PROVE FALSE
    <3>1. run.fence + 1 \in Nat
      BY DEF Formed, GateTypeOK
    <3>2. [Idle(run.fence + 1, {}, NoRules) EXCEPT !.at = "starting"].at = "starting"
      BY <3>1, StartingType
    <3> QED BY <1>0, <2>6, <3>2 DEF Lease, Recording
  <2>7. ASSUME LoadApproved(w) PROVE FALSE
    BY <1>0, <2>7 DEF LoadApproved, Recording, Idle
  <2>8. ASSUME Create(w) PROVE FALSE
    <3> DEFINE plan == Plan(hand[w].rules[ToolOf[hand[w].q]], ToolOf[hand[w].q])
    <3>1. Returned(w) \/ Goes(w, AfterRecord(plan, hand[w].seen))
      BY <2>8 DEF Create
    <3>2. plan \in {"ask", "allow", "judge"}
      BY PlanType
    <3> HIDE DEF plan
    <3>3. AfterRecord(plan, hand[w].seen) \in Stage \ {"recording"}
      BY <2>1, <3>2, RecordStage DEF Stage
    <3> QED BY <2>2, <2>3, <3>1, <3>3
  <2>9. ASSUME NEW v \in {"pass", "ask", "error"}, Judge(w, v) PROVE FALSE
    <3> DEFINE stage == Branch(hand[w].seen.status, IF v = "pass" THEN "allow" ELSE "ask")
    <3>1. stage \in Stage \ {"recording"}
      BY <2>1, BranchStage DEF Stage
    <3>2. Goes(w, stage) \/ Returned(w)
      BY <2>9 DEF Judge
    <3> HIDE DEF stage
    <3> QED BY <2>2, <2>3, <3>1, <3>2
  <2>10. ASSUME NEW p \in Request, CallTool(w, p) PROVE FALSE
    <3> DEFINE rules == IF hand[w].rules = NoRules THEN rule ELSE hand[w].rules
               plan  == Plan(rules[ToolOf[p]], ToolOf[p])
               kept  == Keyed(rules[ToolOf[p]], ToolOf[p])
               gate  == IF effect[p].status = "none" THEN "creating"
                        ELSE AfterRecord(plan, effect[p])
    <3>1. plan \in {"ask", "allow", "judge"} /\ effect[p] \in EffectRow
      BY PlanType DEF Formed, GateTypeOK
    <3>2. gate # "recording"
      <4> HIDE DEF plan
      <4> QED BY <3>1, RecordStage
    <3>3. hand'[w].at \in {"idle", IF ~kept THEN "performing" ELSE gate}
      BY <1>0, <2>10 DEF CallTool, Idle
    <3> HIDE DEF kept, gate
    <3> QED BY <3>2, <3>3 DEF Recording
  <2>11. ASSUME Renew(w) \/ Pause(w) \/ Claim(w) \/ Refused(w) \/ Settle(w) \/ Record(w)
                \/ Complete(w) \/ Fail(w) \/ Crash(w)
         PROVE  FALSE
    BY <2>2, <2>3, <2>4, <2>11
       DEF Renew, Pause, Claim, Refused, Settle, Record, Complete, Fail, Crash, Stage
  <2> QED BY <1>2, <2>5, <2>6, <2>7, <2>8, <2>9, <2>10, <2>11 DEF HandlerStep
<1>3. CASE UserStep \/ UNCHANGED vars
  <2>1. hand' = hand
    BY <1>3 DEF UserStep, Answer, Stop, EditRules, vars
  <2> QED BY <2>1 DEF Recording
<1> QED BY <1>1, <1>2, <1>3 DEF Next

-----------------------------------------------------------------------------
(* The cards.                                                               *)

\* An approved row, a call the replay queue holds and a call it handed out all stand for
\* an answer of the user; what happened was claimed first, or replayed.
Grants ==
    /\ \A q \in Request : effect[q].status = "approved" => q \in granted
    /\ \A w \in Worker : /\ hand[w].replay \subseteq granted
                         /\ hand[w].replayed => hand[w].q \in granted
    /\ \A q \in Request : ran[q] > 0 => effect[q].status \in Claimed \/ q \in granted

\* One handler at a time, with the lease of the running run or of the one that was stopped.
Alone ==
    /\ \A w \in Worker : hand[w].at # "out" =>
           hand[w].fence = run.fence /\ run.status \in {"running", "cancelled"}
    /\ \A v, w \in Worker : hand[v].at # "out" /\ hand[w].at # "out" => v = w

\* A request that was asked about and not answered is the one on the card, or the run was
\* stopped while the card was shown.
Unanswered ==
    \A q \in asked : effect[q].status \in {"none", "intended"} =>
        \/ run.status = "waiting_input" /\ run.card = q
        \/ run.status = "cancelled" /\ \A w \in Worker : hand[w].at = "out"

\* What the row says once the call is recorded, after what the handler read of it.
Written(h) == IF h.seen.status = "none" THEN "intended" ELSE h.seen.status

\* The row is still what the handler read or wrote, and what it claimed was not on a card,
\* or was allowed.
Current(w) ==
    /\ hand[w].at = "creating" =>
           hand[w].seen.status = "none" /\ effect[hand[w].q].status = "none"
    /\ hand[w].at \in {"judging", "renewing", "pausing"} =>
           effect[hand[w].q].status = Written(hand[w])
    /\ hand[w].at \in {"renewing", "pausing"} => hand[w].seen.status \in {"none", "intended"}
    /\ hand[w].at = "performing" /\ hand[w].kept /\ hand[w].q \in asked =>
           hand[w].q \in granted

\* As long as no handler goes on with a lease that lapsed.
Cards ==
    /\ NoHandlerStalled => Alone /\ Unanswered /\ \A w \in Worker : Current(w)
    /\ CardsHold

\* Everything the cards rest on.
Gate == Formed /\ Counts /\ Grants

\* A step of a handler is no step of another one.
LEMMA OthersStay ==
    ASSUME NEW w \in Worker, NEW v \in Worker, v # w, Formed, HandlerStep(w)
    PROVE  hand'[v] = hand[v]
<1>1. hand \in [Worker -> Handler]
  BY DEF Formed, GateTypeOK
<1> QED BY <1>1 DEF HandlerStep, Lease, LoadApproved, Create, Renew, Pause, Claim, Refused,
       Settle, Perform, Record, Complete, Fail, Crash, CallTool, Judge, Goes, Returned

\* The steps that move a handler within its call, end the call or end the handler.
LEMMA HandlerWays ==
    ASSUME NEW w \in Worker, Formed, HandlerStep(w)
    PROVE  \/ Lease(w) \/ LoadApproved(w) \/ \E q \in Request : CallTool(w, q)
           \/ \E stage \in Stage : Goes(w, stage)
           \/ Returned(w)
           \/ hand' = [hand EXCEPT ![w] = Out]
<1>1. hand[w].seen \in EffectRow /\ hand[w].seen.status \in EffectStatus
  BY DEF Formed, GateTypeOK, Handler, EffectRow
<1>2. ASSUME Create(w) PROVE Returned(w) \/ \E stage \in Stage : Goes(w, stage)
  <2> DEFINE plan == Plan(hand[w].rules[ToolOf[hand[w].q]], ToolOf[hand[w].q])
  <2>1. Returned(w) \/ Goes(w, AfterRecord(plan, hand[w].seen))
    BY <1>2 DEF Create
  <2>2. plan \in {"ask", "allow", "judge"}
    BY PlanType
  <2> HIDE DEF plan
  <2>3. AfterRecord(plan, hand[w].seen) \in Stage
    BY <1>1, <2>2, RecordStage DEF Stage
  <2> QED BY <2>1, <2>3
<1>3. ASSUME NEW v \in {"pass", "ask", "error"}, Judge(w, v)
      PROVE  Returned(w) \/ \E stage \in Stage : Goes(w, stage)
  <2> DEFINE stage == Branch(hand[w].seen.status, IF v = "pass" THEN "allow" ELSE "ask")
  <2>1. Goes(w, stage) \/ Returned(w)
    BY <1>3 DEF Judge
  <2>2. stage \in Stage
    BY <1>1, BranchStage DEF Stage
  <2> HIDE DEF stage
  <2> QED BY <2>1, <2>2
<1>4. ASSUME Renew(w) \/ Pause(w) \/ Claim(w) \/ Refused(w) \/ Settle(w) \/ Perform(w)
             \/ Record(w) \/ Complete(w) \/ Fail(w) \/ Crash(w)
      PROVE  \/ \E stage \in Stage : Goes(w, stage)
             \/ Returned(w)
             \/ hand' = [hand EXCEPT ![w] = Out]
  <2>1. {"pausing", "performing", "refused", "settling", "recording"} \subseteq Stage
    BY DEF Stage
  <2> QED BY <1>4, <2>1
       DEF Renew, Pause, Claim, Refused, Settle, Perform, Record, Complete, Fail, Crash
<1> QED BY <1>2, <1>3, <1>4 DEF HandlerStep

\* A handler approves no row, and touches the row of its own call only.
LEMMA HandlerRows ==
    ASSUME NEW w \in Worker, NEW q \in Request, Formed, HandlerStep(w)
    PROVE  /\ effect'[q].status \in {effect[q].status, "intended", "executing", "completed", "uncertain"}
           /\ effect'[q].status # effect[q].status => hand[w].q = q
<1>0. effect \in [Request -> EffectRow] /\ CallOK(hand[w]) /\ hand[w] \in Handler
  BY DEF Formed, GateTypeOK, CallsOK
<1>1. CASE UNCHANGED effect
  BY <1>1
<1>2. CASE Create(w)
  <2>1. hand[w].q \in Request /\ rows \in Nat
    BY <1>0, <1>2 DEF Create, CallOK, Formed, GateTypeOK
  <2> QED BY <1>0, <1>1, <1>2, <2>1, CreateUpdate DEF Create
<1>3. ASSUME NEW v \in {"pass", "ask", "error"}, Judge(w, v)
      PROVE  effect'[q].status = effect[q].status
  <2>1. hand[w].q \in Request
    BY <1>0, <1>3 DEF Judge, CallOK
  <2> QED BY <1>0, <1>3, <2>1, VerdictUpdate DEF Judge, Verdict
<1>4. CASE Claim(w) \/ Settle(w) \/ Record(w)
  <2>1. hand[w].q \in Request
    BY <1>0, <1>4 DEF Claim, Settle, Record, CallOK
  <2>2. \A st : \A p \in Request : effect' = [effect EXCEPT ![p].status = st] =>
            effect'[q].status = IF p = q THEN st ELSE effect[q].status
    BY <1>0 DEF EffectRow
  <2>3. UNCHANGED effect \/ \E st \in {"executing", "completed", "uncertain"} :
            effect' = [effect EXCEPT ![hand[w].q].status = st]
    BY <1>4 DEF Claim, Settle, SettledAs, Record
  <2> QED BY <1>1, <2>1, <2>2, <2>3
<1>5. CASE \/ Lease(w) \/ LoadApproved(w) \/ Renew(w) \/ Pause(w) \/ Refused(w) \/ Perform(w)
           \/ Complete(w) \/ Fail(w) \/ Crash(w)
           \/ \E p \in Request : CallTool(w, p)
  BY <1>1, <1>5 DEF Lease, LoadApproved, Renew, Pause, Refused, Perform, Complete, Fail, Crash,
                    CallTool
<1> QED BY <1>2, <1>3, <1>4, <1>5 DEF HandlerStep

\* What happens in a step of a handler is its call, and only the performing stage counts.
LEMMA HandlerRan ==
    ASSUME NEW w \in Worker, NEW q \in Request, Formed, HandlerStep(w), ran'[q] # ran[q]
    PROVE  /\ hand[w].at = "performing" /\ hand[w].q = q
           /\ hand[w].kept \/ hand[w].replayed
<1>1. ran \in [Request -> Nat]
  BY DEF Formed, GateTypeOK
<1>2. Perform(w)
  BY DEF HandlerStep, Lease, LoadApproved, Create, Renew, Pause, Claim, Refused, Settle, Record,
         Complete, Fail, Crash, CallTool, Judge
<1> QED BY <1>1, <1>2 DEF Perform

\* The queue of a handler holds approved calls, and the call it handed out was one.
LEMMA ReplaysGranted ==
    ASSUME NEW w \in Worker, Formed, Grants, HandlerStep(w)
    PROVE  /\ hand'[w].replay \subseteq granted
           /\ hand'[w].replayed => hand'[w].q \in granted
<1>0. /\ hand \in [Worker -> Handler] /\ hand[w].replay \subseteq granted
      /\ hand[w].replayed => hand[w].q \in granted
  BY DEF Formed, GateTypeOK, Grants
<1>1. CASE Lease(w)
  BY <1>0, <1>1 DEF Lease, Idle
<1>2. CASE LoadApproved(w)
  <2>1. {q \in Request : effect[q].status = "approved"} \subseteq granted
    BY DEF Grants
  <2> QED BY <1>0, <1>2, <2>1 DEF LoadApproved, Idle
<1>3. ASSUME NEW q \in Request, CallTool(w, q)
      PROVE  /\ hand'[w].replay \subseteq granted
             /\ hand'[w].replayed => hand'[w].q \in granted
  <2> DEFINE replayed == hand[w].replay # {}
             replay   == hand[w].replay \ {q}
  <2>1. \E stage, rules, kept :
            hand'[w] = IF stage = "idle" THEN Idle(hand[w].fence, replay, rules)
                       ELSE [at |-> stage, fence |-> hand[w].fence, replay |-> replay,
                             rules |-> rules, q |-> q, seen |-> effect[q],
                             kept |-> kept, replayed |-> replayed]
    BY <1>0, <1>3, Zenon DEF CallTool
  <2>2. /\ hand'[w].replay = replay
        /\ hand'[w].replayed => hand'[w].q = q /\ replayed
    <3> HIDE DEF replayed, replay
    <3> QED BY <2>1 DEF Idle
  <2>3. hand[w].replay # {} => q \in hand[w].replay
    BY <1>3 DEF CallTool
  <2> QED BY <1>0, <2>1, <2>2, <2>3
<1>4. ASSUME NEW stage \in Stage, Goes(w, stage)
      PROVE  /\ hand'[w].replay \subseteq granted
             /\ hand'[w].replayed => hand'[w].q \in granted
  BY <1>0, <1>4, GoesEffect
<1>5. CASE Returned(w) \/ hand' = [hand EXCEPT ![w] = Out]
  BY <1>0, <1>5 DEF Returned, Out, Idle
<1> QED BY <1>1, <1>2, <1>3, <1>4, <1>5, HandlerWays

LEMMA GrantsHandler ==
    ASSUME NEW w \in Worker, Gate, HandlerStep(w)
    PROVE  Grants'
<1> USE DEF Gate
<1>0. granted' = granted /\ CallOK(hand[w]) /\ [Next]_vars
  BY DEF Formed, CallsOK, Next, HandlerStep, Lease, LoadApproved, Create, Renew, Pause, Claim,
         Refused, Settle, Perform, Record, Complete, Fail, Crash, CallTool, Judge
<1>1. ASSUME NEW q \in Request, effect'[q].status = "approved" PROVE q \in granted
  BY <1>1, HandlerRows DEF Grants
<1>2. ASSUME NEW v \in Worker
      PROVE  /\ hand'[v].replay \subseteq granted
             /\ hand'[v].replayed => hand'[v].q \in granted
  <2>1. CASE v = w
    BY <2>1, ReplaysGranted
  <2>2. CASE v # w
    BY <2>2, OthersStay DEF Grants
  <2> QED BY <2>1, <2>2
<1>3. ASSUME NEW q \in Request, ran'[q] > 0
      PROVE  effect'[q].status \in Claimed \/ q \in granted
  <2>1. effect[q].status \in Claimed => effect'[q].status \in Claimed
    BY <1>0, StatusesMove DEF StatusMove, Claimed
  <2>2. CASE ran'[q] = ran[q]
    BY <1>3, <2>1, <2>2 DEF Grants
  <2>3. CASE ran'[q] # ran[q]
    <3>1. hand[w].at = "performing" /\ hand[w].q = q /\ (hand[w].kept \/ hand[w].replayed)
      BY <2>3, HandlerRan
    <3>2. hand[w].kept => effect[q].status \in Claimed
      BY <3>1 DEF Counts, PerformersClaimed, Performing
    <3> QED BY <2>1, <3>1, <3>2 DEF Grants
  <2> QED BY <2>2, <2>3
<1> QED BY <1>0, <1>1, <1>2, <1>3 DEF Grants

LEMMA GrantsUser ==
    ASSUME Gate, UserStep
    PROVE  Grants'
<1> USE DEF Gate
<1>0. hand' = hand /\ ran' = ran /\ granted \subseteq granted' /\ [Next]_vars
  BY DEF UserStep, Answer, Stop, EditRules, Next
<1>1. ASSUME NEW q \in Request, effect'[q].status = "approved" PROVE q \in granted'
  <2>1. ASSUME NEW answer \in {"allow", "always", "deny"}, Answer(answer) PROVE q \in granted'
    <3>1. /\ run.card \in Request
          /\ effect' = [effect EXCEPT ![run.card].status = AnswerStatus(answer)]
          /\ granted' = IF answer = "deny" THEN granted ELSE granted \cup {run.card}
      BY <2>1 DEF Answer, Formed, CardOK
    <3>2. effect \in [Request -> EffectRow]
      BY DEF Formed, GateTypeOK
    <3>3. CASE q = run.card
      BY <1>1, <3>1, <3>2, <3>3 DEF AnswerStatus, EffectRow
    <3>4. CASE q # run.card
      <4>1. effect'[q] = effect[q]
        BY <3>1, <3>2, <3>4
      <4> QED BY <1>0, <1>1, <4>1 DEF Grants
    <3> QED BY <3>3, <3>4
  <2>2. CASE UNCHANGED effect
    BY <1>0, <1>1, <2>2 DEF Grants
  <2> QED BY <2>1, <2>2 DEF UserStep, Stop, EditRules
<1>2. \A q \in Request : effect[q].status \in Claimed => effect'[q].status \in Claimed
  BY <1>0, StatusesMove DEF StatusMove, Claimed
<1> QED BY <1>0, <1>1, <1>2 DEF Grants

\* Past its lease a handler is there before the step; it leaves the row of the run alone,
\* or changes its status and is gone.
LEMMA HandlerRuns ==
    ASSUME NEW w \in Worker, Formed, HandlerStep(w), ~Lease(w)
    PROVE  /\ hand[w].at # "out" /\ spent' = spent /\ granted' = granted
           /\ hand'[w].at = "out" \/ (run' = run /\ hand'[w].fence = hand[w].fence)
           /\ \/ run' = run /\ asked' = asked
              \/ /\ hand'[w].at = "out" /\ run'.status \in {"completed", "failed"}
                 /\ asked' = asked
              \/ /\ hand'[w].at = "out" /\ run'.status = "waiting_input"
                 /\ hand[w].at = "pausing" /\ run'.card = hand[w].q
                 /\ asked' = asked \cup {hand[w].q} /\ UNCHANGED <<effect, ran>>
<1>0. /\ hand \in [Worker -> Handler]
      /\ run \in [status : RunStatus, fence : Nat, card : Request \cup {NoRequest}]
      /\ Out.at = "out"
  BY OutType DEF Formed, GateTypeOK
<1>1. hand[w].at # "out" /\ spent' = spent /\ granted' = granted
  BY DEF HandlerStep, LoadApproved, Create, Renew, Pause, Claim, Refused, Settle, Perform, Record,
         Complete, Fail, Crash, CallTool, Judge
<1>2. \/ run' = run /\ asked' = asked
      \/ /\ hand'[w].at = "out" /\ run'.status \in {"completed", "failed"}
         /\ asked' = asked
      \/ /\ hand'[w].at = "out" /\ run'.status = "waiting_input"
         /\ hand[w].at = "pausing" /\ run'.card = hand[w].q
         /\ asked' = asked \cup {hand[w].q} /\ UNCHANGED <<effect, ran>>
  BY <1>0 DEF HandlerStep, LoadApproved, Create, Renew, Pause, Claim, Refused, Settle, Perform,
         Record, Complete, Fail, Crash, CallTool, Judge
<1>3. hand'[w].at = "out" \/ hand'[w].fence = hand[w].fence
  <2>1. ASSUME NEW stage \in Stage, Goes(w, stage) PROVE hand'[w].fence = hand[w].fence
    BY <1>0, <2>1, GoesEffect
  <2>2. CASE Returned(w) \/ LoadApproved(w) \/ \E q \in Request : CallTool(w, q)
    BY <1>0, <2>2 DEF Returned, LoadApproved, CallTool, Idle
  <2>3. CASE hand' = [hand EXCEPT ![w] = Out]
    BY <1>0, <2>3
  <2> QED BY <2>1, <2>2, <2>3, HandlerWays
<1>4. hand'[w].at = "out" \/ run' = run
  BY <1>2
<1> QED BY <1>1, <1>2, <1>3, <1>4

\* The ways a call reaches the judge or the card.
LEMMA BranchRenews ==
    ASSUME NEW seen \in EffectStatus, NEW decision \in {"ask", "allow"},
           Branch(seen, decision) = "renewing"
    PROVE  seen \in {"none", "intended"}
  BY DEF Branch, EffectStatus

LEMMA RecordRenews ==
    ASSUME NEW seen \in EffectRow, NEW plan \in {"ask", "allow", "judge"},
           AfterRecord(plan, seen) = "renewing"
    PROVE  seen.status \in {"none", "intended"}
<1>1. seen.status \in EffectStatus /\ seen.verdict \in Verdict
  BY DEF EffectRow
<1>2. \/ Branch(seen.status, "ask") = "renewing"
      \/ Branch(seen.status, "allow") = "renewing"
  BY <1>1 DEF AfterRecord, Verdict
<1> QED BY <1>1, <1>2, BranchRenews

\* A step of a handler that is alone leaves it with a row it knows.
LEMMA CurrentHandler ==
    ASSUME NEW w \in Worker, Gate, NoHandlerStalled, Alone, Unanswered, Current(w),
           HandlerStep(w), ~Lease(w)
    PROVE  Current(w)'
<1> USE DEF Gate
<1>0. /\ hand \in [Worker -> Handler] /\ effect \in [Request -> EffectRow] /\ rows \in Nat
      /\ hand[w] \in Handler /\ CallOK(hand[w])
      /\ hand[w].seen \in EffectRow /\ hand[w].seen.status \in EffectStatus
  BY DEF Formed, GateTypeOK, CallsOK, Handler, EffectRow
<1>1. hand[w].at # "out" /\ granted' = granted
  BY HandlerRuns
<1>2. ASSUME hand'[w].at \notin {"creating", "judging", "renewing", "pausing", "performing"}
      PROVE  Current(w)'
  BY <1>2 DEF Current
<1>3. ASSUME NEW stage \in Stage, Goes(w, stage),
             stage \notin {"creating", "judging", "renewing", "pausing", "performing"}
      PROVE  Current(w)'
  BY <1>0, <1>2, <1>3, GoesEffect
<1>4. ASSUME Returned(w) PROVE Current(w)'
  BY <1>0, <1>2, <1>4, ReturnedEffect
<1>5. ASSUME hand' = [hand EXCEPT ![w] = Out] PROVE Current(w)'
  BY <1>0, <1>2, <1>5, OutType
<1>6. CASE LoadApproved(w)
  BY <1>0, <1>2, <1>6 DEF LoadApproved, Idle
<1>7. ASSUME NEW q \in Request, CallTool(w, q) PROVE Current(w)'
  <2> DEFINE rules == IF hand[w].rules = NoRules THEN rule ELSE hand[w].rules
             plan  == Plan(rules[ToolOf[q]], ToolOf[q])
             kept  == Keyed(rules[ToolOf[q]], ToolOf[q])
             gate  == IF effect[q].status = "none" THEN "creating"
                      ELSE AfterRecord(plan, effect[q])
  <2>1. plan \in {"ask", "allow", "judge"} /\ effect[q] \in EffectRow
        /\ effect[q].status \in EffectStatus
    BY <1>0, PlanType DEF EffectRow
  <2>2. /\ hand'[w].at \in {"idle", IF ~kept THEN "performing" ELSE gate}
        /\ hand'[w].at # "idle" => hand'[w].q = q /\ hand'[w].seen = effect[q]
                                   /\ hand'[w].kept = kept
        /\ effect' = effect
    BY <1>0, <1>7 DEF CallTool, Idle
  <2> HIDE DEF plan
  <2>3. /\ AfterRecord(plan, effect[q]) \in {"idle", "settling", "claiming", "renewing", "judging"}
        /\ AfterRecord(plan, effect[q]) = "renewing" => effect[q].status \in {"none", "intended"}
    BY <2>1, RecordStage, RecordRenews
  <2> HIDE DEF kept
  <2> QED BY <1>2, <2>1, <2>2, <2>3 DEF Current, Written
<1>8. CASE Create(w)
  <2> DEFINE q    == hand[w].q
             plan == Plan(hand[w].rules[ToolOf[q]], ToolOf[q])
  <2>1. q \in Request /\ hand[w].at = "creating" /\ hand[w].seen.status = "none"
    BY <1>0, <1>8 DEF Create, CallOK, Current
  <2>2. CASE Returned(w)
    BY <1>4, <2>2
  <2>3. CASE ~Returned(w)
    <3>1. /\ effect' = [effect EXCEPT ![q] =
                 [status |-> "intended", verdict |-> "none", place |-> rows + 1]]
          /\ Goes(w, AfterRecord(plan, hand[w].seen))
      BY <1>8, <2>3 DEF Create
    <3>2. effect'[q].status = "intended"
      BY <1>0, <2>1, <3>1, CreateUpdate
    <3>3. plan \in {"ask", "allow", "judge"}
      BY PlanType
    <3> HIDE DEF plan
    <3>4. /\ AfterRecord(plan, hand[w].seen) \in
                 {"idle", "settling", "claiming", "renewing", "judging"}
          /\ AfterRecord(plan, hand[w].seen) \in Stage
      BY <1>0, <3>3, RecordStage DEF Stage
    <3>5. /\ hand'[w].at = AfterRecord(plan, hand[w].seen)
          /\ hand'[w].q = q /\ hand'[w].seen = hand[w].seen
      BY <1>0, <3>1, <3>4, GoesEffect
    <3> QED BY <2>1, <3>2, <3>4, <3>5 DEF Current, Written
  <2> QED BY <2>2, <2>3
<1>9. ASSUME NEW v \in {"pass", "ask", "error"}, Judge(w, v) PROVE Current(w)'
  <2> DEFINE q        == hand[w].q
             decision == IF v = "pass" THEN "allow" ELSE "ask"
             stage    == Branch(hand[w].seen.status, decision)
  <2>1. /\ q \in Request /\ hand[w].at = "judging"
        /\ Goes(w, stage) \/ Returned(w)
    BY <1>0, <1>9 DEF Judge, CallOK
  <2>2. effect'[q].status = effect[q].status
    BY <1>0, <1>9, <2>1, VerdictUpdate DEF Judge, Verdict
  <2>3. decision \in {"ask", "allow"}
    OBVIOUS
  <2> HIDE DEF decision
  <2>4. /\ stage \in {"idle", "settling", "claiming", "renewing"} /\ stage \in Stage
        /\ stage = "renewing" => hand[w].seen.status \in {"none", "intended"}
    BY <1>0, <2>3, BranchStage, BranchRenews DEF Stage
  <2> HIDE DEF stage
  <2>5. CASE Goes(w, stage)
    <3>1. hand'[w].at = stage /\ hand'[w].q = q /\ hand'[w].seen = hand[w].seen
      BY <1>0, <2>4, <2>5, GoesEffect
    <3> QED BY <2>1, <2>2, <2>4, <3>1 DEF Current, Written
  <2> QED BY <1>4, <2>1, <2>5
<1>10. CASE Renew(w)
  <2>1. CASE Goes(w, "pausing")
    <3>1. /\ hand'[w].at = "pausing" /\ hand'[w].q = hand[w].q
          /\ hand'[w].seen = hand[w].seen
      BY <1>0, <2>1, GoesEffect DEF Stage
    <3> QED BY <1>10, <3>1 DEF Renew, Current, Written
  <2> QED BY <1>5, <1>10, <2>1 DEF Renew
<1>11. CASE Claim(w)
  <2> DEFINE q == hand[w].q
  <2>1. q \in Request /\ hand[w].at = "claiming"
    BY <1>0, <1>11 DEF Claim, CallOK
  <2>2. CASE Goes(w, "refused")
    BY <1>3, <2>2 DEF Stage
  <2>3. CASE Goes(w, "performing") /\ ClaimSucceeds(hand[w])
    <3>1. hand'[w].at = "performing" /\ hand'[w].q = q
      BY <1>0, <2>3, GoesEffect DEF Stage
    <3>2. effect[q].status \in {"approved", "intended"}
      BY <2>3 DEF ClaimSucceeds, ClaimFrom
    <3>3. q \in asked => effect[q].status # "intended"
      BY <1>1 DEF Alone, Unanswered
    <3>4. q \in asked => q \in granted
      BY <2>1, <3>2, <3>3 DEF Grants
    <3>5. asked' = asked
      BY <1>11 DEF Claim
    <3> QED BY <1>1, <3>1, <3>4, <3>5 DEF Current
  <2> QED BY <1>11, <2>2, <2>3 DEF Claim
<1>12. CASE Refused(w)
  BY <1>3, <1>4, <1>12 DEF Refused, Stage
<1>13. CASE Perform(w)
  BY <1>3, <1>13 DEF Perform, Stage
<1>14. CASE Pause(w) \/ Settle(w) \/ Record(w) \/ Complete(w) \/ Fail(w) \/ Crash(w)
  BY <1>4, <1>5, <1>14 DEF Pause, Settle, Record, Complete, Fail, Crash
<1> QED
  BY <1>6, <1>7, <1>8, <1>9, <1>10, <1>11, <1>12, <1>13, <1>14 DEF HandlerStep

LEMMA CardsHandler ==
    ASSUME NEW w \in Worker, Gate, Cards, HandlerStep(w)
    PROVE  Cards'
<1> USE DEF Gate
<1>0. /\ hand \in [Worker -> Handler] /\ effect \in [Request -> EffectRow]
      /\ ran \in [Request -> Nat] /\ spent \in [stalls : Nat, edits : Nat]
      /\ run \in [status : RunStatus, fence : Nat, card : Request \cup {NoRequest}]
      /\ asked \subseteq Request /\ CallOK(hand[w]) /\ [Next]_vars
  BY DEF Formed, GateTypeOK, CallsOK, Next
<1>1. CASE ~NoHandlerStalled'
  BY <1>1 DEF Cards, CardsHold, CardComesFirst, CardIsAnswerable
<1>2. CASE NoHandlerStalled' /\ Lease(w)
  <2>1. /\ spent' = spent /\ UNCHANGED <<effect, ran, granted, asked>>
        /\ run.status \in {"queued", "running"} /\ run.fence \in Nat
        /\ run' = [run EXCEPT !.status = "running", !.fence = run.fence + 1]
        /\ run.status = "running" => Abandoned
    BY <1>0, <1>2 DEF NoHandlerStalled, Lease
  <2>2. NoHandlerStalled /\ Alone /\ Unanswered /\ CardsHold
    BY <1>2, <2>1 DEF Cards, NoHandlerStalled
  <2>3. \A v \in Worker : hand[v].at = "out"
    BY <2>1, <2>2 DEF Alone, Abandoned
  <2>4. \A v \in Worker : hand'[v].at = IF v = w THEN "starting" ELSE "out"
    BY <1>0, <1>2, <2>3 DEF Lease, Idle
  <2>5. hand'[w].fence = run'.fence /\ run'.status = "running"
    BY <1>0, <1>2, <2>1 DEF Lease, Idle
  <2>6. Alone'
    BY <2>4, <2>5 DEF Alone
  <2>7. \A q \in asked : effect[q].status \notin {"none", "intended"}
    BY <2>1, <2>2 DEF Unanswered
  <2>8. Unanswered'
    BY <2>1, <2>7 DEF Unanswered
  <2>9. \A v \in Worker : Current(v)'
    BY <2>4 DEF Current
  <2>10. CardsHold'
    BY <2>1, <2>2, <2>5 DEF CardsHold, CardComesFirst, CardIsAnswerable, NoHandlerStalled
  <2> QED BY <2>6, <2>8, <2>9, <2>10 DEF Cards
<1>3. CASE NoHandlerStalled' /\ ~Lease(w)
  <2>1. /\ hand[w].at # "out" /\ granted' = granted /\ NoHandlerStalled
        /\ hand'[w].at = "out" \/ (run' = run /\ hand'[w].fence = hand[w].fence)
    BY <1>3, HandlerRuns DEF NoHandlerStalled
  <2>2. Alone /\ Unanswered /\ CardsHold /\ \A v \in Worker : Current(v)
    BY <2>1 DEF Cards
  <2>3. \A v \in Worker \ {w} : hand[v].at = "out" /\ hand'[v].at = "out"
    BY <2>1, <2>2, OthersStay DEF Alone
  <2>4. run.status \in {"running", "cancelled"}
    BY <2>1, <2>2 DEF Alone
  <2>5. Alone'
    BY <2>1, <2>2, <2>3, <2>4 DEF Alone
  <2>6. \A q \in asked : /\ effect[q].status \notin {"none", "intended"}
                         /\ effect'[q].status \notin {"none", "intended"}
    <3> SUFFICES ASSUME NEW q \in asked
                 PROVE  /\ effect[q].status \notin {"none", "intended"}
                        /\ effect'[q].status \notin {"none", "intended"}
      OBVIOUS
    <3>1. effect[q].status \notin {"none", "intended"}
      BY <2>1, <2>2, <2>4 DEF Unanswered
    <3>2. StatusMove(effect[q].status, effect'[q].status)
      BY <1>0, StatusesMove
    <3> QED BY <3>1, <3>2 DEF StatusMove
  <2>7. \A v \in Worker : Current(v)'
    BY <1>3, <2>1, <2>2, <2>3, CurrentHandler DEF Current
  <2>8. CASE run' = run /\ asked' = asked
    <3>1. Unanswered'
      BY <2>6, <2>8 DEF Unanswered
    <3>2. CardComesFirst'
      <4> SUFFICES ASSUME NEW q \in asked, ran'[q] > 0 PROVE q \in granted
        BY <2>1, <2>8 DEF CardComesFirst
      <4>1. CASE ran'[q] = ran[q]
        BY <2>1, <2>2, <4>1 DEF CardsHold, CardComesFirst
      <4>2. CASE ran'[q] # ran[q]
        <5>1. hand[w].at = "performing" /\ hand[w].q = q /\ (hand[w].kept \/ hand[w].replayed)
          BY <1>0, <4>2, HandlerRan
        <5> QED BY <2>2, <5>1 DEF Current, Grants
      <4> QED BY <4>1, <4>2
    <3>3. CardIsAnswerable'
      BY <2>4, <2>8 DEF CardIsAnswerable
    <3> QED BY <2>5, <2>7, <3>1, <3>2, <3>3 DEF Cards, CardsHold
  <2>9. CASE run'.status \in {"completed", "failed"} /\ asked' = asked /\ hand'[w].at = "out"
    <3>1. Unanswered'
      BY <2>6, <2>9 DEF Unanswered
    <3>2. ran' = ran
      BY <2>4, <2>9 DEF HandlerStep, Lease, LoadApproved, Create, Renew, Pause, Claim, Refused,
         Settle, Perform, Record, Complete, Fail, Crash, CallTool, Judge
    <3>3. CardComesFirst' /\ CardIsAnswerable'
      BY <2>1, <2>2, <2>9, <3>2 DEF CardsHold, CardComesFirst, CardIsAnswerable
    <3> QED BY <2>5, <2>7, <3>1, <3>3 DEF Cards, CardsHold
  <2>10. CASE /\ run'.status = "waiting_input" /\ hand[w].at = "pausing" /\ run'.card = hand[w].q
              /\ asked' = asked \cup {hand[w].q} /\ UNCHANGED <<effect, ran>>
    <3> DEFINE q == hand[w].q
    <3>1. q \in Request /\ effect[q].status = "intended"
      BY <1>0, <2>2, <2>10 DEF Current, Written, CallOK
    <3>2. Unanswered'
      BY <2>6, <2>10 DEF Unanswered
    <3>3. CardComesFirst'
      <4>1. ran[q] > 0 => q \in granted
        BY <3>1 DEF Grants, Claimed
      <4> QED BY <2>1, <2>2, <2>10, <4>1 DEF CardsHold, CardComesFirst
    <3>4. CardIsAnswerable'
      BY <2>10, <3>1 DEF CardIsAnswerable
    <3> QED BY <2>5, <2>7, <3>2, <3>3, <3>4 DEF Cards, CardsHold
  <2> QED BY <1>3, <2>8, <2>9, <2>10, HandlerRuns
<1> QED BY <1>1, <1>2, <1>3

LEMMA CardsUser ==
    ASSUME Gate, Cards, UserStep
    PROVE  Cards'
<1> USE DEF Gate
<1>0. /\ effect \in [Request -> EffectRow] /\ asked \subseteq Request
      /\ run \in [status : RunStatus, fence : Nat, card : Request \cup {NoRequest}]
      /\ spent \in [stalls : Nat, edits : Nat]
  BY DEF Formed, GateTypeOK
<1>1. /\ hand' = hand /\ ran' = ran /\ asked' = asked /\ granted \subseteq granted'
      /\ spent'.stalls = spent.stalls /\ run'.fence = run.fence
  BY <1>0 DEF UserStep, Answer, Stop, EditRules
<1>2. CASE ~NoHandlerStalled
  BY <1>1, <1>2 DEF Cards, CardsHold, CardComesFirst, CardIsAnswerable, NoHandlerStalled
<1>3. CASE NoHandlerStalled
  <2>1. Alone /\ Unanswered /\ CardsHold /\ \A w \in Worker : Current(w)
    BY <1>3 DEF Cards
  <2>2. CardComesFirst'
    BY <1>1, <1>3, <2>1 DEF CardsHold, CardComesFirst
  <2>3. ASSUME NEW answer \in {"allow", "always", "deny"}, Answer(answer) PROVE Cards'
    <3>1. /\ run.status = "waiting_input" /\ run'.status = "queued" /\ run.card \in Request
          /\ effect' = [effect EXCEPT ![run.card].status = AnswerStatus(answer)]
      BY <1>0, <2>3 DEF Answer, Formed, CardOK
    <3>2. \A w \in Worker : hand[w].at = "out"
      BY <2>1, <3>1 DEF Alone
    <3>3. Alone' /\ \A w \in Worker : Current(w)'
      BY <1>1, <3>2 DEF Alone, Current
    <3>4. effect'[run.card].status \in {"approved", "denied"}
      BY <1>0, <3>1 DEF AnswerStatus, EffectRow
    <3>5. \A q \in Request : q # run.card => effect'[q] = effect[q]
      BY <1>0, <3>1
    <3>6. Unanswered'
      BY <1>0, <1>1, <2>1, <3>1, <3>4, <3>5 DEF Unanswered
    <3>7. CardIsAnswerable'
      BY <3>1 DEF CardIsAnswerable
    <3> QED BY <2>2, <3>3, <3>6, <3>7 DEF Cards, CardsHold
  <2>4. CASE Stop
    <3>1. /\ run.status \in {"queued", "running", "waiting_input"} /\ run'.status = "cancelled"
          /\ effect' = effect /\ granted' = granted
      BY <1>0, <2>4 DEF Stop
    <3>2. Alone'
      BY <1>1, <2>1, <3>1 DEF Alone
    <3>3. \A w \in Worker : Current(w)'
      BY <1>1, <2>1, <3>1 DEF Current, Written
    <3>4. run.status = "waiting_input" => \A w \in Worker : hand[w].at = "out"
      BY <2>1 DEF Alone
    <3>5. Unanswered'
      BY <1>1, <2>1, <3>1, <3>4 DEF Unanswered
    <3>6. CardIsAnswerable'
      BY <3>1 DEF CardIsAnswerable
    <3> QED BY <2>2, <3>2, <3>3, <3>5, <3>6 DEF Cards, CardsHold
  <2>5. ASSUME NEW t \in Tool, NEW r \in Rule, EditRules(t, r) PROVE Cards'
    <3>1. UNCHANGED <<run, effect, hand, granted, asked>>
      BY <2>5 DEF EditRules
    <3>2. Alone' /\ Unanswered' /\ (\A w \in Worker : Current(w)') /\ CardIsAnswerable'
      BY <1>3, <2>1, <3>1
         DEF Alone, Unanswered, Current, Written, CardsHold, CardIsAnswerable
    <3> QED BY <2>2, <3>2 DEF Cards, CardsHold
  <2> QED BY <2>3, <2>4, <2>5 DEF UserStep
<1> QED BY <1>2, <1>3

-----------------------------------------------------------------------------
(* The promise.                                                             *)

\* What happens once is performed before it is recorded, and recorded before the row says
\* so: a handler that comes to record, and a row that is completed, tell the truth.
Told ==
    \A q \in Single :
        /\ \A w \in Worker : Recording(w, q) => ran[q] = 1
        /\ effect[q].status = "completed" => ran[q] = 1

\* A handler comes from performing to recording by the side effect alone.
LEMMA RecordsAfterPerform ==
    ASSUME Formed, [Next]_vars, NEW w \in Worker, NEW q \in Request,
           Performing(w, q), Recording(w, q)'
    PROVE  Perform(w)
<1>0. hand \in [Worker -> Handler] /\ hand[w].at = "performing" /\ hand'[w].at = "recording"
  BY DEF Formed, GateTypeOK, Performing, Recording
<1>1. CASE HandlerStep(w)
  <2>1. ~Crash(w)
    BY <1>0, OutType DEF Crash
  <2> QED BY <1>0, <1>1, <2>1
      DEF HandlerStep, Lease, LoadApproved, Create, Renew, Pause, Claim, Refused, Settle, Record,
          Complete, Fail, CallTool, Judge
<1>2. ASSUME NEW v \in Worker, v # w, HandlerStep(v) PROVE FALSE
  BY <1>0, <1>2, OthersStay
<1>3. CASE UserStep \/ UNCHANGED vars
  <2>1. hand' = hand
    BY <1>3 DEF UserStep, Answer, Stop, EditRules, vars
  <2> QED BY <1>0, <2>1
<1> QED BY <1>1, <1>2, <1>3 DEF Next

\* The side effect of a consequential request: its row is claimed and not completed, it
\* had not happened, and the step touches nothing else.
LEMMA PerformOnce ==
    ASSUME Formed, Counts, Told, NEW w \in Worker, Perform(w), hand[w].q \in Single
    PROVE  /\ effect[hand[w].q].status \in {"executing", "uncertain"}
           /\ ran[hand[w].q] = 0
           /\ ran' = [ran EXCEPT ![hand[w].q] = 1]
           /\ effect' = effect
<1> DEFINE p == hand[w].q
<1>1. p \in Request /\ ToolOf[p] \in Consequential /\ ran \in [Request -> Nat]
  BY DEF Single, Formed, GateTypeOK
<1>2. hand[w].at = "performing" /\ hand[w].kept
  BY <1>1 DEF Perform, Formed, CallsOK, CallOK
<1>3. effect[p].status \in Claimed /\ ran[p] = 0
  BY <1>1, <1>2 DEF Counts, PerformersClaimed, Performing
<1>4. effect[p].status # "completed"
  BY <1>3 DEF Told
<1>5. ran' = [ran EXCEPT ![p] = 1] /\ effect' = effect
  BY <1>1, <1>2, <1>3 DEF Perform
<1> QED BY <1>3, <1>4, <1>5 DEF Claimed

\* What happened is not undone.
LEMMA StaysRan ==
    ASSUME Formed, Counts, Told, [Next]_vars, NEW q \in Single, ran[q] = 1
    PROVE  ran'[q] = 1
<1>0. q \in Request
  BY DEF Single
<1>1. ASSUME NEW w \in Worker, HandlerStep(w) PROVE ran'[q] = 1
  <2>1. CASE ran' = ran
    BY <2>1
  <2>2. CASE Perform(w) /\ hand[w].q = q
    BY <2>2, PerformOnce
  <2>3. CASE Perform(w) /\ hand[w].q # q
    BY <1>0, <2>3 DEF Perform, Formed, GateTypeOK
  <2> QED BY <1>1, <2>1, <2>2, <2>3
      DEF HandlerStep, Lease, LoadApproved, Create, Renew, Pause, Claim, Refused, Settle, Record,
          Complete, Fail, Crash, CallTool, Judge
<1>2. CASE UserStep \/ UNCHANGED vars
  BY <1>2 DEF UserStep, Answer, Stop, EditRules, vars
<1> QED BY <1>1, <1>2 DEF Next

\* The user's answer moves the row of the card, to approved or denied.
LEMMA UserRows ==
    ASSUME NEW q \in Request, Formed, UserStep, effect'[q].status # effect[q].status
    PROVE  q = run.card /\ effect'[q].status \in {"approved", "denied"} /\ ran' = ran
<1>0. effect \in [Request -> EffectRow]
  BY DEF Formed, GateTypeOK
<1>1. PICK answer \in {"allow", "always", "deny"} : Answer(answer)
  BY DEF UserStep, Stop, EditRules
<1>2. run.card \in Request
  BY <1>1 DEF Answer, Formed, CardOK
<1>3. effect' = [effect EXCEPT ![run.card].status = AnswerStatus(answer)] /\ ran' = ran
  BY <1>1 DEF Answer
<1>4. q = run.card
  BY <1>0, <1>2, <1>3
<1>5. effect'[q].status = AnswerStatus(answer)
  BY <1>0, <1>2, <1>3, <1>4 DEF EffectRow
<1> QED BY <1>3, <1>4, <1>5 DEF AnswerStatus

\* completeExternalEffect alone completes a row, and the handler that calls it performed
\* the side effect.
LEMMA CompletedByRecorder ==
    ASSUME Formed, [Next]_vars, NEW q \in Request,
           effect'[q].status = "completed", effect[q].status # "completed"
    PROVE  \E w \in Worker : Recording(w, q)
<1>0. effect \in [Request -> EffectRow]
  BY DEF Formed, GateTypeOK
<1>1. CASE UserStep
  BY <1>1, UserRows
<1>2. ASSUME NEW w \in Worker, HandlerStep(w) PROVE Recording(w, q)
  <2>1. hand[w].q = q
    BY <1>2, HandlerRows
  <2>2. CASE Record(w)
    BY <2>1, <2>2 DEF Record, RecordSucceeds, Recording
  <2>3. CASE Create(w)
    BY <1>0, <2>1, <2>3, CreateUpdate DEF Create, Formed, GateTypeOK
  <2>4. ASSUME NEW v \in {"pass", "ask", "error"}, Judge(w, v) PROVE FALSE
    BY <1>0, <2>1, <2>4, VerdictUpdate DEF Judge, Verdict
  <2>5. CASE Claim(w) \/ Settle(w)
    BY <1>0, <2>1, <2>5 DEF Claim, Settle, SettledAs, EffectRow
  <2> QED BY <1>2, <2>2, <2>3, <2>4, <2>5
      DEF HandlerStep, Lease, LoadApproved, Renew, Pause, Refused, Perform, Complete, Fail, Crash,
          CallTool
<1>3. CASE UNCHANGED vars
  BY <1>3 DEF vars
<1> QED BY <1>1, <1>2, <1>3 DEF Next

LEMMA ToldNext ==
    ASSUME Formed, Counts, Told, [Next]_vars
    PROVE  Told'
<1> SUFFICES ASSUME NEW q \in Single
             PROVE  /\ \A w \in Worker : Recording(w, q)' => ran'[q] = 1
                    /\ effect'[q].status = "completed" => ran'[q] = 1
  BY DEF Told, Single
<1>0. q \in Request
  BY DEF Single
<1>1. ASSUME NEW w \in Worker, Recording(w, q)' PROVE ran'[q] = 1
  <2>1. CASE Recording(w, q)
    BY <2>1, StaysRan DEF Told
  <2>2. CASE Performing(w, q)
    <3>1. Perform(w) /\ hand[w].q = q
      BY <1>0, <1>1, <2>2, RecordsAfterPerform DEF Performing
    <3>2. ran' = [ran EXCEPT ![q] = 1] /\ ran \in [Request -> Nat]
      BY <3>1, PerformOnce DEF Formed, GateTypeOK
    <3> QED BY <1>0, <3>2
  <2> QED BY <1>0, <1>1, <2>1, <2>2, RecordersPerformed
<1>2. ASSUME effect'[q].status = "completed" PROVE ran'[q] = 1
  <2>1. CASE effect[q].status = "completed"
    BY <2>1, StaysRan DEF Told
  <2>2. CASE effect[q].status # "completed"
    <3>1. PICK w \in Worker : Recording(w, q)
      BY <1>0, <1>2, <2>2, CompletedByRecorder
    <3> QED BY <3>1, StaysRan DEF Told
  <2> QED BY <2>1, <2>2
<1> QED BY <1>1, <1>2

\* A step moves the status of at most one row, and none when a side effect happens.
LEMMA OneRowMoves ==
    ASSUME Formed, [Next]_vars, NEW p \in Request, NEW q \in Request,
           effect'[p].status # effect[p].status
    PROVE  ran' = ran /\ (q # p => effect'[q].status = effect[q].status)
<1>1. CASE UserStep
  BY <1>1, UserRows
<1>2. ASSUME NEW w \in Worker, HandlerStep(w)
      PROVE  ran' = ran /\ (q # p => effect'[q].status = effect[q].status)
  <2>1. ran' = ran \/ effect' = effect
    BY <1>2 DEF HandlerStep, Lease, LoadApproved, Create, Renew, Pause, Claim, Refused, Settle,
       Perform, Record, Complete, Fail, Crash, CallTool, Judge
  <2> QED BY <1>2, <2>1, HandlerRows
<1>3. CASE UNCHANGED vars
  BY <1>3 DEF vars
<1> QED BY <1>1, <1>2, <1>3 DEF Next

\* The moves of a status as the promise sees them.
LEMMA PhaseMoves ==
    ASSUME NEW old, NEW new, StatusMove(old, new), PhaseOf(new) # PhaseOf(old),
           old \in EffectStatus
    PROVE  \/ PhaseOf(old) = "open" /\ PhaseOf(new) \in {"denied", "begun"}
           \/ PhaseOf(old) = "begun" /\ PhaseOf(new) = "unknown"
           \/ PhaseOf(old) = "begun" /\ PhaseOf(new) = "done" /\ new = "completed"
  BY DEF StatusMove, PhaseOf, EffectStatus

\* Every step of the gate is a step of the promise, or changes nothing it speaks of.
LEMMA StepKeepsPromise ==
    ASSUME Formed, Counts, Told, [Next]_vars
    PROVE  [Promise!Next]_(Promise!vars)
<1> DEFINE phase    == [q \in Request |-> PhaseOf(effect[q].status)]
           happened == [q \in Single |-> ran[q]]
<1>0. /\ effect \in [Request -> EffectRow] /\ ran \in [Request -> Nat]
      /\ Single \subseteq Request
      /\ \A q \in Request : effect[q].status \in EffectStatus
  BY DEF Formed, GateTypeOK, Single, EffectRow
<1>1. ASSUME NEW p \in Request, PhaseOf(effect'[p].status) # PhaseOf(effect[p].status)
      PROVE  Promise!Next
  <2>1. ran' = ran /\ \A q \in Request \ {p} : effect'[q].status = effect[q].status
    BY <1>1, OneRowMoves
  <2> DEFINE to == PhaseOf(effect'[p].status)
  <2>2. /\ phase' = [phase EXCEPT ![p] = to]
        /\ happened' = happened
    BY <2>1
  <2>3. phase[p] = PhaseOf(effect[p].status)
    OBVIOUS
  <2>4. \/ phase[p] = "open" /\ to \in {"denied", "begun"}
        \/ phase[p] = "begun" /\ to = "unknown"
        \/ phase[p] = "begun" /\ to = "done" /\ effect'[p].status = "completed"
    <3>1. StatusMove(effect[p].status, effect'[p].status)
      BY StatusesMove
    <3> QED BY <1>0, <1>1, <2>3, <3>1, PhaseMoves
  <2>5. CASE to = "done" /\ effect'[p].status = "completed"
    <3>1. effect[p].status # "completed"
      BY <1>1, <2>5
    <3>2. p \in Single => ran[p] = 1
      BY <2>5, <3>1, CompletedByRecorder DEF Told
    <3>3. p \in Single => happened[p] = 1
      BY <3>2
    <3>4. Promise!Confirm(p)
      BY <2>2, <2>4, <2>5, <3>3 DEF Promise!Confirm, Promise!Moves
    <3> QED BY <3>4 DEF Promise!Next
  <2>6. CASE to # "done"
    <3>1. Promise!Deny(p) \/ Promise!Begin(p) \/ Promise!GiveUp(p)
      BY <2>2, <2>4, <2>6 DEF Promise!Deny, Promise!Begin, Promise!GiveUp, Promise!Moves
    <3> QED BY <3>1 DEF Promise!Next
  <2> QED BY <2>4, <2>5, <2>6
<1>2. ASSUME \A p \in Request : PhaseOf(effect'[p].status) = PhaseOf(effect[p].status)
      PROVE  [Promise!Next]_(Promise!vars)
  <2>1. phase' = phase
    BY <1>2
  <2>2. CASE happened' = happened
    BY <2>1, <2>2 DEF Promise!vars
  <2>3. CASE happened' # happened
    <3>1. PICK q \in Single : ran'[q] # ran[q]
      BY <2>3
    <3>2. PICK w \in Worker : HandlerStep(w)
      BY <3>1 DEF Next, vars, UserStep, Answer, Stop, EditRules
    <3>3. Perform(w)
      BY <3>1, <3>2 DEF HandlerStep, Lease, LoadApproved, Create, Renew, Pause, Claim, Refused,
         Settle, Record, Complete, Fail, Crash, CallTool, Judge
    <3>4. hand[w].q = q
      BY <1>0, <3>1, <3>2, HandlerRan
    <3>5. /\ effect[q].status \in {"executing", "uncertain"} /\ ran[q] = 0
          /\ ran' = [ran EXCEPT ![q] = 1]
      BY <3>3, <3>4, PerformOnce
    <3>6. phase[q] \in {"begun", "unknown"} /\ happened[q] = 0
      BY <1>0, <3>5 DEF PhaseOf
    <3>7. happened' = [happened EXCEPT ![q] = 1]
      BY <1>0, <3>5
    <3>8. Promise!Happen(q)
      BY <2>1, <3>6, <3>7 DEF Promise!Happen
    <3> QED BY <1>0, <3>8 DEF Promise!Next
  <2> QED BY <2>2, <2>3
<1> QED BY <1>1, <1>2

-----------------------------------------------------------------------------
(* The theorems.                                                            *)

\* Every reachable state is well formed, and the claims count.
THEOREM GateInvariant == Spec => [](Formed /\ Counts)
<1>1. Init => Formed /\ Counts
  BY FormedInit, CountsInit
<1>2. Formed /\ Counts /\ [Next]_vars => Formed' /\ Counts'
  <2> SUFFICES ASSUME Formed, Counts, [Next]_vars PROVE Formed' /\ Counts'
    OBVIOUS
  <2>1. CASE UserStep
    BY <2>1, FormedUser, CountsUser
  <2>2. ASSUME NEW w \in Worker, HandlerStep(w) PROVE Formed' /\ Counts'
    BY <2>2, FormedHandler, CountsHandler
  <2>3. CASE UNCHANGED vars
    BY <2>3 DEF vars, Formed, GateTypeOK, CallsOK, CardOK, Counts, RanOnce,
                PerformersClaimed, OnePerformer, Performing
  <2> QED BY <2>1, <2>2, <2>3 DEF Next
<1> QED BY <1>1, <1>2, PTL DEF Spec

\* The rows, handlers and answers of every reachable state have the shapes the code
\* gives them.
THEOREM GateTypeCorrect == Spec => []GateTypeOK
<1>1. Formed => GateTypeOK
  BY DEF Formed
<1> QED BY <1>1, GateInvariant, PTL

\* A consequential request happens at most once in a run, for every number of handlers
\* that overlap, crash and replay it, and every change of the rules.
THEOREM HappensAtMostOnce == Spec => []AtMostOnce
<1>1. Formed /\ Counts => AtMostOnce
  BY DEF Counts, RanOnce, AtMostOnce
<1> QED BY <1>1, GateInvariant, PTL

\* The outcome a row of external_effects records is final: completed, uncertain and denied
\* are left by no update of the executor and by no answer.
THEOREM OutcomesAreFinal == Spec => OutcomeIsFinal
<1>1. Formed /\ [Next]_vars =>
        [\A q \in Request :
            effect[q].status \in {"completed", "uncertain", "denied"} =>
                effect'[q].status = effect[q].status]_vars
  BY StatusesMove DEF StatusMove
<1> QED BY <1>1, GateInvariant, PTL DEF Spec, OutcomeIsFinal

\* A request the user denied has not happened, and no handler is between its claim and
\* its record.
THEOREM DeniedStaysUndone == Spec => []DeniedNeverRuns
<1>1. Init => RecordersClaimed
  BY OutType DEF Init, RecordersClaimed, Recording
<1>2. Formed /\ Counts /\ RecordersClaimed /\ [Next]_vars => RecordersClaimed'
  <2> SUFFICES ASSUME Formed, Counts, RecordersClaimed, [Next]_vars,
                      NEW w \in Worker, NEW q \in Request, Recording(w, q)'
               PROVE  effect'[q].status \in Claimed
    BY DEF RecordersClaimed
  <2>1. Recording(w, q) \/ Performing(w, q)
    BY RecordersPerformed
  <2>2. effect[q].status \in Claimed
    BY <2>1 DEF RecordersClaimed, Counts, PerformersClaimed
  <2> QED BY <2>2, StatusesMove DEF StatusMove, Claimed
<1>3. Formed /\ Counts /\ RecordersClaimed => DeniedNeverRuns
  <2> SUFFICES ASSUME Formed, Counts, RecordersClaimed,
                      NEW q \in Request, effect[q].status = "denied"
               PROVE  /\ ToolOf[q] \in Consequential => ran[q] = 0
                      /\ \A w \in Worker : hand[w].q = q /\ hand[w].kept =>
                             hand[w].at \notin {"performing", "recording"}
    BY DEF DeniedNeverRuns
  <2>1. effect[q].status \notin Claimed /\ ran[q] \in Nat
    BY DEF Claimed, Formed, GateTypeOK
  <2>2. ToolOf[q] \in Consequential => ran[q] = 0
    BY <2>1 DEF Counts, RanOnce
  <2>3. \A w \in Worker : ~Performing(w, q) /\ ~Recording(w, q)
    BY <2>1 DEF Counts, PerformersClaimed, RecordersClaimed
  <2> QED BY <2>2, <2>3 DEF Performing, Recording
<1> QED BY <1>1, <1>2, <1>3, GateInvariant, PTL DEF Spec

\* A card is shown before what it asks about happens, and can be answered as long as it
\* is shown: pauseRunForInput leaves the row intended, answerRunInput alone moves it, and
\* the next handler leases the run after the answer.
THEOREM CardsComeFirst == Spec => []CardsHold
<1>1. Init => Grants /\ Cards
  <2> SUFFICES ASSUME Init PROVE Grants /\ Cards
    OBVIOUS
  <2>1. \A w \in Worker : hand[w].at = "out" /\ hand[w].replay = {} /\ hand[w].replayed = FALSE
    BY DEF Init, Out, Idle
  <2>2. Grants
    BY <2>1 DEF Init, Grants, NoEffect
  <2> QED BY <2>1, <2>2 DEF Init, Cards, CardsHold, CardComesFirst, CardIsAnswerable, Alone,
                            Unanswered, Current
<1>2. Formed /\ Counts /\ Grants /\ Cards /\ [Next]_vars => Grants' /\ Cards'
  <2> SUFFICES ASSUME Gate, Cards, [Next]_vars PROVE Grants' /\ Cards'
    BY DEF Gate
  <2>1. CASE UserStep
    BY <2>1, GrantsUser, CardsUser
  <2>2. ASSUME NEW w \in Worker, HandlerStep(w) PROVE Grants' /\ Cards'
    BY <2>2, GrantsHandler, CardsHandler
  <2>3. CASE UNCHANGED vars
    BY <2>3 DEF vars, Gate, Grants, Cards, CardsHold, CardComesFirst, CardIsAnswerable,
                NoHandlerStalled, Alone, Unanswered, Current, Written
  <2> QED BY <2>1, <2>2, <2>3 DEF Next
<1>3. Cards => CardsHold
  BY DEF Cards
<1> QED BY <1>1, <1>2, <1>3, GateInvariant, PTL DEF Spec

\* A handler that comes to record a consequential request has performed it, and a row that
\* says completed is true, whoever else gave up on the row meanwhile.
THEOREM CompletedHappened == Spec => []Told
<1>1. Init => Told
  <2> SUFFICES ASSUME Init PROVE Told
    OBVIOUS
  <2>1. \A w \in Worker, q \in Request : ~Recording(w, q)
    BY OutType DEF Init, Recording
  <2> QED BY <2>1 DEF Init, Told, Single, NoEffect
<1>2. Formed /\ Counts /\ Told /\ [Next]_vars => Told'
  BY ToldNext
<1> QED BY <1>1, <1>2, GateInvariant, PTL DEF Spec

\* The rows, handlers, rules and answers implement EffectPromise: what applyTool keeps in
\* external_effects is enough for an effect to begin once, happen once and not after a
\* denial, and for every outcome on record to be true and final.
THEOREM GateKeepsPromise == Spec => KeepsEffectPromise
<1>1. Init => Promise!Init
  <2> SUFFICES ASSUME Init PROVE Promise!Init
    OBVIOUS
  <2>1. \A q \in Request : PhaseOf(effect[q].status) = "open"
    BY DEF Init, NoEffect, PhaseOf
  <2>2. \A q \in Single : ran[q] = 0
    BY DEF Init, Single
  <2> QED BY <2>1, <2>2 DEF Promise!Init
<1>2. Formed /\ Counts /\ Told /\ [Next]_vars => [Promise!Next]_(Promise!vars)
  BY StepKeepsPromise
<1> QED
  BY <1>1, <1>2, GateInvariant, CompletedHappened, PTL DEF Spec, KeepsEffectPromise, Promise!Spec
=============================================================================
