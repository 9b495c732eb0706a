------------------------------ MODULE EffectGate ------------------------------
(***************************************************************************)
(* The gate in front of a tool call with an effect outside the thread.     *)
(* applyTool (executor.ts) records the call as a row of external_effects   *)
(* under an idempotency key, decides whether the user has to be asked,     *)
(* pauses the run on a card when so, and claims the row before the side    *)
(* effect happens.  The row outlives the handler that wrote it: whoever    *)
(* leases the run next finds it and must neither repeat the side effect    *)
(* nor lose the user's answer.                                             *)
(*                                                                         *)
(* One run is modelled, with the workers that may hold handlers of it at   *)
(* the same time.  A Request is a tool name with its arguments, which is   *)
(* what approvalEffectKey digests.  A step is one database statement or    *)
(* transaction, one judge call or one side effect.                         *)
(***************************************************************************)
EXTENDS Naturals

CONSTANTS
    Worker,          \* handler slots of the job queue's workers
    Request,         \* tool calls with their arguments
    NoRequest,       \* no request
    Tool,            \* tool names
    ToolOf,          \* the tool a request calls
    Consequential,   \* tools toolRequiresApproval holds of
    AutoReview,      \* the user turned Auto Review on and a checker is configured
    MaxFence,        \* bound: leases of the run
    MaxStalls,       \* bound: leases that lapse while their handler is alive
    MaxEdits         \* bound: changes the user makes to the approval rules

ASSUME GateAssumption ==
    /\ NoRequest \notin Request
    /\ ToolOf \in [Request -> Tool]
    /\ Consequential \subseteq Tool
    /\ AutoReview \in BOOLEAN
    /\ MaxFence \in Nat /\ MaxStalls \in Nat /\ MaxEdits \in Nat

VARIABLES
    run,       \* the run's row: status, fence, and the request of its pending card
    effect,    \* the keyed row of each request: status, the judge's verdict, its place
    rows,      \* how many keyed rows have been created
    rule,      \* what the user's approval rules resolve to for each tool
    hand,      \* each worker's handler
    ran,       \* how often the side effect of a request happened under its key or its grant
    granted,   \* requests the user answered with allow or always
    asked,     \* requests a card was shown for
    spent      \* stalls and rule edits used so far

vars == <<run, effect, rows, rule, hand, ran, granted, asked, spent>>

\* The rules of a handler that has not loaded them yet.
NoRules == <<>>

RunStatus    == {"queued", "running", "waiting_input", "completed", "failed", "cancelled"}
EffectStatus == {"none", "intended", "approved", "denied", "executing", "completed", "uncertain"}
Verdict      == {"none", "pass", "ask", "error"}
Rule         == {"default", "always_allow", "require_connector", "require_tool"}
Stage        == {"out", "starting", "idle", "creating", "judging", "renewing", "pausing",
                 "claiming", "refused", "settling", "performing", "recording"}
EffectRow    == [status : EffectStatus, verdict : Verdict, place : Nat]
Handler      == [at : Stage, fence : Nat, replay : SUBSET Request,
                 rules : [Tool -> Rule] \cup {NoRules}, q : Request \cup {NoRequest},
                 seen : EffectRow, kept : BOOLEAN, replayed : BOOLEAN]

\* The row a request has before recordEffect creates it.
NoEffect == [status |-> "none", verdict |-> "none", place |-> 0]

\* The locals of continueRun and applyTool that outlive an await.
Idle(fence, replay, rules) ==
    [at |-> "idle", fence |-> fence, replay |-> replay, rules |-> rules,
     q |-> NoRequest, seen |-> NoEffect, kept |-> FALSE, replayed |-> FALSE]

Out == [Idle(0, {}, NoRules) EXCEPT !.at = "out"]

GateTypeOK ==
    /\ run \in [status : RunStatus, fence : Nat, card : Request \cup {NoRequest}]
    /\ effect \in [Request -> EffectRow]
    /\ rows \in Nat
    /\ rule \in [Tool -> Rule]
    /\ hand \in [Worker -> Handler]
    /\ ran \in [Request -> Nat]
    /\ granted \subseteq Request
    /\ asked \subseteq Request
    /\ spent \in [stalls : Nat, edits : Nat]

Init ==
    /\ run = [status |-> "queued", fence |-> 0, card |-> NoRequest]
    /\ effect = [q \in Request |-> NoEffect]
    /\ rows = 0
    /\ rule \in [Tool -> Rule]
    /\ hand = [w \in Worker |-> Out]
    /\ ran = [q \in Request |-> 0]
    /\ granted = {}
    /\ asked = {}
    /\ spent = [stalls |-> 0, edits |-> 0]

-----------------------------------------------------------------------------
(* The plan for a call and what it leads to.                                *)

\* planActionGate: the rules first, then the judge, on consequential tools only.
Plan(r, t) ==
    IF r \in {"require_connector", "require_tool"} THEN "ask"
    ELSE IF r = "default" /\ t \in Consequential /\ AutoReview THEN "judge"
    ELSE "allow"

\* effectKey is approvalEffectKey(run, tool, arguments); otherwise it is the id of
\* this one execution, which no other call shares.
Keyed(r, t) == Plan(r, t) \in {"ask", "judge"} \/ t \in Consequential

\* A slip of the branch: a request that was approved is asked about again.
BranchAsksAgain(seen, decision) ==
    CASE seen \in {"completed", "denied", "uncertain"} -> "idle"
      [] seen = "executing"                            -> "settling"
      [] OTHER -> IF decision = "allow" THEN "claiming" ELSE "renewing"

\* The branch applyTool takes once it knows whether to ask, on the row it read
\* (resolveDuplicateEffectGate), or on the row it has just created.
Branch(seen, decision) ==
    CASE seen \in {"completed", "denied", "uncertain"}            -> "idle"
      [] seen = "executing"                                       -> "settling"
      [] seen = "approved"                                        -> "claiming"
      [] seen \in {"none", "intended"} /\ decision = "allow"      -> "claiming"
      [] seen \in {"none", "intended"} /\ decision = "ask"        -> "renewing"

\* The stage that follows the record of a call: the judge is asked unless an
\* earlier handler left its verdict on the row.
AfterRecord(plan, seen) ==
    CASE plan \in {"ask", "allow"}                              -> Branch(seen.status, plan)
      [] plan = "judge" /\ seen.verdict = "none"                -> "judging"
      [] plan = "judge" /\ seen.verdict = "pass"                -> Branch(seen.status, "allow")
      [] plan = "judge" /\ seen.verdict \in {"ask", "error"}    -> Branch(seen.status, "ask")

\* The CAS of renewRunLease, pauseRunForInput and finalizeRun.
Holds(w) == run.status = "running" /\ run.fence = hand[w].fence

\* The handler goes to a stage and keeps its locals.
Goes(w, stage) == hand' = [hand EXCEPT ![w].at = stage]

\* applyTool returns, or throws, and the model has the result of its call.
Returned(w) ==
    hand' = [hand EXCEPT ![w] = Idle(hand[w].fence, hand[w].replay, hand[w].rules)]

-----------------------------------------------------------------------------
(* A handler.                                                               *)

\* The handler of the running run died, or its lease lapses while it is alive.
Abandoned == \A w \in Worker : hand[w].at = "out" \/ hand[w].fence # run.fence

Lease(w) ==
    /\ hand[w].at = "out"
    /\ run.fence < MaxFence
    /\ \/ run.status = "queued" /\ UNCHANGED spent
       \/ run.status = "running" /\ Abandoned /\ UNCHANGED spent
       \/ /\ run.status = "running" /\ ~Abandoned
          /\ spent.stalls < MaxStalls
          /\ spent' = [spent EXCEPT !.stalls = @ + 1]
    /\ run' = [run EXCEPT !.status = "running", !.fence = @ + 1]
    /\ hand' = [hand EXCEPT ![w] = [Idle(run.fence + 1, {}, NoRules) EXCEPT !.at = "starting"]]
    /\ UNCHANGED <<effect, rows, rule, ran, granted, asked>>

\* createApprovedEffectReplayQueue over the run's approved rows.
LoadApproved(w) ==
    /\ hand[w].at = "starting"
    /\ LET approved == {q \in Request : effect[q].status = "approved"}
       IN  hand' = [hand EXCEPT ![w] = Idle(hand[w].fence, approved, hand[w].rules)]
    /\ UNCHANGED <<run, effect, rows, rule, ran, granted, asked, spent>>

\* The replay queue runs in the order the rows were created.
IsOldest(q, S) == \A p \in S : effect[q].place <= effect[p].place

\* The model calls a tool.  While approved requests wait to be replayed, a call of
\* another tool is refused and a call of the same tool gets the approved arguments,
\* so q is the request after the queue has had its say.  The rules are read once per
\* handler.  A call that is not keyed gets a row of its own and goes ahead.
CallTool(w, q) ==
    LET h        == hand[w]
        replayed == h.replay # {}
        rules    == IF h.rules = NoRules THEN rule ELSE h.rules
        plan     == Plan(rules[ToolOf[q]], ToolOf[q])
        kept     == Keyed(rules[ToolOf[q]], ToolOf[q])
        stage    == IF ~kept THEN "performing"
                    ELSE IF effect[q].status = "none" THEN "creating"
                    ELSE AfterRecord(plan, effect[q])
        replay   == h.replay \ {q}
    IN  /\ h.at = "idle"
        /\ replayed => q \in h.replay /\ IsOldest(q, h.replay)
        /\ hand' = [hand EXCEPT ![w] =
                        IF stage = "idle" THEN Idle(h.fence, replay, rules)
                        ELSE [at |-> stage, fence |-> h.fence, replay |-> replay,
                              rules |-> rules, q |-> q, seen |-> effect[q],
                              kept |-> kept, replayed |-> replayed]]
        /\ UNCHANGED <<run, effect, rows, rule, ran, granted, asked, spent>>

\* recordEffect's create: the unique key makes the loser of a race throw.
Create(w) ==
    LET h    == hand[w]
        plan == Plan(h.rules[ToolOf[h.q]], ToolOf[h.q])
    IN  /\ h.at = "creating"
        /\ \/ /\ effect[h.q].status = "none"
              /\ effect' = [effect EXCEPT ![h.q] =
                     [status |-> "intended", verdict |-> "none", place |-> rows + 1]]
              /\ rows' = rows + 1
              /\ Goes(w, AfterRecord(plan, h.seen))
           \/ /\ effect[h.q].status # "none"
              /\ Returned(w)
              /\ UNCHANGED <<effect, rows>>
        /\ UNCHANGED <<run, rule, ran, granted, asked, spent>>

\* runAutoReview stores the verdict; anything but a pass asks the user.
Judge(w, verdict) ==
    LET h     == hand[w]
        stage == Branch(h.seen.status, IF verdict = "pass" THEN "allow" ELSE "ask")
    IN  /\ h.at = "judging"
        /\ effect' = [effect EXCEPT ![h.q].verdict = verdict]
        /\ IF stage = "idle" THEN Returned(w) ELSE Goes(w, stage)
        /\ UNCHANGED <<run, rows, rule, ran, granted, asked, spent>>

\* requestApproval: the lease is renewed, or the handler leaves without a card.
Renew(w) ==
    /\ hand[w].at = "renewing"
    /\ IF Holds(w) THEN Goes(w, "pausing") ELSE hand' = [hand EXCEPT ![w] = Out]
    /\ UNCHANGED <<run, effect, rows, rule, ran, granted, asked, spent>>

\* pauseRunForInput publishes the card, or the call throws.
Pause(w) ==
    /\ hand[w].at = "pausing"
    /\ \/ /\ Holds(w)
          /\ run' = [run EXCEPT !.status = "waiting_input", !.card = hand[w].q]
          /\ asked' = asked \cup {hand[w].q}
          /\ hand' = [hand EXCEPT ![w] = Out]
       \/ /\ ~Holds(w)
          /\ Returned(w)
          /\ UNCHANGED <<run, asked>>
    /\ UNCHANGED <<effect, rows, rule, ran, granted, spent>>

\* claimApprovedEffect or claimIntendedEffect, after the status the handler read.
ClaimFrom(h) == IF h.seen.status = "approved" THEN "approved" ELSE "intended"

\* A slip of the claim: every row without an outcome is claimed.
ClaimUnlessDone(h) == effect[h.q].status \notin {"completed", "denied", "uncertain"}

ClaimSucceeds(h) == effect[h.q].status = ClaimFrom(h)

Claim(w) ==
    LET h == hand[w]
    IN  /\ h.at = "claiming"
        /\ \/ /\ ClaimSucceeds(h)
              /\ effect' = [effect EXCEPT ![h.q].status = "executing"]
              /\ Goes(w, "performing")
           \/ /\ ~ClaimSucceeds(h)
              /\ Goes(w, "refused")
              /\ UNCHANGED effect
        /\ UNCHANGED <<run, rows, rule, ran, granted, asked, spent>>

\* claimOrReturn reads the row again after a lost claim.
Refused(w) ==
    /\ hand[w].at = "refused"
    /\ IF effect[hand[w].q].status = "executing" THEN Goes(w, "settling") ELSE Returned(w)
    /\ UNCHANGED <<run, effect, rows, rule, ran, granted, asked, spent>>

SettledAs == "uncertain"

\* settleUncertainEffect: somebody's execution was cut short, or still goes on.
Settle(w) ==
    LET q == hand[w].q
    IN  /\ hand[w].at = "settling"
        /\ IF effect[q].status = "executing"
             THEN effect' = [effect EXCEPT ![q].status = SettledAs]
             ELSE UNCHANGED effect
        /\ Returned(w)
        /\ UNCHANGED <<run, rows, rule, ran, granted, asked, spent>>

\* The side effect itself.
Perform(w) ==
    LET h == hand[w]
    IN  /\ h.at = "performing"
        /\ ran' = IF h.kept \/ h.replayed THEN [ran EXCEPT ![h.q] = @ + 1] ELSE ran
        /\ Goes(w, "recording")
        /\ UNCHANGED <<run, effect, rows, rule, granted, asked, spent>>

\* A slip of the record: the status the row is expected to have is dropped.
RecordById(h) == h.kept

\* The row is still executing: nobody settled it meanwhile.
RecordSucceeds(h) == h.kept /\ effect[h.q].status = "executing"

\* completeExternalEffect: a row that is no longer executing keeps its outcome.
Record(w) ==
    LET h == hand[w]
    IN  /\ h.at = "recording"
        /\ IF RecordSucceeds(h)
             THEN effect' = [effect EXCEPT ![h.q].status = "completed"]
             ELSE UNCHANGED effect
        /\ Returned(w)
        /\ UNCHANGED <<run, rows, rule, ran, granted, asked, spent>>

\* finalizeRun with a message; assertDrained has thrown if requests were left.
Complete(w) ==
    /\ hand[w].at = "idle" /\ hand[w].replay = {}
    /\ Holds(w)
    /\ run' = [run EXCEPT !.status = "completed"]
    /\ hand' = [hand EXCEPT ![w] = Out]
    /\ UNCHANGED <<effect, rows, rule, ran, granted, asked, spent>>

\* finalizeRun with an error: the model, the sandbox or assertDrained threw.
Fail(w) ==
    /\ hand[w].at \in {"starting", "idle"}
    /\ Holds(w)
    /\ run' = [run EXCEPT !.status = "failed"]
    /\ hand' = [hand EXCEPT ![w] = Out]
    /\ UNCHANGED <<effect, rows, rule, ran, granted, asked, spent>>

\* The handler's process dies at any point of a call, or it sees that it has lost
\* the run and returns.
Crash(w) ==
    /\ hand[w].at # "out"
    /\ hand' = [hand EXCEPT ![w] = Out]
    /\ UNCHANGED <<run, effect, rows, rule, ran, granted, asked, spent>>

-----------------------------------------------------------------------------
(* The user.                                                                *)

\* The rules after always_allow for the tool was added: a require_approval rule as
\* specific as it still wins, one for the whole connector does not.
AfterAlways(r) == IF r = "require_tool" THEN r ELSE "always_allow"

\* Slips of the answer: a denial is not stored, or a card is answered whatever became
\* of its row.
AnswerForgotten(answer) == IF answer = "deny" THEN "intended" ELSE "approved"
AnyAnswer(q) == q # NoRequest

AnswerStatus(answer) == IF answer = "deny" THEN "denied" ELSE "approved"

Answerable(q) == effect[q].status = "intended"

\* answerRunInput on an approval card.
Answer(answer) ==
    LET q == run.card
    IN  /\ run.status = "waiting_input"
        /\ Answerable(q)
        /\ run' = [run EXCEPT !.status = "queued", !.card = NoRequest]
        /\ effect' = [effect EXCEPT ![q].status = AnswerStatus(answer)]
        /\ rule' = IF answer = "always"
                     THEN [rule EXCEPT ![ToolOf[q]] = AfterAlways(@)] ELSE rule
        /\ granted' = IF answer = "deny" THEN granted ELSE granted \cup {q}
        /\ UNCHANGED <<rows, hand, ran, asked, spent>>

\* The user stops the run, or a newer message supersedes it.
Stop ==
    /\ run.status \in {"queued", "running", "waiting_input"}
    /\ run' = [run EXCEPT !.status = "cancelled", !.card = NoRequest]
    /\ UNCHANGED <<effect, rows, rule, hand, ran, granted, asked, spent>>

\* The user edits the approval rules in the settings.
EditRules(t, r) ==
    /\ spent.edits < MaxEdits
    /\ rule[t] # r
    /\ rule' = [rule EXCEPT ![t] = r]
    /\ spent' = [spent EXCEPT !.edits = @ + 1]
    /\ UNCHANGED <<run, effect, rows, hand, ran, granted, asked>>

-----------------------------------------------------------------------------

HandlerStep(w) ==
    \/ Lease(w) \/ LoadApproved(w) \/ Create(w) \/ Renew(w) \/ Pause(w) \/ Claim(w)
    \/ Refused(w) \/ Settle(w) \/ Perform(w) \/ Record(w)
    \/ Complete(w) \/ Fail(w) \/ Crash(w)
    \/ \E q \in Request : CallTool(w, q)
    \/ \E v \in {"pass", "ask", "error"} : Judge(w, v)

UserStep ==
    \/ \E answer \in {"allow", "always", "deny"} : Answer(answer)
    \/ Stop
    \/ \E t \in Tool, r \in Rule : EditRules(t, r)

Next == UserStep \/ \E w \in Worker : HandlerStep(w)

Spec == Init /\ [][Next]_vars

-----------------------------------------------------------------------------
(* Properties.                                                              *)

\* The side effect of a consequential request happens at most once in a run, however
\* its handlers crash, overlap or replay it, and whatever the rules become.
AtMostOnce ==
    \A q \in Request : ToolOf[q] \in Consequential => ran[q] <= 1

\* A request the user denied has not happened and nobody is on the way to it.
DeniedNeverRuns ==
    \A q \in Request : effect[q].status = "denied" =>
        /\ ToolOf[q] \in Consequential => ran[q] = 0
        /\ \A w \in Worker :
               hand[w].q = q /\ hand[w].kept => hand[w].at \notin {"performing", "recording"}

\* The card is worth something as long as no handler goes on with a lease that lapsed:
\* such a handler can still claim, on the verdict of its judge, a request its successor
\* has put on a card.
NoHandlerStalled == spent.stalls = 0

\* Once a card was shown, the request happens only if the user allowed it.
CardComesFirst ==
    NoHandlerStalled => \A q \in asked : ran[q] > 0 => q \in granted

\* A card the user looks at can be answered: its row still waits for the answer.
CardIsAnswerable ==
    NoHandlerStalled /\ run.status = "waiting_input" => effect[run.card].status = "intended"

\* Each card was shown before what it asks about happened, and waits for its answer.
CardsHold == CardComesFirst /\ CardIsAnswerable

\* What a row says of the outcome is final: no later handler turns one into another.
OutcomeIsFinal ==
    [][\A q \in Request :
          effect[q].status \in {"completed", "uncertain", "denied"} =>
              effect'[q].status = effect[q].status]_vars

-----------------------------------------------------------------------------
(* The gate implements EffectPromise.                                       *)

\* What the status of a row says of the effect: an intended or approved one is open.
PhaseOf(status) ==
    CASE status \in {"none", "intended", "approved"} -> "open"
      [] status = "denied"                           -> "denied"
      [] status = "executing"                        -> "begun"
      [] status = "completed"                        -> "done"
      [] status = "uncertain"                        -> "unknown"

\* The requests whose call always has its key, so that it is claimed before it happens.
Single == {q \in Request : ToolOf[q] \in Consequential}

Promise == INSTANCE EffectPromise WITH
    phase <- [q \in Request |-> PhaseOf(effect[q].status)],
    happened <- [q \in Single |-> ran[q]]

\* The rows and handlers keep the promise: an effect begins once, happens once and never
\* after a denial, completeExternalEffect calls it completed only when it has happened,
\* and no outcome is taken back.
KeepsEffectPromise == Promise!Spec

=============================================================================
