--------------------------- MODULE ComputerProofs ---------------------------
(***************************************************************************)
(* Proofs about a Team Computer, for every number of bots and every bound. *)
(* The first part is about ComputerLease: the state stays well formed, a   *)
(* transient state has a process that ends it, and neither the sleep job,  *)
(* a replacement nor a stop takes the sandbox from a run.  The second part *)
(* is about ComputerControl: no control stream is left without somebody    *)
(* who will close it, no late request, job or retry ends the control or    *)
(* closes the stream of somebody else, and a control that leaves the row   *)
(* resumes the run that waits for it.                                      *)
(***************************************************************************)
EXTENDS ComputerLease, ComputerControl, TLAPS

(***************************************************************************)
(* The sandbox.                                                            *)
(***************************************************************************)

\* Whoever has written suspending and has not yet written what comes after it.
SleepClaim == sleeper.at \in {"checking", "stopping", "recording"}
StopClaim  == stopper.at \in {"checking", "deleting", "stopping", "recording"}

ReplaceClaim(c) == call[c].at \in {"emptying", "clearing", "giving", "failing"}

\* It has looked for active runs since, and will not look again.
SleepLate == sleeper.at \in {"stopping", "recording"}
StopLate  == stopper.at \in {"deleting", "stopping", "recording"}

ReplaceLate(c) == call[c].at \in {"clearing", "giving", "failing"}

Boots(c) == call[c].at \in {"booting", "activating"}

\* A run whose handler is past the looks at the state of the computer.
Uses(c) == call[c].at \in {"reconnecting", "using", "asking"} /\ HoldsRun(c)

-----------------------------------------------------------------------------
(* The inductive invariant.                                                 *)

\* A handler holds a run of its bot; only a replacement replaces, and it claims no state
\* that somebody else is to end.
CallOK(l) ==
    /\ l.at = "out" => ~l.holds
    /\ l.holds => l.kind = "run" /\ l.run \in Run /\ l.bot = BotOf[l.run]
    /\ l.at \in {"looking", "claiming", "emptying", "clearing", "giving", "failing"} =>
           l.kind = "replace"
    /\ l.at \in {"claiming", "emptying"} => l.prev \notin {"booting", "suspending"}

CallsOK == \A c \in Call : CallOK(call[c])

\* Nobody stops, boots or replaces before a user asks for it.
AsksOK ==
    /\ NoStopAsked => stopper.at = "out"
    /\ spent["boots"] = 0 => \A c \in Call : call[c].kind = "run"

\* The state is suspending while somebody claims it, and one process does.
OneClaim ==
    /\ SleepClaim \/ StopClaim \/ (\E c \in Call : ReplaceClaim(c)) =>
           computer.state = "suspending"
    /\ ~(SleepClaim /\ StopClaim)
    /\ \A c \in Call : ReplaceClaim(c) => ~SleepClaim /\ ~StopClaim
    /\ \A c, d \in Call : ReplaceClaim(c) /\ ReplaceClaim(d) => c = d

SleepClaimStands == SleepLate => computer.state = "suspending"

\* The claim of whoever will not look again is not undone.
ClaimStands ==
    NothingOverwritten \/ (NoStopAsked /\ spent["boots"] = 0 /\ spent["strays"] = 0)

\* A run that starts after the second look gets no further than the state of the row.
LateIsAlone ==
    SleepLate \/ (\E c \in Call : ReplaceLate(c)) =>
        \A d \in Call : HoldsRun(d) => call[d].at = "reading"

LateStopIsAlone ==
    StopLate =>
        \A d \in Call : HoldsRun(d) /\ call[d].bot # stopper.bot => call[d].at = "reading"

ClaimsOK ==
    /\ NothingOverwritten => OneClaim /\ LateStopIsAlone
    /\ ClaimStands => SleepClaimStands /\ LateIsAlone

\* A boot is alone with its state and keeps the sandbox it found; a run that uses the
\* computer keeps it running, and a replacement that is refused puts that back.
BootIsAlone ==
    \A c \in Call :
        /\ call[c].at # "undoing"
        /\ Boots(c) => computer.state = "booting" /\ \A d \in Call : Boots(d) => d = c
        /\ call[c].at = "activating" /\ ~call[c].fresh => sandbox = "up"

UsedIsRunning ==
    \A c \in Call : Uses(c) =>
        /\ computer.state \in {"running", "suspending"}
        /\ \A d \in Call : call[d].at = "emptying" => call[d].prev = "running"

SandboxStays == NoStopAsked /\ ClaimStands => BootIsAlone /\ UsedIsRunning /\ UpUnderRun

WellFormed == ComputerTypeOK /\ CallsOK /\ AsksOK

ComputerIInv == WellFormed /\ ClaimsOK /\ SandboxStays /\ TransientHasOwner

-----------------------------------------------------------------------------
(* What steps do to the locals of a call, to the runs and to what is spent. *)

\* Call c goes to a stage, with the run and the bot it has; no other call moves.
Moves(c, stage) ==
    /\ call' \in [Call -> Locals]
    /\ call'[c].at = stage
    /\ \A d \in Call \ {c} : call'[d] = call[d]
    /\ \/ call'[c] = Idle(c)
       \/ /\ call'[c].kind = call[c].kind /\ call'[c].bot = call[c].bot
          /\ call'[c].run = call[c].run   /\ call'[c].holds = call[c].holds

\* No run begins to run.
RunsEnd ==
    /\ status' \in [Run -> Status]
    /\ \A r \in Run : status'[r] = "running" => status[r] = "running"

\* What is spent is not given back.
Grows ==
    /\ NoStopAsked' => NoStopAsked
    /\ NothingOverwritten' => NothingOverwritten
    /\ spent'["boots"] = 0 => spent["boots"] = 0
    /\ spent'["strays"] = 0 => spent["strays"] = 0
    /\ spent'["crashes"] = 0 => spent["crashes"] = 0

\* A call that is over has no run.
LEMMA IdleType ==
    ASSUME NEW c \in Call
    PROVE  Idle(c) \in Locals /\ Idle(c).at = "out" /\ ~Idle(c).holds /\ Idle(c).kind = "run"
<1>1. AnyBot \in Bot
  BY ComputerAssumption DEF AnyBot
<1> QED BY <1>1 DEF Idle, Locals, Kind, CallAt, State

\* Goes, of any step of a call: it moves to the stage, or is done.
LEMMA GoesMoves ==
    ASSUME NEW c \in Call, NEW stage \in CallAt, ComputerTypeOK, Goes(c, stage)
    PROVE  /\ Moves(c, stage)
           /\ stage # "out" => call'[c].prev = call[c].prev /\ call'[c].fresh = call[c].fresh
<1>1. call \in [Call -> Locals] /\ call[c] \in Locals
  BY DEF ComputerTypeOK
<1>2. CASE stage = "out"
  <2>1. call' = [call EXCEPT ![c] = Idle(c)]
    BY <1>2 DEF Goes
  <2> QED BY <1>1, <1>2, <2>1, IdleType DEF Moves
<1>3. CASE stage # "out"
  <2> DEFINE l == [call[c] EXCEPT !.at = stage]
  <2>1. call' = [call EXCEPT ![c] = l]
    BY <1>3 DEF Goes
  <2>2. l \in Locals /\ l.at = stage /\ l.kind = call[c].kind /\ l.bot = call[c].bot
        /\ l.run = call[c].run /\ l.holds = call[c].holds /\ l.prev = call[c].prev
        /\ l.fresh = call[c].fresh
    BY <1>1 DEF Locals
  <2> HIDE DEF l
  <2>3. call' \in [Call -> Locals] /\ call'[c] = l /\ \A d \in Call \ {c} : call'[d] = call[d]
    BY <1>1, <2>1, <2>2
  <2> QED BY <2>2, <2>3 DEF Moves
<1> QED BY <1>2, <1>3

\* What a call may hold after a step, it held before.
LEMMA HoldsLess ==
    ASSUME NEW c \in Call, NEW stage \in CallAt, WellFormed, Moves(c, stage), RunsEnd,
           NEW d \in Call, HoldsRun(d)'
    PROVE  /\ HoldsRun(d)
           /\ call'[d].bot = call[d].bot
           /\ d # c => call'[d].at = call[d].at
<1>1. CallOK(call[d])
  BY DEF WellFormed, CallsOK
<1>2. call'[d].holds /\ status'[call'[d].run] = "running"
  BY DEF HoldsRun
<1>3. call'[d].run = call[d].run /\ call'[d].bot = call[d].bot /\ call'[d].holds = call[d].holds
      /\ (d # c => call'[d].at = call[d].at)
  BY <1>2, IdleType DEF Moves
<1>4. call[d].run \in Run
  BY <1>1, <1>2, <1>3 DEF CallOK
<1> QED BY <1>2, <1>3, <1>4 DEF RunsEnd, HoldsRun

\* Nobody's runs move when no status does.
LEMMA SameRunsEnd ==
    ASSUME ComputerTypeOK, UNCHANGED status
    PROVE  RunsEnd
  BY DEF ComputerTypeOK, RunsEnd

\* Busy: the call is on its way out and its run is no longer its own.
LEMMA BusyMoves ==
    ASSUME NEW c \in Call, WellFormed, Busy(c)
    PROVE  Moves(c, "closing") /\ RunsEnd /\ ~HoldsRun(c)'
<1>1. ComputerTypeOK /\ CallOK(call[c]) /\ status \in [Run -> Status]
  BY DEF WellFormed, ComputerTypeOK, CallsOK
<1>2. Goes(c, "closing") /\ "closing" \in CallAt
  BY DEF Busy, CallAt
<1>3. Moves(c, "closing")
  BY <1>1, <1>2, GoesMoves
<1>4. call'[c].holds = call[c].holds /\ call'[c].run = call[c].run
  BY <1>3, IdleType DEF Moves
<1>5. status' = Requeued(c)
  BY DEF Busy
<1>6. CASE HoldsRun(c)
  <2>1. call[c].run \in Run
    BY <1>1, <1>6 DEF CallOK, HoldsRun
  <2>2. PICK s \in {"resuming", "queued"} : status' = [status EXCEPT ![call[c].run] = s]
    BY <1>5, <1>6 DEF Requeued
  <2> QED BY <1>1, <1>3, <1>4, <2>1, <2>2 DEF RunsEnd, Status, HoldsRun
<1>7. CASE ~HoldsRun(c)
  <2>1. status' = status
    BY <1>5, <1>7 DEF Requeued
  <2> QED BY <1>1, <1>3, <1>4, <1>7, <2>1 DEF RunsEnd, HoldsRun
<1> QED BY <1>6, <1>7

\* A run that is done, or waits, is no longer held.
LEMMA ParkedMoves ==
    ASSUME NEW c \in Call, WellFormed, HoldsRun(c), NEW s \in Status, s # "running",
           status' = [status EXCEPT ![call[c].run] = s]
    PROVE  RunsEnd
<1>1. CallOK(call[c]) /\ status \in [Run -> Status]
  BY DEF WellFormed, ComputerTypeOK, CallsOK
<1>2. call[c].run \in Run
  BY <1>1 DEF CallOK, HoldsRun
<1> QED BY <1>1, <1>2 DEF RunsEnd

\* Spending adds to one budget; a step that spends nothing gives nothing back either.
LEMMA SpendGrows ==
    ASSUME NEW n \in Budgets, NEW max, ComputerTypeOK, Spend(n, max)
    PROVE  /\ spent' \in [Budgets -> Nat] /\ Grows /\ spent'[n] # 0
           /\ \A m \in Budgets \ {n} : spent'[m] = spent[m]
<1>1. spent \in [Budgets -> Nat] /\ spent[n] \in Nat
  BY DEF ComputerTypeOK
<1>2. spent' = [spent EXCEPT ![n] = spent[n] + 1]
  BY DEF Spend
<1>3. spent' \in [Budgets -> Nat] /\ spent'[n] = spent[n] + 1
      /\ \A m \in Budgets \ {n} : spent'[m] = spent[m]
  BY <1>1, <1>2
<1> QED BY <1>1, <1>3 DEF Grows, NoStopAsked, NothingOverwritten, Budgets

\* What is spent stays as it is where nothing is spent.
LEMMA SameGrows ==
    ASSUME UNCHANGED spent
    PROVE  Grows
  BY DEF Grows, NoStopAsked, NothingOverwritten

-----------------------------------------------------------------------------
(* Steps that neither claim the computer nor give a claim up.               *)

HarmlessFor(d) ==
    /\ ReplaceClaim(d)' =>
           ReplaceClaim(d) /\ call'[d].at = call[d].at /\ call'[d].prev = call[d].prev
    /\ Boots(d)' => Boots(d) /\ call'[d].at = call[d].at /\ call'[d].fresh = call[d].fresh
    /\ call'[d].at = "undoing" => call[d].at = "undoing"
    /\ HoldsRun(d)' =>
           \/ call'[d].at = "reading"
           \/ /\ HoldsRun(d) /\ call'[d].bot = call[d].bot
              /\ call[d].at # "reading" \/ computer.state # "suspending"
    /\ Uses(d)' => Uses(d) \/ computer.state = "running"
    /\ Works(d)' => Works(d) \/ sandbox' = "up"

OwnersStay ==
    /\ SleepClaim => SleepClaim'
    /\ \A d \in Call : (Boots(d) => Boots(d)') /\ (ReplaceClaim(d) => ReplaceClaim(d)')

Harmless ==
    /\ computer'.state = computer.state
    /\ sandbox' \in {sandbox, "up"}
    /\ Grows
    /\ SleepClaim' => SleepClaim /\ (SleepLate' => SleepLate)
    /\ StopClaim' => StopClaim /\ stopper'.bot = stopper.bot /\ (StopLate' => StopLate)
    /\ spent'["crashes"] = 0 => OwnersStay
    /\ \A d \in Call : HarmlessFor(d)

\* What a step has to spare for the claims to stand.
Spares ==
    /\ Grows
    /\ computer.state = "suspending" => computer'.state = "suspending"
    /\ SleepClaim' => SleepClaim /\ (SleepLate' => SleepLate)
    /\ StopClaim' => StopClaim /\ stopper'.bot = stopper.bot /\ (StopLate' => StopLate)
    /\ \A d \in Call :
           /\ ReplaceClaim(d)' => ReplaceClaim(d)
           /\ ReplaceLate(d)' => ReplaceLate(d)
           /\ HoldsRun(d)' =>
                  \/ call'[d].at = "reading"
                  \/ /\ HoldsRun(d) /\ call'[d].bot = call[d].bot
                     /\ call[d].at # "reading" \/ computer.state # "suspending"

\* No claim is disturbed by such a step.
LEMMA ClaimsKept ==
    ASSUME ComputerIInv, Spares
    PROVE  ClaimsOK'
<1>1. ClaimsOK /\ Grows
  BY DEF ComputerIInv, Spares
<1>2. /\ \A d \in Call : ReplaceClaim(d)' => ReplaceClaim(d)
      /\ \A d \in Call : ReplaceLate(d)' => ReplaceLate(d)
      /\ SleepLate' => SleepLate
      /\ SleepClaim' => SleepClaim
      /\ StopClaim' => StopClaim /\ stopper'.bot = stopper.bot
      /\ StopLate' => StopLate
      /\ computer.state = "suspending" => computer'.state = "suspending"
      /\ \A d \in Call : HoldsRun(d)' =>
             \/ call'[d].at = "reading"
             \/ /\ HoldsRun(d) /\ call'[d].bot = call[d].bot
                /\ call[d].at # "reading" \/ computer.state # "suspending"
  BY DEF Spares, SleepLate, SleepClaim, StopLate, StopClaim
<1>3. ASSUME NothingOverwritten' PROVE OneClaim' /\ LateStopIsAlone'
  <2>1. OneClaim /\ LateStopIsAlone
    BY <1>1, <1>3 DEF ClaimsOK, Grows
  <2>2. OneClaim'
    BY <1>2, <2>1 DEF OneClaim
  <2>3. StopLate => computer.state = "suspending"
    BY <2>1 DEF OneClaim, StopLate, StopClaim
  <2>4. ASSUME StopLate', NEW d \in Call, HoldsRun(d)', call'[d].bot # stopper'.bot
        PROVE  call'[d].at = "reading"
    <3>1. StopLate /\ stopper'.bot = stopper.bot
      BY <1>2, <2>4 DEF StopLate, StopClaim
    <3> QED BY <1>2, <2>1, <2>3, <2>4, <3>1 DEF LateStopIsAlone
  <2> QED BY <2>2, <2>4 DEF LateStopIsAlone
<1>4. ASSUME ClaimStands' PROVE SleepClaimStands' /\ LateIsAlone'
  <2>1. ClaimStands
    BY <1>1, <1>4 DEF ClaimStands, Grows
  <2>2. SleepClaimStands /\ LateIsAlone
    BY <1>1, <2>1 DEF ClaimsOK
  <2>3. SleepClaimStands'
    BY <1>2, <2>2 DEF SleepClaimStands
  <2>4. (\E c \in Call : ReplaceLate(c)) => computer.state = "suspending"
    <3>1. CASE NothingOverwritten
      BY <1>1, <3>1 DEF ClaimsOK, OneClaim, ReplaceLate, ReplaceClaim
    <3>2. CASE spent["boots"] = 0
      BY <3>2 DEF ComputerIInv, WellFormed, AsksOK, CallsOK, CallOK, ReplaceLate
    <3> QED BY <2>1, <3>1, <3>2 DEF ClaimStands
  <2>5. LateIsAlone'
    BY <1>2, <2>2, <2>4 DEF LateIsAlone, SleepClaimStands
  <2> QED BY <2>3, <2>5
<1> QED BY <1>3, <1>4 DEF ClaimsOK

\* A harmless step is one.
LEMMA HarmlessClaims ==
    ASSUME ComputerIInv, Harmless
    PROVE  ClaimsOK'
<1>1. Spares
  BY DEF Harmless, HarmlessFor, Spares, ReplaceClaim, ReplaceLate
<1> QED BY <1>1, ClaimsKept

\* Nor is the sandbox taken away.
LEMMA HarmlessSandbox ==
    ASSUME ComputerIInv, Harmless
    PROVE  SandboxStays'
<1> SUFFICES ASSUME NoStopAsked', ClaimStands'
             PROVE  BootIsAlone' /\ UsedIsRunning' /\ UpUnderRun'
  BY DEF SandboxStays
<1>1. NoStopAsked /\ ClaimStands
  BY DEF Harmless, Grows, ClaimStands
<1>2. BootIsAlone /\ UsedIsRunning /\ UpUnderRun
  BY <1>1 DEF ComputerIInv, SandboxStays
<1>3. CallsOK
  BY DEF ComputerIInv, WellFormed
<1>4. /\ computer'.state = computer.state
      /\ sandbox' \in {sandbox, "up"}
      /\ \A d \in Call : HarmlessFor(d)
  BY DEF Harmless
<1>5. BootIsAlone'
  <2> SUFFICES ASSUME NEW c \in Call
               PROVE  /\ call'[c].at # "undoing"
                      /\ Boots(c)' => /\ computer'.state = "booting"
                                      /\ \A d \in Call : Boots(d)' => d = c
                      /\ call'[c].at = "activating" /\ ~call'[c].fresh => sandbox' = "up"
    BY DEF BootIsAlone
  <2>1. HarmlessFor(c)
    BY <1>4
  <2>2. \A d \in Call : Boots(d)' => Boots(d)
    BY <1>4 DEF HarmlessFor
  <2> QED BY <1>2, <1>4, <2>1, <2>2 DEF BootIsAlone, HarmlessFor, Boots
<1>6. UsedIsRunning'
  <2> SUFFICES ASSUME NEW c \in Call, Uses(c)'
               PROVE  /\ computer'.state \in {"running", "suspending"}
                      /\ \A d \in Call : call'[d].at = "emptying" => call'[d].prev = "running"
    BY DEF UsedIsRunning
  <2>1. Uses(c) \/ computer.state = "running"
    BY <1>4 DEF HarmlessFor
  <2>2. \A d \in Call : call'[d].at = "emptying" =>
            call[d].at = "emptying" /\ call'[d].prev = call[d].prev
    BY <1>4 DEF HarmlessFor, ReplaceClaim
  <2>3. CASE Uses(c)
    BY <1>2, <1>4, <2>2, <2>3 DEF UsedIsRunning
  <2>4. CASE computer.state = "running"
    <3>1. ASSUME NEW d \in Call PROVE ~ReplaceClaim(d)
      <4>1. CASE NothingOverwritten
        BY <2>4, <4>1 DEF ComputerIInv, ClaimsOK, OneClaim
      <4>2. CASE spent["boots"] = 0
        BY <4>2 DEF ComputerIInv, WellFormed, AsksOK, CallsOK, CallOK, ReplaceClaim
      <4> QED BY <1>1, <4>1, <4>2 DEF ClaimStands
    <3> QED BY <1>4, <2>2, <2>4, <3>1 DEF ReplaceClaim
  <2> QED BY <2>1, <2>3, <2>4
<1>7. UpUnderRun'
  <2> SUFFICES ASSUME NEW c \in Call, Works(c)'
               PROVE  sandbox' = "up"
    BY DEF UpUnderRun
  <2> QED BY <1>2, <1>4 DEF HarmlessFor, UpUnderRun
<1> QED BY <1>5, <1>6, <1>7

\* Whoever is to end a transient state is still there.
LEMMA HarmlessOwner ==
    ASSUME ComputerIInv, Harmless
    PROVE  TransientHasOwner'
<1> SUFFICES ASSUME NoStopAsked', spent'["crashes"] = 0
             PROVE  /\ computer'.state = "booting" => \E c \in Call : Boots(c)'
                    /\ computer'.state = "suspending" =>
                           SleepClaim' \/ \E c \in Call : ReplaceClaim(c)'
  BY DEF TransientHasOwner, Boots, SleepClaim, ReplaceClaim
<1>1. NoStopAsked /\ spent["crashes"] = 0 /\ computer'.state = computer.state /\ OwnersStay
  BY DEF Harmless, Grows
<1>2. /\ computer.state = "booting" => \E c \in Call : Boots(c)
      /\ computer.state = "suspending" => SleepClaim \/ \E c \in Call : ReplaceClaim(c)
  BY <1>1 DEF ComputerIInv, TransientHasOwner, Boots, SleepClaim, ReplaceClaim
<1> QED BY <1>1, <1>2 DEF OwnersStay

\* So a harmless step keeps the invariant.
LEMMA HarmlessKeeps ==
    ASSUME ComputerIInv, Harmless, WellFormed'
    PROVE  ComputerIInv'
  BY HarmlessClaims, HarmlessSandbox, HarmlessOwner DEF ComputerIInv

-----------------------------------------------------------------------------
(* Steps of a call between stages that claim nothing.                       *)

Quiet == CallAt \ {"emptying", "clearing", "giving", "failing", "booting", "activating", "undoing"}

\* What has to be said of such a step: it holds on to its run only past the look at a
\* computer that is suspending, and comes to use it only when it runs.
QuietMove(c, stage) ==
    /\ Moves(c, stage) /\ RunsEnd
    /\ call[c].at \in Quiet /\ stage \in Quiet
    /\ stage = "reconnecting" /\ call[c].at # "reconnecting" => computer.state = "running"
    /\ stage = "using" => call[c].at = "reconnecting" /\ sandbox' = "up"
    /\ stage = "asking" => call[c].at = "using"
    /\ HoldsRun(c)' => call[c].at # "reading" \/ computer.state # "suspending"

\* Such a move disturbs nobody.
LEMMA QuietIsHarmless ==
    ASSUME ComputerIInv, NEW c \in Call, NEW stage \in CallAt, QuietMove(c, stage),
           UNCHANGED <<computer, sleeper, stopper>>, sandbox' \in {sandbox, "up"}, Grows
    PROVE  Harmless
<1>1. WellFormed /\ Moves(c, stage) /\ RunsEnd
  BY DEF ComputerIInv, QuietMove
<1>2. ASSUME NEW d \in Call, d # c PROVE HarmlessFor(d)
  <2>1. call'[d] = call[d]
    BY <1>1, <1>2 DEF Moves
  <2>2. HoldsRun(d)' => HoldsRun(d)
    BY <1>1, HoldsLess
  <2> QED BY <2>1, <2>2 DEF HarmlessFor, ReplaceClaim, Boots, Uses, Works
<1>3. HarmlessFor(c)
  <2>1. call'[c].at = stage /\ stage \in Quiet /\ call[c].at \in Quiet
    BY DEF QuietMove, Moves
  <2>2. HoldsRun(c)' => HoldsRun(c) /\ call'[c].bot = call[c].bot
    BY <1>1, HoldsLess
  <2>3. ~ReplaceClaim(c)' /\ ~Boots(c)' /\ call'[c].at # "undoing"
    BY <2>1 DEF ReplaceClaim, Boots, Quiet
  <2>4. Uses(c)' => Uses(c) \/ computer.state = "running"
    BY <2>1, <2>2 DEF QuietMove, Uses
  <2>5. Works(c)' => Works(c) \/ sandbox' = "up"
    BY <2>1, <2>2 DEF QuietMove, Works
  <2> QED BY <2>2, <2>3, <2>4, <2>5 DEF HarmlessFor, QuietMove
<1>4. OwnersStay
  <2>1. \A d \in Call \ {c} : call'[d] = call[d]
    BY <1>1 DEF Moves
  <2>2. ~Boots(c) /\ ~ReplaceClaim(c)
    BY DEF QuietMove, Quiet, Boots, ReplaceClaim
  <2> QED BY <2>1, <2>2 DEF OwnersStay, Boots, ReplaceClaim, SleepClaim
<1> QED BY <1>2, <1>3, <1>4
        DEF Harmless, SleepClaim, SleepLate, StopClaim, StopLate

\* The locals of the calls after a step of one.
LEMMA CallsStayOK ==
    ASSUME WellFormed, NEW c \in Call, NEW stage \in CallAt, Moves(c, stage), CallOK(call'[c])
    PROVE  CallsOK' /\ \A d \in Call : call[d].kind = "run" => call'[d].kind = "run"
<1>1. \A d \in Call : CallOK(call[d])
  BY DEF WellFormed, CallsOK
<1> QED BY <1>1, IdleType DEF CallsOK, Moves

\* So it keeps the invariant, if the types are kept.
LEMMA QuietKeepsAll ==
    ASSUME ComputerIInv, NEW c \in Call, NEW stage \in CallAt, QuietMove(c, stage),
           UNCHANGED <<computer, sleeper, stopper>>, sandbox' \in {sandbox, "up"},
           Grows, spent' \in [Budgets -> Nat],
           lease' \in [Bot -> Lease \cup {NoLease}], CallOK(call'[c])
    PROVE  ComputerIInv'
<1>1. WellFormed /\ Moves(c, stage) /\ RunsEnd
  BY DEF ComputerIInv, QuietMove
<1>2. Harmless
  BY QuietIsHarmless
<1>3. ComputerTypeOK'
  BY <1>1 DEF WellFormed, ComputerTypeOK, Moves, RunsEnd
<1>4. CallsOK' /\ \A d \in Call : call[d].kind = "run" => call'[d].kind = "run"
  BY <1>1, CallsStayOK
<1>5. AsksOK'
  BY <1>1, <1>4 DEF WellFormed, AsksOK, Grows
<1> QED BY <1>2, <1>3, <1>4, <1>5, HarmlessKeeps DEF WellFormed

\* Most of them spend nothing.
LEMMA QuietKeeps ==
    ASSUME ComputerIInv, NEW c \in Call, NEW stage \in CallAt, QuietMove(c, stage),
           UNCHANGED <<computer, sleeper, stopper, spent>>, sandbox' \in {sandbox, "up"},
           lease' \in [Bot -> Lease \cup {NoLease}], CallOK(call'[c])
    PROVE  ComputerIInv'
<1>1. spent' \in [Budgets -> Nat]
  BY DEF ComputerIInv, WellFormed, ComputerTypeOK
<1> QED BY <1>1, SameGrows, QuietKeepsAll

\* What is to be said of the locals after such a step, from those before it.
LEMMA MovedOK ==
    ASSUME WellFormed, NEW c \in Call, NEW stage \in CallAt \ {"out"}, Moves(c, stage),
           stage \in {"looking", "claiming", "emptying", "clearing", "giving", "failing"} =>
               call[c].kind = "replace",
           stage \in {"claiming", "emptying"} => call'[c].prev \notin {"booting", "suspending"}
    PROVE  CallOK(call'[c])
<1>1. CallOK(call[c])
  BY DEF WellFormed, CallsOK
<1> QED BY <1>1, IdleType DEF Moves, CallOK


\* A call that has to give up what it took.
LEMMA BusyKeeps ==
    ASSUME ComputerIInv, NEW c \in Call, call[c].at \in Quiet, Busy(c),
           UNCHANGED <<computer, sandbox, lease, sleeper, stopper, spent>>
    PROVE  ComputerIInv'
<1>1. WellFormed
  BY DEF ComputerIInv
<1>2. Moves(c, "closing") /\ RunsEnd /\ ~HoldsRun(c)'
  BY <1>1, BusyMoves
<1>3. "closing" \in CallAt \ {"out"} /\ "closing" \in Quiet
  BY DEF CallAt, Quiet
<1>4. CallOK(call'[c])
  BY <1>1, <1>2, <1>3, MovedOK
<1>5. QuietMove(c, "closing")
  BY <1>2, <1>3 DEF QuietMove
<1>6. lease' \in [Bot -> Lease \cup {NoLease}]
  BY <1>1 DEF WellFormed, ComputerTypeOK
<1> QED BY <1>3, <1>4, <1>5, <1>6, QuietKeeps

\* A call that goes on, or returns.
LEMMA GoesKeeps ==
    ASSUME ComputerIInv, NEW c \in Call, NEW stage \in Quiet, call[c].at \in Quiet,
           Goes(c, stage), RunsEnd, lease' \in [Bot -> Lease \cup {NoLease}],
           UNCHANGED <<computer, sleeper, stopper, spent>>, sandbox' \in {sandbox, "up"},
           stage \notin {"claiming", "reconnecting", "asking"},
           stage = "using" => call[c].at = "reconnecting" /\ sandbox' = "up",
           stage = "looking" => call[c].kind = "replace",
           call[c].at = "reading" => computer.state # "suspending"
    PROVE  ComputerIInv'
<1>1. WellFormed /\ ComputerTypeOK /\ stage \in CallAt
  BY DEF ComputerIInv, WellFormed, Quiet
<1>2. Moves(c, stage)
  BY <1>1, GoesMoves
<1>3. CallOK(call'[c])
  <2>1. CASE stage = "out"
    BY <2>1, <1>1, <1>2, IdleType, MovedOK DEF Goes, ComputerTypeOK, CallOK
  <2>2. CASE stage # "out"
    BY <2>2, <1>1, <1>2, MovedOK DEF Quiet
  <2> QED BY <2>1, <2>2
<1>4. QuietMove(c, stage)
  BY <1>2 DEF QuietMove
<1> QED BY <1>1, <1>3, <1>4, QuietKeeps

\* The look at the state before a lease: a suspending computer sends the run away.
LEMMA ReadStateKeeps ==
    ASSUME ComputerIInv, NEW c \in Call, ReadState(c)
    PROVE  ComputerIInv'
<1>1. call[c].at \in Quiet /\ {"acquiring"} \subseteq Quiet
  BY DEF ReadState, Quiet, CallAt
<1>2. lease' \in [Bot -> Lease \cup {NoLease}] /\ ComputerTypeOK
  BY DEF ReadState, ComputerIInv, WellFormed, ComputerTypeOK
<1>3. CASE computer.state = "suspending"
  BY <1>1, <1>3, BusyKeeps DEF ReadState
<1>4. CASE computer.state # "suspending"
  BY <1>1, <1>2, <1>4, GoesKeeps, SameRunsEnd DEF ReadState
<1> QED BY <1>3, <1>4

\* The lease of its bot, with a fence of its own.
LEMMA AcquireKeeps ==
    ASSUME ComputerIInv, NEW c \in Call, Acquire(c)
    PROVE  ComputerIInv'
<1> DEFINE b == call[c].bot
           Takes(fence) == /\ lease' = [lease EXCEPT ![b] =
                                  [run |-> call[c].run, fence |-> fence, ends |-> "live"]]
                           /\ call' = [call EXCEPT ![c].at = "validating", ![c].fence = fence]
                           /\ UNCHANGED status
<1>1. call[c].at \in Quiet /\ call[c].at = "acquiring" /\ {"validating"} \subseteq Quiet
      /\ "validating" \in CallAt \ {"out"}
  BY DEF Acquire, Quiet, CallAt
<1>2. WellFormed /\ ComputerTypeOK /\ call[c] \in Locals /\ call \in [Call -> Locals]
      /\ b \in Bot /\ lease \in [Bot -> Lease \cup {NoLease}]
  BY DEF ComputerIInv, WellFormed, ComputerTypeOK, Locals
<1>3. UNCHANGED <<computer, sandbox, sleeper, stopper, spent>>
  BY DEF Acquire
<1>4. ASSUME NEW fence \in Nat \ {0}, Takes(fence)
      PROVE  ComputerIInv'
  <2>1. [run |-> call[c].run, fence |-> fence, ends |-> "live"] \in Lease
    BY <1>2 DEF Lease, Ends, Locals
  <2>2. lease' \in [Bot -> Lease \cup {NoLease}]
    BY <1>2, <1>4, <2>1
  <2> DEFINE l == [call[c] EXCEPT !.at = "validating", !.fence = fence]
  <2>3. l \in Locals /\ l.at = "validating" /\ l.kind = call[c].kind /\ l.bot = call[c].bot
        /\ l.run = call[c].run /\ l.holds = call[c].holds
    BY <1>2 DEF Locals, CallAt
  <2>4. call' = [call EXCEPT ![c] = l]
    BY <1>2, <1>4
  <2> HIDE DEF l
  <2>5. Moves(c, "validating")
    BY <1>2, <2>3, <2>4 DEF Moves
  <2>6. RunsEnd
    BY <1>2, <1>4, SameRunsEnd
  <2>7. QuietMove(c, "validating")
    BY <1>1, <2>5, <2>6 DEF QuietMove
  <2>8. CallOK(call'[c])
    BY <1>1, <1>2, <2>5, MovedOK
  <2> QED BY <1>1, <1>3, <2>2, <2>7, <2>8, QuietKeeps
<1>5. CASE Reclaimable(c) /\ Takes(lease[b].fence + 1)
  <2>1. lease[b].fence + 1 \in Nat \ {0}
    BY <1>2, <1>5 DEF Reclaimable, Lease
  <2> QED BY <1>4, <1>5, <2>1
<1>6. CASE Takes(FirstFence)
  <2>1. FirstFence \in Nat \ {0}
    BY DEF FirstFence
  <2> QED BY <1>4, <1>6, <2>1
<1>7. CASE Busy(c) /\ UNCHANGED lease
  BY <1>1, <1>3, <1>7, BusyKeeps
<1> QED BY <1>5, <1>6, <1>7 DEF Acquire

\* The look at the state after the lease.
LEMMA ValidateKeeps ==
    ASSUME ComputerIInv, NEW c \in Call, Validate(c)
    PROVE  ComputerIInv'
<1>1. call[c].at \in Quiet /\ {"looking", "entering"} \subseteq Quiet
      /\ call[c].at = "validating"
  BY DEF Validate, Quiet, CallAt
<1>2. lease' \in [Bot -> Lease \cup {NoLease}] /\ ComputerTypeOK
  BY DEF Validate, ComputerIInv, WellFormed, ComputerTypeOK
<1>3. CASE computer.state = "suspending"
  BY <1>1, <1>3, BusyKeeps DEF Validate
<1>4. CASE computer.state # "suspending"
  <2>1. RunsEnd
    BY <1>2, <1>4, SameRunsEnd DEF Validate
  <2>2. CASE call[c].kind = "replace"
    BY <1>1, <1>2, <1>4, <2>1, <2>2, GoesKeeps DEF Validate
  <2>3. CASE call[c].kind # "replace"
    BY <1>1, <1>2, <1>4, <2>1, <2>3, GoesKeeps DEF Validate
  <2> QED BY <2>2, <2>3
<1> QED BY <1>3, <1>4

\* What a holder gives back is its own row, or none.
LEMMA CloseKeeps ==
    ASSUME ComputerIInv, NEW c \in Call, Close(c)
    PROVE  ComputerIInv'
<1>1. call[c].at \in Quiet /\ call[c].at = "closing" /\ "out" \in Quiet
  BY DEF Close, Quiet, CallAt
<1>2. ComputerTypeOK /\ lease \in [Bot -> Lease \cup {NoLease}]
  BY DEF ComputerIInv, WellFormed, ComputerTypeOK
<1>3. lease' \in [Bot -> Lease \cup {NoLease}]
  BY <1>2 DEF Close
<1>4. RunsEnd
  BY <1>2, SameRunsEnd DEF Close
<1> QED BY <1>1, <1>3, <1>4, GoesKeeps DEF Close

\* provisionComputer before it books the boot: what the call has read decides.
LEMMA EnterKeeps ==
    ASSUME ComputerIInv, NEW c \in Call, Enter(c) \/ Await(c)
    PROVE  ComputerIInv'
<1>1. call[c].at \in {"entering", "awaiting"} /\ call[c].at \in Quiet
  BY DEF Enter, Await, Quiet, CallAt
<1>2. WellFormed /\ ComputerTypeOK /\ call \in [Call -> Locals] /\ call[c] \in Locals
      /\ computer.ref \in BOOLEAN
  BY DEF ComputerIInv, WellFormed, ComputerTypeOK
<1>3. PICK s \in {"reconnecting", "awaiting", "booking"} :
          /\ call' = [call EXCEPT ![c].fresh = ~computer.ref, ![c].at = s]
          /\ s = "reconnecting" => computer.state = "running"
  <2>1. CASE Enter(c)
    <3>1. CASE computer.state = "running" /\ computer.ref
      BY <2>1, <3>1 DEF Enter
    <3>2. CASE ~(computer.state = "running" /\ computer.ref)
               /\ computer.state \in {"booting", "suspending"}
      BY <2>1, <3>2 DEF Enter
    <3>3. CASE ~(computer.state = "running" /\ computer.ref)
               /\ computer.state \notin {"booting", "suspending"}
      BY <2>1, <3>3 DEF Enter
    <3> QED BY <3>1, <3>2, <3>3
  <2>2. CASE Await(c)
    BY <2>2 DEF Await
  <2> QED BY <2>1, <2>2
<1>4. call' = [call EXCEPT ![c] = [call[c] EXCEPT !.fresh = ~computer.ref, !.at = s]]
  BY <1>2, <1>3
<1>5. [call[c] EXCEPT !.fresh = ~computer.ref, !.at = s] \in Locals
  BY <1>2 DEF Locals, CallAt
<1>6. Moves(c, s)
  BY <1>2, <1>4, <1>5 DEF Moves, Locals
<1>7. s \in CallAt \ {"out"} /\ s \in Quiet
  BY DEF CallAt, Quiet
<1>8. CallOK(call'[c])
  BY <1>2, <1>6, <1>7, MovedOK
<1>9. RunsEnd /\ UNCHANGED <<computer, sandbox, lease, sleeper, stopper, spent>>
  BY <1>2, SameRunsEnd DEF Enter, Await
<1>10. QuietMove(c, s)
  BY <1>1, <1>3, <1>6, <1>7, <1>9 DEF QuietMove
<1>11. lease' \in [Bot -> Lease \cup {NoLease}]
  BY <1>2, <1>9 DEF ComputerTypeOK
<1> QED BY <1>7, <1>8, <1>9, <1>10, <1>11, QuietKeeps

\* A run comes to use a computer that runs, with its sandbox up.
LEMMA ReconnectKeeps ==
    ASSUME ComputerIInv, NEW c \in Call, Reconnect(c)
    PROVE  ComputerIInv'
<1>1. call[c].at \in Quiet /\ call[c].at = "reconnecting" /\ {"using", "closing"} \subseteq Quiet
  BY DEF Reconnect, Quiet, CallAt
<1>2. ComputerTypeOK /\ lease' \in [Bot -> Lease \cup {NoLease}]
  BY DEF Reconnect, ComputerIInv, WellFormed, ComputerTypeOK
<1>3. CASE Busy(c) /\ UNCHANGED sandbox
  BY <1>1, <1>3, BusyKeeps DEF Reconnect
<1>4. CASE /\ sandbox' = "up"
           /\ Goes(c, IF call[c].kind = "run" THEN "using" ELSE "closing")
           /\ UNCHANGED status
  <2>1. RunsEnd
    BY <1>2, <1>4, SameRunsEnd
  <2>2. CASE call[c].kind = "run"
    BY <1>1, <1>2, <1>4, <2>1, <2>2, GoesKeeps DEF Reconnect
  <2>3. CASE call[c].kind # "run"
    BY <1>1, <1>2, <1>4, <2>1, <2>3, GoesKeeps DEF Reconnect
  <2> QED BY <2>2, <2>3
<1> QED BY <1>3, <1>4 DEF Reconnect

\* The end of a run.
LEMMA FinishKeeps ==
    ASSUME ComputerIInv, NEW c \in Call, Finish(c)
    PROVE  ComputerIInv'
<1>1. call[c].at \in Quiet /\ call[c].at = "using" /\ "closing" \in Quiet
  BY DEF Finish, Quiet, CallAt
<1>2. WellFormed /\ ComputerTypeOK /\ lease' \in [Bot -> Lease \cup {NoLease}]
  BY DEF Finish, ComputerIInv, WellFormed, ComputerTypeOK
<1>3. RunsEnd
  BY <1>2, SameRunsEnd, ParkedMoves DEF Finish, Status
<1> QED BY <1>1, <1>2, <1>3, GoesKeeps DEF Finish

\* The lease is held for the takeover, or the run fails.
LEMMA HoldKeeps ==
    ASSUME ComputerIInv, NEW c \in Call, Hold(c)
    PROVE  ComputerIInv'
<1>1. call[c].at \in Quiet /\ call[c].at = "holding" /\ {"closing", "pausing"} \subseteq Quiet
  BY DEF Hold, Quiet, CallAt
<1>2. WellFormed /\ ComputerTypeOK /\ lease \in [Bot -> Lease \cup {NoLease}]
      /\ call[c] \in Locals /\ call[c].bot \in Bot
  BY DEF ComputerIInv, WellFormed, ComputerTypeOK, Locals
<1>3. CASE HasRow(c)
  <2>1. lease' = [lease EXCEPT ![call[c].bot].ends = "held"] /\ Goes(c, "pausing")
        /\ UNCHANGED status
    BY <1>3 DEF Hold
  <2>2. lease[call[c].bot] \in Lease
    BY <1>2, <1>3 DEF HasRow
  <2>3. [lease[call[c].bot] EXCEPT !.ends = "held"] \in Lease
    BY <2>2 DEF Lease, Ends
  <2>4. lease' \in [Bot -> Lease \cup {NoLease}]
    BY <1>2, <2>1, <2>3
  <2>5. RunsEnd
    BY <1>2, <2>1, SameRunsEnd
  <2> QED BY <1>1, <2>1, <2>4, <2>5, GoesKeeps DEF Hold
<1>4. CASE ~HasRow(c)
  <2>1. Goes(c, "closing") /\ UNCHANGED lease
        /\ status' = IF HoldsRun(c) THEN [status EXCEPT ![call[c].run] = "done"] ELSE status
    BY <1>4 DEF Hold
  <2>2. RunsEnd
    BY <1>2, <2>1, SameRunsEnd, ParkedMoves DEF Status
  <2> QED BY <1>1, <1>2, <2>1, <2>2, GoesKeeps DEF Hold
<1> QED BY <1>3, <1>4

\* The run waits for the takeover, or has been taken by another handler.
LEMMA PauseKeeps ==
    ASSUME ComputerIInv, NEW c \in Call, Pause(c)
    PROVE  ComputerIInv'
<1>1. call[c].at \in Quiet /\ call[c].at = "pausing" /\ {"out", "closing"} \subseteq Quiet
  BY DEF Pause, Quiet, CallAt
<1>2. WellFormed /\ ComputerTypeOK /\ lease' \in [Bot -> Lease \cup {NoLease}]
  BY DEF Pause, ComputerIInv, WellFormed, ComputerTypeOK
<1>3. RunsEnd
  BY <1>2, SameRunsEnd, ParkedMoves DEF Pause, Status
<1> QED BY <1>1, <1>2, <1>3, GoesKeeps DEF Pause

\* A replacement reads the state that it is going to claim, or to put back.
LEMMA LookKeeps ==
    ASSUME ComputerIInv, NEW c \in Call, Look(c)
    PROVE  ComputerIInv'
<1>1. call[c].at \in Quiet /\ call[c].at = "looking" /\ "claiming" \in Quiet
      /\ "claiming" \in CallAt \ {"out"}
  BY DEF Look, Quiet, CallAt
<1>2. WellFormed /\ ComputerTypeOK /\ call \in [Call -> Locals] /\ call[c] \in Locals
      /\ computer.ref \in BOOLEAN /\ computer.state \in State
      /\ lease' \in [Bot -> Lease \cup {NoLease}]
  BY DEF Look, ComputerIInv, WellFormed, ComputerTypeOK
<1>3. CASE computer.state \in {"booting", "suspending"}
  BY <1>1, <1>3, BusyKeeps DEF Look
<1>4. CASE computer.state \notin {"booting", "suspending"}
  <2> DEFINE l == [call[c] EXCEPT !.at = "claiming", !.prev = computer.state,
                                  !.fresh = ~computer.ref]
  <2>1. call' = [call EXCEPT ![c] = l] /\ RunsEnd
    BY <1>2, <1>4, SameRunsEnd DEF Look
  <2>2. l \in Locals /\ l.at = "claiming" /\ l.kind = call[c].kind /\ l.bot = call[c].bot
        /\ l.run = call[c].run /\ l.holds = call[c].holds /\ l.prev = computer.state
    BY <1>2 DEF Locals, CallAt
  <2> HIDE DEF l
  <2>3. Moves(c, "claiming") /\ call'[c].prev = computer.state
    BY <1>2, <2>1, <2>2 DEF Moves
  <2>4. call[c].kind = "replace"
    BY <1>1, <1>2 DEF WellFormed, CallsOK, CallOK
  <2>5. CallOK(call'[c])
    BY <1>1, <1>2, <1>4, <2>3, <2>4, MovedOK
  <2>6. QuietMove(c, "claiming")
    BY <1>1, <2>1, <2>3 DEF QuietMove
  <2> QED BY <1>1, <1>2, <2>5, <2>6, QuietKeeps DEF Look
<1> QED BY <1>3, <1>4

-----------------------------------------------------------------------------
(* Steps that start or end a call from outside, or move no call at all.     *)

\* A step of the sleep job, of a stop or of the world that claims nothing new.
LEMMA StandKeeps ==
    ASSUME ComputerIInv, UNCHANGED <<call, sandbox>>, RunsEnd, Grows, ComputerTypeOK',
           computer'.state = computer.state,
           SleepClaim' => SleepClaim /\ (SleepLate' => SleepLate),
           StopClaim' => StopClaim /\ stopper'.bot = stopper.bot /\ (StopLate' => StopLate),
           spent'["crashes"] = 0 => (SleepClaim => SleepClaim'),
           NoStopAsked' => stopper'.at = "out"
    PROVE  ComputerIInv'
<1>1. WellFormed
  BY DEF ComputerIInv
<1>2. CallsOK'
  BY <1>1 DEF WellFormed, CallsOK
<1>3. AsksOK'
  BY <1>1 DEF WellFormed, AsksOK, Grows
<1>4. ASSUME NEW d \in Call PROVE HarmlessFor(d)
  <2>1. HoldsRun(d)' => HoldsRun(d)
    BY <1>1 DEF WellFormed, CallsOK, CallOK, RunsEnd, HoldsRun
  <2> QED BY <2>1 DEF HarmlessFor, ReplaceClaim, Boots, Uses, Works
<1>5. spent'["crashes"] = 0 => OwnersStay
  BY DEF OwnersStay, Boots, ReplaceClaim
<1>6. Harmless
  BY <1>4, <1>5 DEF Harmless
<1> QED BY <1>2, <1>3, <1>6, HarmlessKeeps DEF WellFormed

\* Messages and releases make runs wait for a handler.
LEMMA MessagesKeep ==
    ASSUME ComputerIInv, NEW r \in Run, SendMessage(r) \/ ReleaseTakeover(r)
    PROVE  ComputerIInv'
<1>1. ComputerTypeOK /\ status \in [Run -> Status] /\ AsksOK
  BY DEF ComputerIInv, WellFormed, ComputerTypeOK
<1>2. UNCHANGED <<computer, sandbox, lease, call, sleeper, stopper, spent>>
  BY DEF SendMessage, ReleaseTakeover
<1>3. PICK s \in {"queued", "resuming"} : status' = [status EXCEPT ![r] = s]
  BY DEF SendMessage, ReleaseTakeover
<1>4. RunsEnd
  BY <1>1, <1>3 DEF RunsEnd, Status
<1>5. ComputerTypeOK'
  BY <1>1, <1>2, <1>4 DEF ComputerTypeOK, RunsEnd
<1>6. NoStopAsked' => stopper'.at = "out"
  BY <1>1, <1>2 DEF AsksOK, NoStopAsked
<1> QED BY <1>2, <1>4, <1>5, <1>6, SameGrows, StandKeeps
        DEF SleepClaim, SleepLate, StopClaim, StopLate

\* Time and heartbeats decide when a lease ends.
LEMMA TimeKeeps ==
    ASSUME ComputerIInv,
           \/ \E b \in Bot : LeaseEnds(b) \/ LeaseLapses(b)
           \/ \E c \in Call : Heartbeat(c)
    PROVE  ComputerIInv'
<1>1. ComputerTypeOK /\ lease \in [Bot -> Lease \cup {NoLease}] /\ AsksOK
      /\ \A c \in Call : call[c] \in Locals /\ call[c].bot \in Bot
  BY DEF ComputerIInv, WellFormed, ComputerTypeOK, Locals
<1>2. UNCHANGED <<computer, sandbox, status, call, sleeper, stopper>>
  BY DEF LeaseEnds, LeaseLapses, Heartbeat
<1>3. PICK b \in Bot, e \in {"over", "live"} :
          lease[b] # NoLease /\ lease' = [lease EXCEPT ![b].ends = e]
  BY <1>1 DEF LeaseEnds, LeaseLapses, Heartbeat, HasRow
<1>4. [lease[b] EXCEPT !.ends = e] \in Lease
  BY <1>1, <1>3 DEF Lease, Ends
<1>5. lease' \in [Bot -> Lease \cup {NoLease}]
  BY <1>1, <1>3, <1>4
<1>6. Grows /\ spent' \in [Budgets -> Nat]
  <2>1. CASE UNCHANGED spent
    BY <1>1, <2>1, SameGrows DEF ComputerTypeOK
  <2>2. CASE Spend("lapses", MaxLapses)
    BY <1>1, <2>2, SpendGrows DEF Budgets
  <2> QED BY <2>1, <2>2 DEF LeaseEnds, LeaseLapses, Heartbeat
<1>7. ComputerTypeOK'
  BY <1>1, <1>2, <1>5, <1>6 DEF ComputerTypeOK
<1>8. NoStopAsked' => stopper'.at = "out"
  BY <1>1, <1>2, <1>6 DEF AsksOK, Grows
<1>9. RunsEnd
  BY <1>1, <1>2, SameRunsEnd
<1> QED BY <1>2, <1>6, <1>7, <1>8, <1>9, StandKeeps
        DEF SleepClaim, SleepLate, StopClaim, StopLate

\* The sleep job before it claims, and where it ends for want of a claim or of a process.
LEMMA SleepLooksKeeps ==
    ASSUME ComputerIInv,
           SleepReads \/ SleepLooks \/ CrashSleeper \/ (SleepClaims /\ ~StillIdle)
    PROVE  ComputerIInv'
<1>1. ComputerTypeOK /\ AsksOK
  BY DEF ComputerIInv, WellFormed
<1>2. UNCHANGED <<sandbox, lease, status, call, stopper>> /\ computer'.state = computer.state
      /\ computer' \in [state : State, ref : BOOLEAN, moved : BOOLEAN]
  BY <1>1 DEF SleepReads, SleepLooks, CrashSleeper, SleepClaims, ComputerTypeOK
<1>3. Grows /\ spent' \in [Budgets -> Nat] /\ (spent'["crashes"] = 0 => ~CrashSleeper)
  <2>1. CASE SleepReads
    <3>1. Spend("sleeps", MaxSleeps) /\ sleeper.at = "out"
      BY <2>1 DEF SleepReads
    <3> QED BY <1>1, <3>1, SpendGrows DEF Budgets, CrashSleeper
  <2>2. CASE CrashSleeper
    BY <1>1, <2>2, SpendGrows DEF Budgets, CrashSleeper
  <2>3. CASE ~CrashSleeper /\ (SleepLooks \/ SleepClaims)
    <3>1. UNCHANGED spent
      BY <2>3 DEF SleepLooks, SleepClaims
    <3> QED BY <1>1, <2>3, <3>1, SameGrows DEF ComputerTypeOK
  <2> QED BY <2>1, <2>2, <2>3
<1>4. /\ sleeper' \in [at : {"out", "looking", "saving", "checking", "stopping", "recording"},
                       control : BOOLEAN]
      /\ ~SleepClaim'
      /\ SleepClaim => CrashSleeper
  <2>1. CASE SleepReads
    <3>1. PICK held \in BOOLEAN : sleeper' = [at |-> "looking", control |-> held]
      BY <2>1 DEF SleepReads
    <3>2. sleeper.at = "out"
      BY <2>1 DEF SleepReads
    <3> QED BY <3>1, <3>2 DEF SleepClaim
  <2>2. CASE sleeper' = NotAsleep /\ (CrashSleeper \/ sleeper.at \in {"looking", "saving"})
    <3>1. sleeper' = [at |-> "out", control |-> FALSE]
      BY <2>2 DEF NotAsleep
    <3> QED BY <2>2, <3>1 DEF SleepClaim
  <2>3. CASE sleeper' = [sleeper EXCEPT !.at = "saving"] /\ sleeper.at = "looking"
    <3>1. sleeper'.at = "saving" /\ sleeper'.control = sleeper.control
      BY <1>1, <2>3 DEF ComputerTypeOK
    <3> QED BY <1>1, <2>3, <3>1 DEF SleepClaim, ComputerTypeOK
  <2>4. CASE SleepLooks
    BY <2>2, <2>3, <2>4 DEF SleepLooks, SleeperGoes
  <2>5. CASE CrashSleeper
    BY <2>2, <2>5 DEF CrashSleeper, SleeperGoes
  <2>6. CASE SleepClaims /\ ~StillIdle
    BY <2>2, <2>6 DEF SleepClaims, SleeperGoes
  <2> QED BY <2>1, <2>4, <2>5, <2>6
<1>5. ComputerTypeOK'
  BY <1>1, <1>2, <1>3, <1>4 DEF ComputerTypeOK
<1>6. NoStopAsked' => stopper'.at = "out"
  BY <1>1, <1>2, <1>3 DEF AsksOK, Grows
<1>7. RunsEnd
  BY <1>1, <1>2, SameRunsEnd
<1> QED BY <1>2, <1>3, <1>4, <1>5, <1>6, <1>7, StandKeeps DEF StopClaim, StopLate

\* A stop before it claims, and after its second look until it stops the sandbox.
LEMMA StopLooksKeeps ==
    ASSUME ComputerIInv,
           \/ \E b \in Bot : StopReads(b)
           \/ StopDeletesLease
           \/ StopClaims /\ stopper' = NoStop /\ UNCHANGED computer
    PROVE  ComputerIInv'
<1>1. ComputerTypeOK /\ AsksOK
  BY DEF ComputerIInv, WellFormed
<1>2. UNCHANGED <<computer, sandbox, status, call, sleeper>>
  BY DEF StopReads, StopDeletesLease, StopClaims
<1>3. Grows /\ spent' \in [Budgets -> Nat] /\ (NoStopAsked' => stopper'.at = "out")
  <2>1. CASE \E b \in Bot : StopReads(b)
    <3>1. Spend("stops", MaxAsks)
      BY <2>1 DEF StopReads, Ask
    <3> QED BY <1>1, <3>1, SpendGrows DEF Budgets, NoStopAsked
  <2>2. CASE StopDeletesLease
    <3>1. UNCHANGED spent /\ ~NoStopAsked
      BY <1>1, <2>2 DEF StopDeletesLease, AsksOK
    <3> QED BY <1>1, <3>1, SameGrows DEF ComputerTypeOK, NoStopAsked
  <2>3. CASE StopClaims /\ stopper' = NoStop
    <3>1. UNCHANGED spent
      BY <2>3 DEF StopClaims
    <3> QED BY <1>1, <2>3, <3>1, SameGrows DEF ComputerTypeOK, NoStop
  <2> QED BY <2>1, <2>2, <2>3
<1>4. AnyBot \in Bot
  BY ComputerAssumption DEF AnyBot
<1>5. /\ stopper' \in [at : {"out", "claiming", "checking", "deleting", "stopping", "recording"},
                       bot : Bot, prev : State, ref : BOOLEAN]
      /\ StopClaim' => StopClaim /\ stopper'.bot = stopper.bot /\ (StopLate' => StopLate)
  <2>1. CASE \E b \in Bot : StopReads(b)
    BY <1>1, <2>1 DEF StopReads, StopClaim, StopLate, ComputerTypeOK
  <2>2. CASE StopDeletesLease
    BY <1>1, <2>2 DEF StopDeletesLease, StopClaim, StopLate, ComputerTypeOK
  <2>3. CASE stopper' = NoStop
    BY <1>1, <1>4, <2>3 DEF NoStop, StopClaim, StopLate, ComputerTypeOK, State
  <2> QED BY <2>1, <2>2, <2>3
<1>6. lease' \in [Bot -> Lease \cup {NoLease}]
  BY <1>1 DEF StopReads, StopDeletesLease, StopClaims, ComputerTypeOK
<1>7. ComputerTypeOK'
  BY <1>1, <1>2, <1>3, <1>5, <1>6 DEF ComputerTypeOK
<1>8. RunsEnd
  BY <1>1, <1>2, SameRunsEnd
<1> QED BY <1>2, <1>3, <1>5, <1>7, <1>8, StandKeeps DEF SleepClaim, SleepLate

\* A handler that loses its run.
LEMMA LessType ==
    ASSUME NEW l \in Locals, NEW h \in BOOLEAN
    PROVE  LET less == [l EXCEPT !.holds = h]
           IN  /\ less \in Locals /\ less.at = l.at /\ less.bot = l.bot /\ less.run = l.run
               /\ less.kind = l.kind /\ less.prev = l.prev /\ less.fresh = l.fresh
               /\ less.holds = h
  BY DEF Locals

\* A handler that leases a run takes it from whoever held it, and has looked at nothing.
LEMMA StartRunKeeps ==
    ASSUME ComputerIInv, NEW c \in Call, NEW r \in Run, StartRun(c, r)
    PROVE  ComputerIInv'
<1> DEFINE mine     == [Idle(c) EXCEPT !.at = "reading", !.bot = BotOf[r], !.run = r,
                           !.holds = TRUE,
                           !.resume = status[r] \in {"resuming", "waiting_takeover"}]
           less(d)  == [call[d] EXCEPT !.holds = @ /\ call[d].run # r]
<1>1. WellFormed /\ ComputerTypeOK /\ AsksOK /\ CallsOK /\ status \in [Run -> Status]
      /\ call \in [Call -> Locals] /\ \A d \in Call : call[d] \in Locals
  BY DEF ComputerIInv, WellFormed, ComputerTypeOK
<1>2. /\ call[c].at = "out"
      /\ status' = [status EXCEPT ![r] = "running"]
      /\ call' = [d \in Call |-> IF d = c THEN mine ELSE less(d)]
      /\ UNCHANGED <<computer, sandbox, lease, sleeper, stopper>>
  BY DEF StartRun
<1>3. mine \in Locals /\ mine.at = "reading" /\ mine.bot = BotOf[r] /\ mine.run = r
      /\ mine.holds /\ mine.kind = "run"
  <2> DEFINE h == status[r] \in {"resuming", "waiting_takeover"}
  <2>1. h \in BOOLEAN
    OBVIOUS
  <2> HIDE DEF h
  <2>2. [Idle(c) EXCEPT !.at = "reading", !.bot = BotOf[r], !.run = r, !.holds = TRUE,
                        !.resume = h] = mine
    BY DEF h
  <2>3. Idle(c) \in Locals /\ Idle(c).kind = "run"
    BY IdleType
  <2> DEFINE m == [Idle(c) EXCEPT !.at = "reading", !.bot = BotOf[r], !.run = r, !.holds = TRUE,
                                  !.resume = h]
  <2>4. BotOf[r] \in Bot
    BY ComputerAssumption
  <2>5. m \in Locals /\ m.at = "reading" /\ m.bot = BotOf[r] /\ m.run = r /\ m.holds = TRUE
        /\ m.kind = "run"
    BY <2>1, <2>3, <2>4 DEF Locals, CallAt
  <2> QED BY <2>2, <2>5
<1>4. ASSUME NEW d \in Call
      PROVE  /\ less(d) \in Locals /\ less(d).at = call[d].at /\ less(d).bot = call[d].bot
             /\ less(d).run = call[d].run /\ less(d).kind = call[d].kind
             /\ less(d).prev = call[d].prev /\ less(d).fresh = call[d].fresh
             /\ less(d).holds => call[d].holds /\ call[d].run # r
  <2> DEFINE h == call[d].holds /\ call[d].run # r
  <2>1. h \in BOOLEAN /\ (h => call[d].holds /\ call[d].run # r)
    OBVIOUS
  <2>2. less(d) = [call[d] EXCEPT !.holds = h]
    OBVIOUS
  <2> HIDE DEF h, less
  <2> QED BY <1>1, <2>1, <2>2, LessType
<1> HIDE DEF mine, less
<1>5. call'[c] = mine /\ \A d \in Call \ {c} : call'[d] = less(d)
  BY <1>2
<1>6. call' \in [Call -> Locals]
  BY <1>2, <1>3, <1>4
<1>7. Grows /\ spent' \in [Budgets -> Nat]
  <2>1. CASE UNCHANGED spent
    BY <1>1, <2>1, SameGrows DEF ComputerTypeOK
  <2>2. CASE Spend("lapses", MaxLapses)
    BY <1>1, <2>2, SpendGrows DEF Budgets
  <2> QED BY <2>1, <2>2 DEF StartRun
<1>8. ComputerTypeOK'
  BY <1>1, <1>2, <1>6, <1>7 DEF ComputerTypeOK, Status
<1>9. CallsOK'
  <2>1. CallOK(call'[c])
    BY <1>3, <1>5 DEF CallOK
  <2>2. ASSUME NEW d \in Call, d # c PROVE CallOK(call'[d])
    BY <1>1, <1>4, <1>5, <2>2 DEF CallsOK, CallOK
  <2> QED BY <2>1, <2>2 DEF CallsOK
<1>10. AsksOK'
  BY <1>1, <1>2, <1>3, <1>4, <1>5, <1>7 DEF AsksOK, Grows
<1>11. ASSUME NEW d \in Call PROVE HarmlessFor(d)
  <2>1. CASE d = c
    BY <1>3, <1>5, <2>1 DEF HarmlessFor, ReplaceClaim, Boots, Uses, Works
  <2>2. CASE d # c
    <3>1. HoldsRun(d)' => HoldsRun(d)
      <4>1. ASSUME HoldsRun(d)' PROVE HoldsRun(d)
        <5>1. call'[d].holds /\ status'[call'[d].run] = "running"
          BY <4>1 DEF HoldsRun
        <5>2. call[d].holds /\ call[d].run # r /\ status'[call[d].run] = "running"
          BY <1>4, <1>5, <2>2, <5>1
        <5>3. call[d].run \in Run
          BY <1>1, <5>2 DEF CallsOK, CallOK
        <5> QED BY <1>1, <1>2, <5>2, <5>3 DEF HoldsRun
      <4> QED BY <4>1
    <3> QED BY <1>4, <1>5, <2>2, <3>1 DEF HarmlessFor, ReplaceClaim, Boots, Uses, Works
  <2> QED BY <2>1, <2>2
<1>12. OwnersStay
  BY <1>2, <1>4, <1>5 DEF OwnersStay, Boots, ReplaceClaim, SleepClaim
<1>13. Harmless
  BY <1>2, <1>7, <1>11, <1>12 DEF Harmless, SleepClaim, SleepLate, StopClaim, StopLate
<1> QED BY <1>8, <1>9, <1>10, <1>13, HarmlessKeeps DEF WellFormed

\* The user's boot or replacement.
LEMMA ManualKeeps ==
    ASSUME ComputerIInv, NEW c \in Call, NEW b \in Bot, NEW kind \in {"boot", "replace"},
           Manual(c, b, kind)
    PROVE  ComputerIInv'
<1> DEFINE l == [call[c] EXCEPT !.kind = kind, !.at = "reading", !.bot = b]
<1>1. WellFormed /\ ComputerTypeOK /\ AsksOK /\ CallsOK
      /\ call \in [Call -> Locals] /\ call[c] \in Locals
  BY DEF ComputerIInv, WellFormed, ComputerTypeOK
<1>2. call[c].at = "out" /\ call' = [call EXCEPT ![c] = l] /\ Spend("boots", MaxAsks)
      /\ UNCHANGED <<computer, sandbox, lease, status, sleeper, stopper>>
  BY DEF Manual, Ask
<1>3. ~call[c].holds
  BY <1>1, <1>2 DEF CallsOK, CallOK
<1>4. l \in Locals /\ l.at = "reading" /\ ~l.holds
  BY <1>1, <1>3 DEF Locals, CallAt, Kind
<1> HIDE DEF l
<1>5. call' \in [Call -> Locals] /\ call'[c] = l /\ \A d \in Call \ {c} : call'[d] = call[d]
  BY <1>1, <1>2, <1>4
<1>6. spent' \in [Budgets -> Nat] /\ Grows /\ spent'["boots"] # 0
  BY <1>1, <1>2, SpendGrows DEF Budgets
<1>7. ComputerTypeOK'
  BY <1>1, <1>2, <1>5, <1>6 DEF ComputerTypeOK
<1>8. CallsOK'
  BY <1>1, <1>4, <1>5 DEF CallsOK, CallOK
<1>9. AsksOK'
  BY <1>1, <1>2, <1>6 DEF AsksOK, Grows
<1>10. ASSUME NEW d \in Call PROVE HarmlessFor(d)
  <2>1. CASE d = c
    BY <1>4, <1>5, <2>1 DEF HarmlessFor, ReplaceClaim, Boots, Uses, Works, HoldsRun
  <2>2. CASE d # c
    <3>1. call'[d] = call[d] /\ (HoldsRun(d)' => HoldsRun(d))
      BY <1>2, <1>5, <2>2 DEF HoldsRun
    <3> QED BY <3>1 DEF HarmlessFor, ReplaceClaim, Boots, Uses, Works
  <2> QED BY <2>1, <2>2
<1>11. OwnersStay
  BY <1>2, <1>5 DEF OwnersStay, Boots, ReplaceClaim, SleepClaim
<1>12. Harmless
  BY <1>2, <1>6, <1>10, <1>11 DEF Harmless, SleepClaim, SleepLate, StopClaim, StopLate
<1> QED BY <1>7, <1>8, <1>9, <1>12, HarmlessKeeps DEF WellFormed

\* A process that dies leaves its claim to nobody.
LEMMA CrashKeeps ==
    ASSUME ComputerIInv, NEW c \in Call, Crash(c)
    PROVE  ComputerIInv'
<1>1. WellFormed /\ ComputerTypeOK /\ AsksOK /\ "out" \in CallAt
      /\ UNCHANGED <<computer, sandbox, lease, status, sleeper, stopper>>
  BY DEF Crash, ComputerIInv, WellFormed, CallAt
<1>2. Moves(c, "out") /\ call'[c] = Idle(c)
  BY <1>1, GoesMoves DEF Crash, Goes, ComputerTypeOK
<1>3. spent' \in [Budgets -> Nat] /\ Grows /\ spent'["crashes"] # 0
  BY <1>1, SpendGrows DEF Crash, Budgets
<1>4. CallOK(call'[c])
  BY <1>2, IdleType DEF CallOK
<1>5. CallsOK' /\ \A d \in Call : call[d].kind = "run" => call'[d].kind = "run"
  BY <1>1, <1>2, <1>4, CallsStayOK
<1>6. ComputerTypeOK'
  BY <1>1, <1>2, <1>3 DEF ComputerTypeOK, Moves
<1>7. AsksOK'
  BY <1>1, <1>3, <1>5 DEF AsksOK, Grows
<1>8. ASSUME NEW d \in Call PROVE HarmlessFor(d)
  <2>1. CASE d = c
    BY <1>2, <2>1, IdleType DEF HarmlessFor, ReplaceClaim, Boots, Uses, Works, HoldsRun
  <2>2. CASE d # c
    <3>1. call'[d] = call[d] /\ (HoldsRun(d)' => HoldsRun(d))
      BY <1>1, <1>2, <2>2 DEF HoldsRun, Moves
    <3> QED BY <3>1 DEF HarmlessFor, ReplaceClaim, Boots, Uses, Works
  <2> QED BY <2>1, <2>2
<1>9. Harmless
  BY <1>1, <1>3, <1>8 DEF Harmless, SleepClaim, SleepLate, StopClaim, StopLate
<1> QED BY <1>5, <1>6, <1>7, <1>9, HarmlessKeeps DEF WellFormed

-----------------------------------------------------------------------------
(* Who claims the computer is alone with it.                                *)

\* Where the state is not suspending, nobody claims it, and nobody is late.
LEMMA NoClaims ==
    ASSUME ComputerIInv, computer.state # "suspending"
    PROVE  /\ NothingOverwritten => ~SleepClaim /\ ~StopClaim
           /\ ClaimStands => ~SleepLate /\ \A d \in Call : ~ReplaceClaim(d)
<1>1. CASE NothingOverwritten
  BY <1>1 DEF ComputerIInv, ClaimsOK, OneClaim, SleepLate, SleepClaim
<1>2. CASE ~NothingOverwritten /\ ClaimStands
  <2>1. \A d \in Call : ~ReplaceClaim(d)
    BY <1>2 DEF ClaimStands, ComputerIInv, WellFormed, AsksOK, CallsOK, CallOK, ReplaceClaim
  <2>2. ~SleepLate
    BY <1>2 DEF ComputerIInv, ClaimsOK, SleepClaimStands
  <2> QED BY <1>2, <2>1, <2>2
<1>3. CASE ~ClaimStands
  BY <1>3 DEF ClaimStands
<1> QED BY <1>1, <1>2, <1>3

\* A replacement that has claimed the computer is alone with it.
LEMMA ReplaceIsAlone ==
    ASSUME ComputerIInv, NEW c \in Call, ReplaceClaim(c), ClaimStands
    PROVE  /\ NothingOverwritten /\ computer.state = "suspending"
           /\ ~SleepClaim /\ ~StopClaim
           /\ \A d \in Call : ReplaceClaim(d) => d = c
<1>1. spent["boots"] # 0
  BY DEF ComputerIInv, WellFormed, AsksOK, CallsOK, CallOK, ReplaceClaim
<1>2. NothingOverwritten
  BY <1>1 DEF ClaimStands
<1> QED BY <1>2 DEF ComputerIInv, ClaimsOK, OneClaim

\* A sleep job that will not look again is alone with it, and so is one that has claimed it.
LEMMA SleepIsAlone ==
    ASSUME ComputerIInv, SleepClaim, ClaimStands
    PROVE  /\ NothingOverwritten => computer.state = "suspending" /\ ~StopClaim
           /\ \A d \in Call : ~ReplaceClaim(d)
<1>1. CASE NothingOverwritten
  BY <1>1 DEF ComputerIInv, ClaimsOK, OneClaim
<1>2. CASE spent["boots"] = 0 /\ ~NothingOverwritten
  BY <1>2 DEF ComputerIInv, WellFormed, AsksOK, CallsOK, CallOK, ReplaceClaim
<1> QED BY <1>1, <1>2 DEF ClaimStands

\* The claims stand when there are none.
LEMMA UnclaimedAfter ==
    ASSUME NothingOverwritten' => ~SleepClaim' /\ ~StopClaim',
           ClaimStands' => ~SleepLate' /\ \A d \in Call : ~ReplaceClaim(d)'
    PROVE  ClaimsOK'
<1>1. NothingOverwritten' => ClaimStands'
  BY DEF ClaimStands
<1>2. \A d \in Call : ReplaceLate(d)' => ReplaceClaim(d)'
  BY DEF ReplaceLate, ReplaceClaim
<1>3. StopLate' => StopClaim'
  BY DEF StopLate, StopClaim
<1>4. NothingOverwritten' => OneClaim' /\ LateStopIsAlone'
  BY <1>1, <1>3 DEF OneClaim, LateStopIsAlone
<1>5. ClaimStands' => SleepClaimStands' /\ LateIsAlone'
  BY <1>2 DEF SleepClaimStands, LateIsAlone
<1> QED BY <1>4, <1>5 DEF ClaimsOK

\* What SandboxStays says when a user asks for no stop.
LEMMA Undisturbed ==
    ASSUME ComputerIInv, NoStopAsked, ClaimStands
    PROVE  /\ BootIsAlone /\ UsedIsRunning /\ UpUnderRun
           /\ computer.state # "booting" => \A d \in Call : ~Boots(d)
           /\ computer.state \notin {"running", "suspending"} => \A d \in Call : ~Uses(d)
           /\ SleepLate \/ (\E c \in Call : ReplaceLate(c)) => \A d \in Call : ~Uses(d)
<1>1. BootIsAlone /\ UsedIsRunning /\ UpUnderRun
  BY DEF ComputerIInv, SandboxStays
<1>2. LateIsAlone
  BY DEF ComputerIInv, ClaimsOK
<1> QED BY <1>1, <1>2 DEF BootIsAlone, UsedIsRunning, LateIsAlone, Uses

\* Where nobody boots and no run uses the computer, there is nothing to spare.
LEMMA UnusedAfter ==
    ASSUME \A d \in Call : ~Boots(d)' /\ ~Uses(d)' /\ call'[d].at # "undoing"
    PROVE  SandboxStays'
<1>1. BootIsAlone'
  BY DEF BootIsAlone, Boots
<1>2. UsedIsRunning'
  BY DEF UsedIsRunning
<1>3. UpUnderRun'
  BY DEF UpUnderRun, Uses, Works
<1> QED BY <1>1, <1>2, <1>3 DEF SandboxStays

\* The types after a step of a call that may write the row of the computer.
LEMMA CallWellFormed ==
    ASSUME ComputerIInv, NEW c \in Call, NEW stage \in CallAt, Moves(c, stage), RunsEnd,
           CallOK(call'[c]), UNCHANGED <<lease, sleeper, stopper, spent>>,
           computer' \in [state : State, ref : BOOLEAN, moved : BOOLEAN],
           sandbox' \in {"none", "up", "down"}
    PROVE  WellFormed' /\ Grows
<1>1. WellFormed
  BY DEF ComputerIInv
<1>2. ComputerTypeOK'
  BY <1>1 DEF WellFormed, ComputerTypeOK, Moves, RunsEnd
<1>3. CallsOK' /\ \A d \in Call : call[d].kind = "run" => call'[d].kind = "run"
  BY <1>1, CallsStayOK
<1>4. AsksOK'
  BY <1>1, <1>3 DEF WellFormed, AsksOK, NoStopAsked
<1> QED BY <1>2, <1>3, <1>4, SameGrows DEF WellFormed

\* The row after a write of its state.
LEMMA BecomesType ==
    ASSUME ComputerTypeOK, NEW s \in State, Becomes(s)
    PROVE  computer' \in [state : State, ref : BOOLEAN, moved : BOOLEAN] /\ computer'.state = s
  BY DEF ComputerTypeOK, Becomes

\* The same where the write asks for suspending.
LEMMA BecomesIfType ==
    ASSUME ComputerTypeOK, NEW s \in State, BecomesIf(s)
    PROVE  /\ computer' \in [state : State, ref : BOOLEAN, moved : BOOLEAN]
           /\ computer'.state = IF computer.state = "suspending" THEN s ELSE computer.state
  BY DEF ComputerTypeOK, Becomes, BecomesIf

\* The calls that do not move.
LEMMA OthersStay ==
    ASSUME WellFormed, NEW c \in Call, NEW stage \in CallAt, Moves(c, stage), RunsEnd,
           NEW d \in Call, d # c
    PROVE  /\ call'[d] = call[d]
           /\ Boots(d)' <=> Boots(d)
           /\ ReplaceClaim(d)' <=> ReplaceClaim(d)
           /\ ReplaceLate(d)' <=> ReplaceLate(d)
           /\ HoldsRun(d)' => HoldsRun(d)
           /\ Uses(d)' => Uses(d)
<1>1. call'[d] = call[d]
  BY DEF Moves
<1>2. HoldsRun(d)' => HoldsRun(d)
  BY HoldsLess
<1> QED BY <1>1, <1>2 DEF Boots, ReplaceClaim, ReplaceLate, Uses

\* A step of a call that claims nothing and does not end a claim of another.
LEMMA CallSpares ==
    ASSUME ComputerIInv, NEW c \in Call, NEW stage \in CallAt, Moves(c, stage), RunsEnd,
           UNCHANGED <<sleeper, stopper, spent>>,
           computer.state = "suspending" => computer'.state = "suspending",
           ReplaceClaim(c)' => ReplaceClaim(c), ReplaceLate(c)' => ReplaceLate(c),
           call[c].at # "reading"
    PROVE  Spares
<1>1. WellFormed
  BY DEF ComputerIInv
<1>2. ASSUME NEW d \in Call
      PROVE  /\ ReplaceClaim(d)' => ReplaceClaim(d)
             /\ ReplaceLate(d)' => ReplaceLate(d)
             /\ HoldsRun(d)' =>
                    \/ call'[d].at = "reading"
                    \/ /\ HoldsRun(d) /\ call'[d].bot = call[d].bot
                       /\ call[d].at # "reading" \/ computer.state # "suspending"
  <2>1. HoldsRun(d)' => HoldsRun(d) /\ call'[d].bot = call[d].bot
    BY <1>1, HoldsLess
  <2>2. d # c => call'[d].at = call[d].at
    BY DEF Moves
  <2>3. d # c => (ReplaceClaim(d)' <=> ReplaceClaim(d)) /\ (ReplaceLate(d)' <=> ReplaceLate(d))
    BY <1>1, OthersStay
  <2> QED BY <2>1, <2>2, <2>3
<1> QED BY <1>2, SameGrows DEF Spares, SleepClaim, SleepLate, StopClaim, StopLate

\* The transient states keep their owner, or are over.
LEMMA OwnerKept ==
    ASSUME ComputerIInv, UNCHANGED spent,
           NoStopAsked /\ spent["crashes"] = 0 =>
               /\ computer'.state = "booting" =>
                      \/ \E d \in Call : Boots(d)'
                      \/ computer.state = "booting" /\ \A d \in Call : Boots(d) => Boots(d)'
               /\ computer'.state = "suspending" =>
                      \/ SleepClaim' \/ \E d \in Call : ReplaceClaim(d)'
                      \/ /\ computer.state = "suspending"
                         /\ SleepClaim => SleepClaim'
                         /\ \A d \in Call : ReplaceClaim(d) => ReplaceClaim(d)'
    PROVE  TransientHasOwner'
<1> SUFFICES ASSUME NoStopAsked', spent'["crashes"] = 0
             PROVE  /\ computer'.state = "booting" => \E d \in Call : Boots(d)'
                    /\ computer'.state = "suspending" =>
                           SleepClaim' \/ \E d \in Call : ReplaceClaim(d)'
  BY DEF TransientHasOwner, Boots, SleepClaim, ReplaceClaim
<1>1. NoStopAsked /\ spent["crashes"] = 0
  BY DEF NoStopAsked
<1>2. /\ computer.state = "booting" => \E d \in Call : Boots(d)
      /\ computer.state = "suspending" => SleepClaim \/ \E d \in Call : ReplaceClaim(d)
  BY <1>1 DEF ComputerIInv, TransientHasOwner, Boots, SleepClaim, ReplaceClaim
<1> QED BY <1>1, <1>2

-----------------------------------------------------------------------------
(* The boot.                                                                *)

\* A boot books the row for itself.
LEMMA BookKeeps ==
    ASSUME ComputerIInv, NEW c \in Call, Book(c)
    PROVE  ComputerIInv'
<1>1. WellFormed /\ ComputerTypeOK /\ call[c].at = "booking" /\ call[c].at \in Quiet
      /\ "booting" \in CallAt \ {"out"} /\ "booting" \in State
      /\ UNCHANGED <<sandbox, lease, sleeper, stopper, spent>>
  BY DEF Book, ComputerIInv, WellFormed, Quiet, CallAt, State
<1>2. CASE computer.state \notin {"stopped", "suspended", "error"}
  BY <1>1, <1>2, BusyKeeps DEF Book
<1>3. CASE computer.state \in {"stopped", "suspended", "error"}
  <2>1. Becomes("booting") /\ Goes(c, "booting") /\ UNCHANGED status
    BY <1>3 DEF Book
  <2>2. Moves(c, "booting") /\ RunsEnd /\ call'[c].at = "booting"
    BY <1>1, <2>1, GoesMoves, SameRunsEnd DEF Moves
  <2>3. CallOK(call'[c])
    BY <1>1, <2>2, MovedOK
  <2>4. computer' \in [state : State, ref : BOOLEAN, moved : BOOLEAN]
        /\ computer'.state = "booting"
    BY <1>1, <2>1, BecomesType
  <2>5. WellFormed'
    BY <1>1, <2>2, <2>3, <2>4, CallWellFormed DEF ComputerTypeOK
  <2>6. ClaimsOK'
    <3>1. Spares
      BY <1>1, <1>3, <2>2, CallSpares DEF ReplaceClaim, ReplaceLate
    <3> QED BY <3>1, ClaimsKept
  <2>7. SandboxStays'
    <3> SUFFICES ASSUME NoStopAsked', ClaimStands'
                 PROVE  BootIsAlone' /\ UsedIsRunning' /\ UpUnderRun'
      BY DEF SandboxStays
    <3>1. NoStopAsked /\ ClaimStands
      BY <1>1 DEF NoStopAsked, ClaimStands, NothingOverwritten
    <3>2. BootIsAlone /\ \A d \in Call : ~Boots(d) /\ ~Uses(d)
      BY <1>3, <3>1, Undisturbed
    <3>3. ASSUME NEW d \in Call PROVE ~Uses(d)' /\ (Boots(d)' => d = c)
      BY <1>1, <2>2, <3>2, OthersStay DEF Uses
    <3>4. BootIsAlone'
      <4>1. ASSUME NEW d \in Call, d # c PROVE call'[d] = call[d]
        BY <1>1, <2>2, <4>1, OthersStay
      <4> QED BY <2>2, <2>4, <3>2, <3>3, <4>1 DEF BootIsAlone, Boots
    <3> QED BY <3>3, <3>4 DEF UsedIsRunning, UpUnderRun, Uses, Works
  <2>8. TransientHasOwner'
    BY <1>1, <2>2, <2>4, OwnerKept DEF Boots
  <2> QED BY <2>5, <2>6, <2>7, <2>8 DEF ComputerIInv
<1> QED BY <1>2, <1>3

\* A boot, or a rollback, that fails: the row takes the error while it says booting.
LEMMA BootFailsKeeps ==
    ASSUME ComputerIInv, NEW c \in Call, BootFails(c),
           (call[c].at = "booting" /\ UNCHANGED sandbox) \/ call[c].at = "undoing",
           sandbox' \in {"none", "up", "down"}, UNCHANGED <<lease, sleeper, stopper, spent>>
    PROVE  ComputerIInv'
<1>1. WellFormed /\ ComputerTypeOK /\ "closing" \in CallAt \ {"out"} /\ "error" \in State
      /\ Busy(c)
  BY DEF BootFails, ComputerIInv, WellFormed, CallAt, State
<1>2. Moves(c, "closing") /\ RunsEnd /\ call'[c].at = "closing"
  BY <1>1, BusyMoves DEF Moves
<1>3. CallOK(call'[c])
  BY <1>1, <1>2, MovedOK
<1>4. computer' \in [state : State, ref : BOOLEAN, moved : BOOLEAN]
      /\ computer'.state = IF computer.state = "booting" THEN "error" ELSE computer.state
  <2>1. CASE computer.state = "booting"
    BY <1>1, <2>1, BecomesType DEF BootFails
  <2>2. CASE computer.state # "booting"
    BY <1>1, <2>2 DEF BootFails, ComputerTypeOK
  <2> QED BY <2>1, <2>2
<1>5. WellFormed'
  BY <1>1, <1>2, <1>3, <1>4, CallWellFormed
<1>6. ClaimsOK'
  <2>1. Spares
    BY <1>1, <1>2, <1>4, CallSpares DEF ReplaceClaim, ReplaceLate
  <2> QED BY <2>1, ClaimsKept
<1>7. SandboxStays'
  <2> SUFFICES ASSUME NoStopAsked', ClaimStands'
               PROVE  \A d \in Call : ~Boots(d)' /\ ~Uses(d)' /\ call'[d].at # "undoing"
    BY UnusedAfter DEF SandboxStays
  <2>1. NoStopAsked /\ ClaimStands
    BY DEF NoStopAsked, ClaimStands, NothingOverwritten
  <2>2. BootIsAlone
    BY <2>1, Undisturbed
  <2>3. Boots(c) /\ computer.state = "booting"
    BY <2>2 DEF BootIsAlone, Boots
  <2>4. \A d \in Call : ~Uses(d)
    BY <2>1, <2>3, Undisturbed
  <2> TAKE d \in Call
  <2>5. CASE d = c
    BY <1>2, <2>5 DEF Boots, Uses
  <2>6. CASE d # c
    BY <1>1, <1>2, <2>2, <2>3, <2>4, <2>6, OthersStay DEF BootIsAlone
  <2> QED BY <2>5, <2>6
<1>8. TransientHasOwner'
  <2>1. ASSUME computer'.state = "suspending"
        PROVE  /\ computer.state = "suspending" /\ (SleepClaim => SleepClaim')
               /\ \A d \in Call : ReplaceClaim(d) => ReplaceClaim(d)'
    <3>1. computer.state = "suspending" /\ ~ReplaceClaim(c)
      BY <1>4, <2>1 DEF ReplaceClaim
    <3> QED BY <1>1, <1>2, <3>1, OthersStay DEF SleepClaim
  <2>2. computer'.state # "booting"
    BY <1>4
  <2> QED BY <2>1, <2>2, OwnerKept
<1> QED BY <1>5, <1>6, <1>7, <1>8 DEF ComputerIInv

\* The sandbox of the row starts under the boot that booked it.
LEMMA BootKeeps ==
    ASSUME ComputerIInv, NEW c \in Call, Boot(c)
    PROVE  ComputerIInv'
<1>1. WellFormed /\ ComputerTypeOK /\ call[c].at = "booting" /\ call \in [Call -> Locals]
      /\ call[c] \in Locals /\ sandbox \in {"none", "up", "down"} /\ status \in [Run -> Status]
      /\ UNCHANGED <<lease, sleeper, stopper, spent>>
  BY DEF Boot, ComputerIInv, WellFormed, ComputerTypeOK
<1>2. CASE BootFails(c) /\ UNCHANGED sandbox
  BY <1>1, <1>2, BootFailsKeeps
<1>3. CASE /\ sandbox' = IF call[c].fresh \/ sandbox = "none" THEN sandbox ELSE "up"
           /\ call' = [call EXCEPT ![c].at = "activating", ![c].fresh = @ \/ sandbox = "none"]
           /\ UNCHANGED <<computer, status>>
  <2>1. PICK f \in BOOLEAN : /\ f <=> call[c].fresh \/ sandbox = "none"
                             /\ call' = [call EXCEPT ![c].at = "activating", ![c].fresh = f]
    BY <1>1, <1>3 DEF Locals
  <2> DEFINE l == [call[c] EXCEPT !.at = "activating", !.fresh = f]
  <2>2. call' = [call EXCEPT ![c] = l]
    BY <1>1, <2>1
  <2>3. l \in Locals /\ l.at = "activating" /\ l.kind = call[c].kind /\ l.bot = call[c].bot
        /\ l.run = call[c].run /\ l.holds = call[c].holds /\ l.fresh = f
    BY <1>1 DEF Locals, CallAt
  <2> HIDE DEF l
  <2>4. Moves(c, "activating") /\ call'[c].fresh = f /\ call'[c].at = "activating"
    BY <1>1, <2>2, <2>3 DEF Moves
  <2>5. RunsEnd /\ "activating" \in CallAt \ {"out"}
    BY <1>1, <1>3, SameRunsEnd DEF CallAt
  <2>6. CallOK(call'[c])
    BY <1>1, <2>4, <2>5, MovedOK
  <2>7. computer' \in [state : State, ref : BOOLEAN, moved : BOOLEAN]
        /\ sandbox' \in {"none", "up", "down"}
    BY <1>1, <1>3 DEF ComputerTypeOK
  <2>8. WellFormed'
    BY <1>1, <2>4, <2>5, <2>6, <2>7, CallWellFormed
  <2>9. ClaimsOK'
    <3>1. Spares
      BY <1>1, <1>3, <2>4, <2>5, CallSpares DEF ReplaceClaim, ReplaceLate
    <3> QED BY <3>1, ClaimsKept
  <2>10. SandboxStays'
    <3> SUFFICES ASSUME NoStopAsked', ClaimStands'
                 PROVE  BootIsAlone' /\ UsedIsRunning' /\ UpUnderRun'
      BY DEF SandboxStays
    <3>1. NoStopAsked /\ ClaimStands
      BY <1>1 DEF NoStopAsked, ClaimStands, NothingOverwritten
    <3>2. BootIsAlone /\ Boots(c)
      BY <1>1, <3>1, Undisturbed DEF Boots
    <3>3. computer.state = "booting" /\ \A d \in Call : ~Uses(d)
      BY <3>1, <3>2, Undisturbed DEF BootIsAlone
    <3>4. ASSUME NEW d \in Call
          PROVE  ~Uses(d)' /\ (Boots(d)' => d = c) /\ (d # c => call'[d] = call[d])
      <4>1. CASE d = c
        BY <2>4, <4>1 DEF Uses
      <4>2. CASE d # c
        BY <1>1, <2>4, <2>5, <3>2, <3>3, <4>2, OthersStay DEF BootIsAlone
      <4> QED BY <4>1, <4>2
    <3>5. ~f => sandbox' = "up"
      BY <1>3, <2>1
    <3>6. BootIsAlone'
      BY <1>3, <2>4, <3>2, <3>3, <3>4, <3>5 DEF BootIsAlone, Boots
    <3> QED BY <3>4, <3>6 DEF UsedIsRunning, UpUnderRun, Uses, Works
  <2>11. TransientHasOwner'
    <3>1. Boots(c)' /\ ~ReplaceClaim(c)
      BY <1>1, <2>4 DEF Boots, ReplaceClaim
    <3>2. \A d \in Call : ReplaceClaim(d) => ReplaceClaim(d)'
      BY <1>1, <2>4, <2>5, <3>1, OthersStay
    <3> QED BY <1>1, <1>3, <3>1, <3>2, OwnerKept DEF SleepClaim
  <2> QED BY <2>8, <2>9, <2>10, <2>11 DEF ComputerIInv
<1> QED BY <1>2, <1>3 DEF Boot

\* A call whose boot was overtaken gives up what it booted.
LEMMA ActivateKeeps ==
    ASSUME ComputerIInv, NEW c \in Call, Activate(c)
    PROVE  ComputerIInv'
<1>1. WellFormed /\ ComputerTypeOK /\ call[c].at = "activating"
      /\ sandbox \in {"none", "up", "down"}
      /\ {"using", "closing", "undoing"} \subseteq CallAt \ {"out"}
      /\ UNCHANGED <<lease, status, sleeper, stopper, spent>>
  BY DEF Activate, ComputerIInv, WellFormed, ComputerTypeOK, CallAt
<1>2. RunsEnd
  BY <1>1, SameRunsEnd
<1>3. PICK stage \in {"using", "closing", "undoing"} :
          /\ Goes(c, stage)
          /\ stage = "undoing" <=> computer.state # "booting"
  BY DEF Activate
<1>4. Moves(c, stage) /\ call'[c].at = stage
  BY <1>1, <1>3, GoesMoves DEF Moves
<1>5. CallOK(call'[c])
  BY <1>1, <1>4, MovedOK
<1>6. /\ computer' \in [state : State, ref : BOOLEAN, moved : BOOLEAN]
      /\ sandbox' \in {"none", "up", "down"}
      /\ IF computer.state = "booting"
           THEN computer'.state = "running"
                /\ sandbox' = IF call[c].fresh THEN "up" ELSE sandbox
           ELSE UNCHANGED <<computer, sandbox>>
  <2>1. CASE computer.state = "booting"
    <3>1. computer' = [state |-> "running", ref |-> TRUE, moved |-> TRUE]
          /\ sandbox' = IF call[c].fresh THEN "up" ELSE sandbox
      BY <2>1 DEF Activate
    <3> QED BY <1>1, <2>1, <3>1 DEF State
  <2>2. CASE computer.state # "booting"
    <3>1. UNCHANGED <<computer, sandbox>>
      BY <2>2 DEF Activate
    <3> QED BY <1>1, <2>2, <3>1 DEF ComputerTypeOK
  <2> QED BY <2>1, <2>2
<1>7. WellFormed'
  BY <1>1, <1>2, <1>4, <1>5, <1>6, CallWellFormed
<1>8. ClaimsOK'
  <2>1. Spares
    BY <1>1, <1>2, <1>4, <1>6, CallSpares DEF ReplaceClaim, ReplaceLate
  <2> QED BY <2>1, ClaimsKept
<1>9. SandboxStays'
  <2> SUFFICES ASSUME NoStopAsked', ClaimStands'
               PROVE  BootIsAlone' /\ UsedIsRunning' /\ UpUnderRun'
    BY DEF SandboxStays
  <2>1. NoStopAsked /\ ClaimStands
    BY <1>1 DEF NoStopAsked, ClaimStands, NothingOverwritten
  <2>2. BootIsAlone /\ Boots(c)
    BY <1>1, <2>1, Undisturbed DEF Boots
  <2>3. computer.state = "booting" /\ \A d \in Call : ~Uses(d)
    BY <2>1, <2>2, Undisturbed DEF BootIsAlone
  <2>4. computer'.state = "running" /\ sandbox' = "up"
    BY <1>1, <1>6, <2>2, <2>3 DEF BootIsAlone
  <2>5. \A d \in Call : ~ReplaceClaim(d)
    BY <2>1, <2>3, NoClaims
  <2>6. ASSUME NEW d \in Call
        PROVE  ~Boots(d)' /\ ~ReplaceClaim(d)' /\ call'[d].at # "undoing"
               /\ (Uses(d)' => d = c)
    <3>1. CASE d = c
      BY <1>3, <1>4, <2>3, <3>1 DEF Boots, ReplaceClaim
    <3>2. CASE d # c
      BY <1>1, <1>2, <1>4, <2>2, <2>3, <2>5, <3>2, OthersStay DEF BootIsAlone
    <3> QED BY <3>1, <3>2
  <2>7. BootIsAlone'
    BY <2>6 DEF BootIsAlone, Boots
  <2>8. UsedIsRunning'
    BY <2>4, <2>6 DEF UsedIsRunning, ReplaceClaim
  <2> QED BY <2>4, <2>7, <2>8 DEF UpUnderRun
<1>10. TransientHasOwner'
  <2>1. computer'.state # "booting"
    BY <1>6
  <2>2. ASSUME computer'.state = "suspending"
        PROVE  /\ computer.state = "suspending" /\ (SleepClaim => SleepClaim')
               /\ \A d \in Call : ReplaceClaim(d) => ReplaceClaim(d)'
    <3>1. ~ReplaceClaim(c)
      BY <1>1 DEF ReplaceClaim
    <3> QED BY <1>1, <1>2, <1>4, <1>6, <2>2, <3>1, OthersStay DEF SleepClaim
  <2> QED BY <1>1, <2>1, <2>2, OwnerKept
<1> QED BY <1>7, <1>8, <1>9, <1>10 DEF ComputerIInv

\* A rollback: a stop of a user came before it, or a claim that was undone.
LEMMA UndoKeeps ==
    ASSUME ComputerIInv, NEW c \in Call, Undo(c)
    PROVE  ComputerIInv'
<1>1. sandbox \in {"none", "up", "down"}
  BY DEF ComputerIInv, WellFormed, ComputerTypeOK
<1> QED BY <1>1, BootFailsKeeps DEF Undo

-----------------------------------------------------------------------------
(* The takeover request and the replacement.                                *)

\* A takeover request of a run that is at work, before it writes the row.
LEMMA AskTakeoverKeeps ==
    ASSUME ComputerIInv, NEW c \in Call, AskTakeover(c)
    PROVE  ComputerIInv'
<1>1. call[c].at = "using" /\ {"using", "asking"} \subseteq Quiet /\ "asking" \in CallAt \ {"out"}
      /\ UNCHANGED <<computer, sandbox, lease, status, sleeper, stopper>>
  BY DEF AskTakeover, Quiet, CallAt
<1>2. WellFormed /\ ComputerTypeOK /\ lease' \in [Bot -> Lease \cup {NoLease}]
  BY <1>1 DEF ComputerIInv, WellFormed, ComputerTypeOK
<1>3. Moves(c, "asking") /\ RunsEnd
  BY <1>1, <1>2, GoesMoves, SameRunsEnd DEF AskTakeover
<1>4. Grows /\ spent' \in [Budgets -> Nat]
  <2>1. "takeovers" \in Budgets /\ Spend("takeovers", MaxTakeovers)
    BY DEF AskTakeover, Budgets
  <2> QED BY <1>2, <2>1, SpendGrows
<1>5. CallOK(call'[c])
  BY <1>1, <1>2, <1>3, MovedOK
<1>6. QuietMove(c, "asking")
  BY <1>1, <1>3 DEF QuietMove
<1> QED BY <1>1, <1>2, <1>4, <1>5, <1>6, QuietKeepsAll

\* Running is written over whatever the row says: over nothing but running while claims
\* stand, or by a run that started before the second look of a sleep job.
LEMMA WriteRunningKeeps ==
    ASSUME ComputerIInv, NEW c \in Call, WriteRunning(c)
    PROVE  ComputerIInv'
<1>1. WellFormed /\ ComputerTypeOK /\ call[c].at = "asking"
      /\ {"holding"} \subseteq CallAt \ {"out"} /\ "running" \in State
      /\ spent \in [Budgets -> Nat] /\ status \in [Run -> Status]
      /\ UNCHANGED <<sandbox, lease, status, sleeper, stopper>>
  BY DEF WriteRunning, ComputerIInv, WellFormed, ComputerTypeOK, CallAt, State
<1>2. Moves(c, "holding") /\ RunsEnd /\ call'[c].at = "holding"
  BY <1>1, GoesMoves, SameRunsEnd DEF Moves, WriteRunning
<1>3. CallOK(call'[c])
  BY <1>1, <1>2, MovedOK
<1>4. computer' \in [state : State, ref : BOOLEAN, moved : BOOLEAN]
      /\ computer'.state = "running"
  BY <1>1, BecomesType DEF WriteRunning
<1>5. /\ spent' \in [Budgets -> Nat] /\ Grows
      /\ spent'["boots"] = spent["boots"]
      /\ NothingOverwritten' => computer.state = "running"
      /\ spent'["strays"] = 0 => computer.state = "running" \/ HoldsRun(c)
  <2>1. CASE computer.state = "running"
    BY <1>1, <2>1, SameGrows DEF WriteRunning
  <2>2. CASE computer.state # "running"
    <3>1. PICK n \in {"overwrites", "strays"} : /\ spent' = [spent EXCEPT ![n] = @ + 1]
                                                /\ n = "strays" \/ HoldsRun(c)
      BY <2>2 DEF WriteRunning
    <3>2. /\ spent' \in [Budgets -> Nat] /\ spent'[n] = spent[n] + 1 /\ spent[n] \in Nat
          /\ \A m \in Budgets \ {n} : spent'[m] = spent[m]
      BY <1>1, <3>1 DEF Budgets
    <3> QED BY <3>1, <3>2 DEF Budgets, Grows, NoStopAsked, NothingOverwritten
  <2> QED BY <2>1, <2>2
<1>6. CallsOK' /\ \A d \in Call : call[d].kind = "run" => call'[d].kind = "run"
  BY <1>1, <1>2, <1>3, CallsStayOK
<1>7. ComputerTypeOK'
  BY <1>1, <1>2, <1>4, <1>5 DEF ComputerTypeOK, Moves
<1>8. AsksOK'
  BY <1>1, <1>5, <1>6 DEF WellFormed, AsksOK, Grows
<1>9. ClaimStands' => ClaimStands /\ (computer.state = "running" \/ HoldsRun(c))
  BY <1>5 DEF ClaimStands, Grows
<1>10. ASSUME NEW d \in Call
       PROVE  (ReplaceClaim(d)' <=> ReplaceClaim(d)) /\ (Boots(d)' <=> Boots(d))
              /\ (Uses(d)' => Uses(d)) /\ (Works(d)' => Works(d))
              /\ call'[d].at \in {"holding", call[d].at} /\ (d # c => call'[d] = call[d])
  <2>1. CASE d = c
    BY <1>1, <1>2, <2>1 DEF ReplaceClaim, Boots, Uses, Works
  <2>2. CASE d # c
    <3>1. HoldsRun(d)' => HoldsRun(d)
      BY <1>1, <1>2, HoldsLess
    <3> QED BY <1>1, <1>2, <2>2, <3>1, OthersStay DEF Works
  <2> QED BY <2>1, <2>2
<1>11. ClaimsOK'
  <2>1. NothingOverwritten' => ~SleepClaim' /\ ~StopClaim'
    <3>1. NothingOverwritten' => ~SleepClaim /\ ~StopClaim
      BY <1>5, NoClaims DEF Grows
    <3> QED BY <1>1, <3>1 DEF SleepClaim, StopClaim
  <2>2. ClaimStands' => ~SleepLate'
    <3>1. ClaimStands /\ HoldsRun(c) => ~SleepLate
      BY <1>1 DEF ComputerIInv, ClaimsOK, LateIsAlone
    <3>2. ClaimStands /\ computer.state = "running" => ~SleepLate
      BY NoClaims
    <3> QED BY <1>1, <1>9, <3>1, <3>2 DEF SleepLate
  <2>3. ASSUME ClaimStands', NEW d \in Call PROVE ~ReplaceClaim(d)'
    <3>1. ReplaceClaim(d) => NothingOverwritten'
      <4>1. ReplaceClaim(d) => spent["boots"] # 0
        BY DEF ComputerIInv, WellFormed, AsksOK, CallsOK, CallOK, ReplaceClaim
      <4> QED BY <1>5, <2>3, <4>1 DEF ClaimStands
    <3>2. ReplaceClaim(d) => computer.state = "suspending"
      BY <1>9, <2>3, ReplaceIsAlone
    <3> QED BY <1>5, <1>10, <3>1, <3>2
  <2> QED BY <2>1, <2>2, <2>3, UnclaimedAfter
<1>12. SandboxStays'
  <2> SUFFICES ASSUME NoStopAsked', ClaimStands'
               PROVE  BootIsAlone' /\ UsedIsRunning' /\ UpUnderRun'
    BY DEF SandboxStays
  <2>1. NoStopAsked /\ ClaimStands
    BY <1>5, <1>9 DEF Grows
  <2>2. BootIsAlone /\ UsedIsRunning /\ UpUnderRun
    BY <2>1, Undisturbed
  <2>3. /\ computer.state # "booting"
        /\ \A d \in Call : call[d].at = "emptying" => call[d].prev = "running"
    <3>1. CASE HoldsRun(c)
      <4>1. Uses(c)
        BY <1>1, <3>1 DEF Uses
      <4> QED BY <2>2, <4>1 DEF UsedIsRunning
    <3>2. CASE computer.state = "running"
      BY <2>1, <3>2, NoClaims DEF ReplaceClaim
    <3> QED BY <1>9, <3>1, <3>2
  <2>4. BootIsAlone'
    BY <1>10, <2>1, <2>2, <2>3, Undisturbed DEF BootIsAlone, Boots
  <2>5. ASSUME NEW d \in Call, call'[d].at = "emptying" PROVE call'[d].prev = "running"
    BY <1>2, <1>10, <2>3, <2>5
  <2>6. UsedIsRunning'
    BY <1>4, <2>5 DEF UsedIsRunning
  <2>7. UpUnderRun'
    BY <1>1, <1>10, <2>2 DEF UpUnderRun
  <2> QED BY <2>4, <2>6, <2>7
<1>13. TransientHasOwner'
  BY <1>4 DEF TransientHasOwner
<1> QED BY <1>6, <1>7, <1>8, <1>11, <1>12, <1>13 DEF ComputerIInv, WellFormed

\* With the claim of a replacement the last one goes.
LEMMA ReplaceEnds ==
    ASSUME ComputerIInv, NEW c \in Call, NEW stage \in CallAt, Moves(c, stage), RunsEnd,
           ReplaceClaim(c), ~ReplaceClaim(c)', UNCHANGED <<sleeper, stopper, spent>>
    PROVE  ClaimsOK'
<1>1. WellFormed /\ (ClaimStands' => ClaimStands) /\ (NothingOverwritten' => NothingOverwritten)
  BY DEF ComputerIInv, ClaimStands, NothingOverwritten, NoStopAsked
<1>2. ClaimStands => ~SleepClaim /\ ~StopClaim /\ \A d \in Call : ReplaceClaim(d) => d = c
  BY ReplaceIsAlone
<1>3. NothingOverwritten' => ~SleepClaim' /\ ~StopClaim'
  BY <1>1, <1>2 DEF ClaimStands, SleepClaim, StopClaim
<1>4. ClaimStands' => ~SleepLate'
  BY <1>1, <1>2 DEF SleepLate, SleepClaim
<1>5. ASSUME ClaimStands', NEW d \in Call PROVE ~ReplaceClaim(d)'
  BY <1>1, <1>2, <1>5, OthersStay
<1> QED BY <1>3, <1>4, <1>5, UnclaimedAfter

\* A replacement claims what nobody else has claimed.
LEMMA ClaimReplaceKeeps ==
    ASSUME ComputerIInv, NEW c \in Call, ClaimReplace(c)
    PROVE  ComputerIInv'
<1>1. WellFormed /\ ComputerTypeOK /\ call[c].at = "claiming" /\ call[c].at \in Quiet
      /\ "emptying" \in CallAt \ {"out"} /\ "suspending" \in State
      /\ UNCHANGED <<sandbox, lease, sleeper, stopper, spent>>
  BY DEF ClaimReplace, ComputerIInv, WellFormed, Quiet, CallAt, State
<1>2. CASE Busy(c) /\ UNCHANGED computer
  BY <1>1, <1>2, BusyKeeps
<1>3. CASE computer.state = call[c].prev /\ Becomes("suspending") /\ Goes(c, "emptying")
           /\ UNCHANGED status
  <2>1. Moves(c, "emptying") /\ RunsEnd /\ call'[c].at = "emptying"
        /\ call'[c].prev = call[c].prev
    BY <1>1, <1>3, GoesMoves, SameRunsEnd DEF Moves
  <2>2. call[c].kind = "replace" /\ call[c].prev \notin {"booting", "suspending"}
    BY <1>1 DEF WellFormed, CallsOK, CallOK
  <2>3. CallOK(call'[c])
    BY <1>1, <2>1, <2>2, MovedOK
  <2>4. computer' \in [state : State, ref : BOOLEAN, moved : BOOLEAN]
        /\ computer'.state = "suspending"
    BY <1>1, <1>3, BecomesType
  <2>5. WellFormed'
    BY <1>1, <2>1, <2>3, <2>4, CallWellFormed DEF ComputerTypeOK
  <2>6. /\ NothingOverwritten' => NothingOverwritten /\ ClaimStands
        /\ ClaimStands' => ClaimStands
        /\ NoStopAsked' => NoStopAsked
    BY <1>1 DEF NothingOverwritten, ClaimStands, NoStopAsked
  <2>7. computer.state # "suspending"
    BY <1>3, <2>2
  <2>8. ASSUME ClaimStands, NEW d \in Call, ReplaceClaim(d)' PROVE d = c
    BY <1>1, <2>1, <2>7, <2>8, NoClaims, OthersStay
  <2>9. ClaimsOK'
    <3>1. NothingOverwritten' => ~SleepClaim' /\ ~StopClaim'
      BY <1>1, <2>6, <2>7, NoClaims DEF SleepClaim, StopClaim
    <3>2. NothingOverwritten' => OneClaim' /\ LateStopIsAlone'
      BY <2>4, <2>6, <2>8, <3>1 DEF OneClaim, LateStopIsAlone, StopLate, StopClaim
    <3>3. ClaimStands' => ~SleepLate' /\ \A d \in Call : ~ReplaceLate(d)'
      <4>1. ClaimStands' => ~SleepLate'
        BY <1>1, <2>6, <2>7, NoClaims DEF SleepLate
      <4>2. ASSUME ClaimStands', NEW d \in Call, ReplaceLate(d)' PROVE FALSE
        <5>1. d = c
          BY <2>6, <2>8, <4>2 DEF ReplaceLate, ReplaceClaim
        <5> QED BY <2>1, <4>2, <5>1 DEF ReplaceLate
      <4> QED BY <4>1, <4>2
    <3>4. ClaimStands' => SleepClaimStands' /\ LateIsAlone'
      BY <3>3 DEF SleepClaimStands, LateIsAlone
    <3> QED BY <3>2, <3>4 DEF ClaimsOK
  <2>10. SandboxStays'
    <3> SUFFICES ASSUME NoStopAsked', ClaimStands'
                 PROVE  BootIsAlone' /\ UsedIsRunning' /\ UpUnderRun'
      BY DEF SandboxStays
    <3>1. BootIsAlone /\ UsedIsRunning /\ UpUnderRun /\ \A d \in Call : ~Boots(d)
      BY <1>3, <2>2, <2>6, Undisturbed
    <3>2. ASSUME NEW d \in Call
          PROVE  ~Boots(d)' /\ (Uses(d)' => Uses(d)) /\ call'[d].at # "undoing"
                 /\ (Works(d)' => Works(d))
      <4>1. CASE d = c
        BY <2>1, <4>1 DEF Boots, Uses, Works
      <4>2. CASE d # c
        BY <1>1, <2>1, <3>1, <4>2, OthersStay DEF BootIsAlone, Works
      <4> QED BY <4>1, <4>2
    <3>3. BootIsAlone'
      BY <3>2 DEF BootIsAlone, Boots
    <3>4. ASSUME NEW d \in Call, Uses(d)', NEW e \in Call, call'[e].at = "emptying"
          PROVE  call'[e].prev = "running"
      <4>1. computer.state = "running"
        BY <2>7, <3>1, <3>2, <3>4 DEF UsedIsRunning
      <4>2. e = c
        BY <2>6, <2>8, <3>4 DEF ReplaceClaim
      <4> QED BY <1>3, <2>1, <4>1, <4>2
    <3>5. UsedIsRunning'
      BY <2>4, <3>4 DEF UsedIsRunning
    <3>6. UpUnderRun'
      BY <1>1, <3>1, <3>2 DEF UpUnderRun, Uses, Works
    <3> QED BY <3>3, <3>5, <3>6
  <2>11. TransientHasOwner'
    BY <1>1, <2>1, <2>4, OwnerKept DEF ReplaceClaim
  <2> QED BY <2>5, <2>9, <2>10, <2>11 DEF ComputerIInv
<1> QED BY <1>2, <1>3 DEF ClaimReplace

\* A run holds its row only while the run is active.
LEMMA HeldIsActive ==
    ASSUME ComputerIInv, NEW S, "running" \in S, ~ActiveRun(S), NEW d \in Call
    PROVE  ~HoldsRun(d)
<1>1. call[d].holds => call[d].run \in Run
  BY DEF ComputerIInv, WellFormed, CallsOK, CallOK
<1> QED BY <1>1 DEF ActiveRun, HoldsRun

\* Its second look is at every run that could be under way.
LEMMA CheckRunsKeeps ==
    ASSUME ComputerIInv, NEW c \in Call, CheckRuns(c)
    PROVE  ComputerIInv'
<1>1. WellFormed /\ ComputerTypeOK /\ call[c].at = "emptying" /\ ReplaceClaim(c)
      /\ {"closing", "clearing"} \subseteq CallAt \ {"out"} /\ call[c] \in Locals
      /\ call[c].prev \in State /\ call[c].prev \notin {"booting", "suspending"}
      /\ call[c].kind = "replace"
      /\ UNCHANGED <<sandbox, lease, sleeper, stopper, spent>>
  BY DEF CheckRuns, ComputerIInv, WellFormed, CallAt, ReplaceClaim, CallsOK, CallOK,
         ComputerTypeOK, Locals
<1>2. /\ NothingOverwritten' => NothingOverwritten /\ ClaimStands
      /\ ClaimStands' => ClaimStands
      /\ NoStopAsked' => NoStopAsked
  BY <1>1 DEF NothingOverwritten, ClaimStands, NoStopAsked
<1>3. ClaimStands => /\ NothingOverwritten /\ computer.state = "suspending"
                     /\ ~SleepClaim /\ ~StopClaim
                     /\ \A d \in Call : ReplaceClaim(d) => d = c
  BY <1>1, ReplaceIsAlone
<1>4. NoStopAsked /\ ClaimStands =>
          BootIsAlone /\ UsedIsRunning /\ UpUnderRun /\ \A d \in Call : ~Boots(d)
  BY <1>3, Undisturbed
<1>5. CASE BecomesIf(call[c].prev) /\ Busy(c)
  <2>1. Moves(c, "closing") /\ RunsEnd /\ call'[c].at = "closing"
    BY <1>1, <1>5, BusyMoves DEF Moves
  <2>2. CallOK(call'[c])
    BY <1>1, <2>1, MovedOK
  <2>3. computer' \in [state : State, ref : BOOLEAN, moved : BOOLEAN]
        /\ computer'.state = IF computer.state = "suspending" THEN call[c].prev
                             ELSE computer.state
    BY <1>1, <1>5, BecomesIfType
  <2>4. WellFormed'
    BY <1>1, <2>1, <2>2, <2>3, CallWellFormed DEF ComputerTypeOK
  <2>5. ~ReplaceClaim(c)' /\ ~Boots(c)' /\ ~Uses(c)' /\ ~Boots(c)
    BY <1>1, <2>1 DEF ReplaceClaim, Boots, Uses
  <2>6. ClaimsOK'
    BY <1>1, <2>1, <2>5, ReplaceEnds
  <2>7. SandboxStays'
    <3> SUFFICES ASSUME NoStopAsked', ClaimStands'
                 PROVE  BootIsAlone' /\ UsedIsRunning' /\ UpUnderRun'
      BY DEF SandboxStays
    <3>1. ASSUME NEW d \in Call
          PROVE  ~Boots(d)' /\ (Uses(d)' => Uses(d)) /\ call'[d].at # "undoing"
                 /\ ~ReplaceClaim(d)' /\ (Works(d)' => Works(d))
      <4>1. CASE d = c
        BY <2>1, <2>5, <4>1 DEF Works
      <4>2. CASE d # c
        BY <1>1, <1>2, <1>3, <1>4, <2>1, <4>2, OthersStay DEF BootIsAlone, Works
      <4> QED BY <4>1, <4>2
    <3>2. BootIsAlone'
      BY <3>1 DEF BootIsAlone, Boots
    <3>3. UsedIsRunning'
      <4>1. ASSUME NEW d \in Call, Uses(d)' PROVE computer'.state = "running"
        BY <1>1, <1>2, <1>3, <1>4, <2>3, <3>1, <4>1 DEF UsedIsRunning
      <4> QED BY <3>1, <4>1 DEF UsedIsRunning, ReplaceClaim
    <3>4. UpUnderRun'
      BY <1>1, <1>2, <1>4, <3>1 DEF UpUnderRun, Uses, Works
    <3> QED BY <3>2, <3>3, <3>4
  <2>8. TransientHasOwner'
    <3>1. computer'.state # "suspending"
      BY <1>1, <2>3
    <3>2. ASSUME computer'.state = "booting"
          PROVE  computer.state = "booting" /\ \A d \in Call : Boots(d) => Boots(d)'
      BY <1>1, <2>1, <2>3, <2>5, <3>2, OthersStay
    <3> QED BY <1>1, <3>1, <3>2, OwnerKept
  <2> QED BY <2>4, <2>6, <2>7, <2>8 DEF ComputerIInv
<1>6. CASE ~ActiveRun(BlocksReplace) /\ Goes(c, "clearing") /\ UNCHANGED <<computer, status>>
  <2>1. Moves(c, "clearing") /\ RunsEnd /\ call'[c].at = "clearing"
    BY <1>1, <1>6, GoesMoves, SameRunsEnd DEF Moves
  <2>2. CallOK(call'[c])
    BY <1>1, <2>1, MovedOK
  <2>3. WellFormed'
    BY <1>1, <1>6, <2>1, <2>2, CallWellFormed DEF ComputerTypeOK
  <2>4. \A d \in Call : ~HoldsRun(d)
    BY <1>6, HeldIsActive DEF BlocksReplace, Active
  <2>5. ASSUME NEW d \in Call
        PROVE  ~HoldsRun(d)' /\ (ReplaceClaim(d)' <=> ReplaceClaim(d))
               /\ (Boots(d)' <=> Boots(d))
    <3>1. ~HoldsRun(d)'
      BY <1>1, <2>1, <2>4, HoldsLess
    <3>2. CASE d = c
      BY <1>1, <2>1, <3>1, <3>2 DEF ReplaceClaim, Boots
    <3>3. CASE d # c
      BY <1>1, <2>1, <3>1, <3>3, OthersStay
    <3> QED BY <3>2, <3>3
  <2>6. ClaimsOK'
    <3>1. NothingOverwritten' => OneClaim'
      BY <1>1, <1>2, <1>3, <1>6, <2>5 DEF OneClaim, SleepClaim, StopClaim
    <3>2. ClaimStands' => SleepClaimStands'
      BY <1>1, <1>2, <1>3, <1>6 DEF SleepClaimStands
    <3> QED BY <2>5, <3>1, <3>2 DEF ClaimsOK, LateIsAlone, LateStopIsAlone
  <2>7. SandboxStays'
    <3> SUFFICES ASSUME NoStopAsked', ClaimStands'
                 PROVE  \A d \in Call : ~Boots(d)' /\ ~Uses(d)' /\ call'[d].at # "undoing"
      BY UnusedAfter DEF SandboxStays
    <3> TAKE d \in Call
    <3>1. ~Boots(d)' /\ ~Uses(d)'
      BY <1>2, <1>4, <2>5 DEF Uses
    <3>2. call'[d].at # "undoing"
      BY <1>1, <1>2, <1>4, <2>1, OthersStay DEF BootIsAlone
    <3> QED BY <3>1, <3>2
  <2>8. TransientHasOwner'
    BY <1>1, <1>6, <2>5, OwnerKept DEF SleepClaim
  <2> QED BY <2>3, <2>6, <2>7, <2>8 DEF ComputerIInv
<1> QED BY <1>5, <1>6 DEF CheckRuns

\* The sandbox is destroyed when no run uses the computer, and nobody boots it.
LEMMA DestroyKeeps ==
    ASSUME ComputerIInv, NEW c \in Call, Destroy(c) \/ ForgetRef(c) \/ FailReplace(c)
    PROVE  ComputerIInv'
<1>1. WellFormed /\ ComputerTypeOK /\ ReplaceClaim(c) /\ ReplaceLate(c)
      /\ {"giving", "failing", "entering", "closing"} \subseteq CallAt \ {"out"}
      /\ call[c].kind = "replace" /\ call[c].at # "reading"
      /\ UNCHANGED <<lease, status, sleeper, stopper, spent>>
  BY DEF Destroy, ForgetRef, FailReplace, ComputerIInv, WellFormed, CallAt, ReplaceClaim,
         ReplaceLate, CallsOK, CallOK
<1>2. PICK stage \in {"giving", "failing", "entering", "closing"} :
          /\ Goes(c, stage)
          /\ IF stage \in {"giving", "failing"} THEN UNCHANGED computer
             ELSE computer'.state \in {"stopped", "error"}
          /\ computer' \in [state : State, ref : BOOLEAN, moved : BOOLEAN]
          /\ sandbox' \in {sandbox, "none"}
  <2>1. CASE Destroy(c)
    BY <1>1, <2>1 DEF Destroy, ComputerTypeOK
  <2>2. CASE ForgetRef(c)
    BY <2>2 DEF ForgetRef, State
  <2>3. CASE FailReplace(c)
    <3>1. "error" \in State
      BY DEF State
    <3> QED BY <1>1, <2>3, <3>1, BecomesType DEF FailReplace
  <2> QED BY <2>1, <2>2, <2>3
<1>3. Moves(c, stage) /\ RunsEnd /\ call'[c].at = stage
  BY <1>1, <1>2, GoesMoves, SameRunsEnd DEF Moves
<1>4. CallOK(call'[c])
  BY <1>1, <1>3, MovedOK
<1>5. sandbox' \in {"none", "up", "down"}
  BY <1>1, <1>2 DEF ComputerTypeOK
<1>6. WellFormed'
  BY <1>1, <1>2, <1>3, <1>4, <1>5, CallWellFormed
<1>7. /\ ClaimStands' => ClaimStands
      /\ NoStopAsked' => NoStopAsked
  BY <1>1 DEF NothingOverwritten, ClaimStands, NoStopAsked
<1>8. ClaimsOK'
  <2>1. CASE stage \in {"giving", "failing"}
    <3>1. Spares
      BY <1>1, <1>2, <1>3, <2>1, CallSpares
    <3> QED BY <3>1, ClaimsKept
  <2>2. CASE stage \notin {"giving", "failing"}
    <3>1. ~ReplaceClaim(c)'
      BY <1>3, <2>2 DEF ReplaceClaim
    <3> QED BY <1>1, <1>3, <3>1, ReplaceEnds
  <2> QED BY <2>1, <2>2
<1>9. SandboxStays'
  <2> SUFFICES ASSUME NoStopAsked', ClaimStands'
               PROVE  \A d \in Call : ~Boots(d)' /\ ~Uses(d)' /\ call'[d].at # "undoing"
    BY UnusedAfter DEF SandboxStays
  <2>1. computer.state = "suspending"
    BY <1>1, <1>7, ReplaceIsAlone
  <2>2. BootIsAlone /\ \A d \in Call : ~Boots(d) /\ ~Uses(d)
    BY <1>1, <1>7, <2>1, Undisturbed
  <2> TAKE d \in Call
  <2>3. CASE d = c
    BY <1>3, <2>3 DEF Boots, Uses
  <2>4. CASE d # c
    BY <1>1, <1>3, <2>2, <2>4, OthersStay DEF BootIsAlone
  <2> QED BY <2>3, <2>4
<1>10. TransientHasOwner'
  <2>1. CASE stage \in {"giving", "failing"}
    <3>1. ReplaceClaim(c)' /\ ~Boots(c)
      BY <1>1, <1>3, <2>1 DEF ReplaceClaim, Boots
    <3>2. \A d \in Call : Boots(d) => Boots(d)'
      BY <1>1, <1>3, <3>1, OthersStay
    <3> QED BY <1>1, <1>2, <2>1, <3>1, <3>2, OwnerKept
  <2>2. CASE stage \notin {"giving", "failing"}
    BY <1>2, <2>2 DEF TransientHasOwner
  <2> QED BY <2>1, <2>2
<1> QED BY <1>6, <1>8, <1>9, <1>10 DEF ComputerIInv

-----------------------------------------------------------------------------
(* The sleep job and the stop.                                              *)

\* The types after a step of one of them.
LEMMA JobWellFormed ==
    ASSUME ComputerIInv, UNCHANGED <<lease, status, call, spent>>,
           computer' \in [state : State, ref : BOOLEAN, moved : BOOLEAN],
           sandbox' \in {"none", "up", "down"},
           sleeper' \in [at : {"out", "looking", "saving", "checking", "stopping", "recording"},
                         control : BOOLEAN],
           stopper' \in [at : {"out", "claiming", "checking", "deleting", "stopping", "recording"},
                         bot : Bot, prev : State, ref : BOOLEAN],
           NoStopAsked => stopper'.at = "out"
    PROVE  /\ WellFormed'
           /\ ClaimStands' = ClaimStands /\ NoStopAsked' = NoStopAsked
           /\ NothingOverwritten' = NothingOverwritten
<1>1. WellFormed /\ ComputerTypeOK /\ CallsOK /\ AsksOK
  BY DEF ComputerIInv, WellFormed
<1>2. ComputerTypeOK'
  BY <1>1 DEF ComputerTypeOK
<1>3. CallsOK'
  BY <1>1 DEF CallsOK
<1>4. ClaimStands' = ClaimStands /\ NoStopAsked' = NoStopAsked
      /\ NothingOverwritten' = NothingOverwritten
  BY DEF ClaimStands, NoStopAsked, NothingOverwritten
<1>5. AsksOK'
  BY <1>1, <1>4 DEF AsksOK
<1> QED BY <1>2, <1>3, <1>4, <1>5 DEF WellFormed

\* The stages of the sleep job.
LEMMA SleeperType ==
    ASSUME ComputerTypeOK,
           NEW stage \in {"out", "looking", "saving", "checking", "stopping", "recording"},
           SleeperGoes(stage)
    PROVE  /\ sleeper' \in [at : {"out", "looking", "saving", "checking", "stopping", "recording"},
                            control : BOOLEAN]
           /\ sleeper'.at = stage
<1>1. CASE stage = "out"
  BY <1>1 DEF SleeperGoes, NotAsleep
<1>2. CASE stage # "out"
  BY <1>2 DEF SleeperGoes, ComputerTypeOK
<1> QED BY <1>1, <1>2

\* Nobody else is touched by them.
LEMMA JobSpares ==
    ASSUME UNCHANGED <<call, status>>
    PROVE  \A d \in Call : /\ Boots(d)' = Boots(d) /\ Uses(d)' = Uses(d)
                           /\ Works(d)' = Works(d) /\ HoldsRun(d)' = HoldsRun(d)
                           /\ ReplaceClaim(d)' = ReplaceClaim(d)
                           /\ ReplaceLate(d)' = ReplaceLate(d)
  BY DEF Boots, Uses, Works, HoldsRun, ReplaceClaim, ReplaceLate

\* A sleep job claims a computer that runs.
LEMMA SleepClaimsKeeps ==
    ASSUME ComputerIInv, SleepClaims
    PROVE  ComputerIInv'
<1>1. CASE ~StillIdle
  BY <1>1, SleepLooksKeeps
<1>2. CASE StillIdle
  <2>1. ComputerTypeOK /\ AsksOK /\ computer.state = "running" /\ SleeperGoes("checking")
        /\ computer' = [computer EXCEPT !.state = "suspending"]
        /\ UNCHANGED <<sandbox, lease, status, call, stopper, spent>>
    BY <1>2 DEF SleepClaims, StillIdle, ComputerIInv, WellFormed
  <2>2. sleeper'.at = "checking" /\ sleeper' \in
            [at : {"out", "looking", "saving", "checking", "stopping", "recording"},
             control : BOOLEAN]
    BY <2>1, SleeperType
  <2>3. computer' \in [state : State, ref : BOOLEAN, moved : BOOLEAN]
        /\ computer'.state = "suspending"
    BY <2>1 DEF ComputerTypeOK, State
  <2>4. /\ WellFormed'
        /\ ClaimStands' = ClaimStands /\ NoStopAsked' = NoStopAsked
        /\ NothingOverwritten' = NothingOverwritten
    BY <2>1, <2>2, <2>3, JobWellFormed DEF ComputerTypeOK, AsksOK
  <2>5. \A d \in Call : /\ Boots(d)' = Boots(d) /\ Uses(d)' = Uses(d)
                        /\ Works(d)' = Works(d) /\ HoldsRun(d)' = HoldsRun(d)
                        /\ ReplaceClaim(d)' = ReplaceClaim(d)
                        /\ ReplaceLate(d)' = ReplaceLate(d)
    BY <2>1, JobSpares
  <2>6. NothingOverwritten => ClaimStands
    BY DEF ClaimStands
  <2>7. /\ NothingOverwritten => ~StopClaim
        /\ ClaimStands => \A d \in Call : ~ReplaceClaim(d)
    BY <2>1, NoClaims
  <2>8. ClaimsOK'
    <3>1. NothingOverwritten' => OneClaim' /\ LateStopIsAlone'
      BY <2>1, <2>3, <2>4, <2>5, <2>6, <2>7
         DEF OneClaim, LateStopIsAlone, StopLate, StopClaim
    <3>2. ClaimStands' => SleepClaimStands' /\ LateIsAlone'
      BY <2>2, <2>4, <2>5, <2>7
         DEF SleepClaimStands, SleepLate, LateIsAlone, ReplaceLate, ReplaceClaim
    <3> QED BY <3>1, <3>2 DEF ClaimsOK
  <2>9. SandboxStays'
    <3> SUFFICES ASSUME NoStopAsked, ClaimStands
                 PROVE  BootIsAlone' /\ UsedIsRunning' /\ UpUnderRun'
      BY <2>4 DEF SandboxStays
    <3>1. BootIsAlone /\ UsedIsRunning /\ UpUnderRun /\ \A d \in Call : ~Boots(d)
      BY <2>1, Undisturbed
    <3>2. BootIsAlone'
      BY <2>1, <2>5, <3>1 DEF BootIsAlone, Boots
    <3>3. UsedIsRunning'
      BY <2>3, <2>5, <2>7 DEF UsedIsRunning, ReplaceClaim
    <3>4. UpUnderRun'
      BY <2>1, <2>5, <3>1 DEF UpUnderRun
    <3> QED BY <3>2, <3>3, <3>4
  <2>10. TransientHasOwner'
    BY <2>2, <2>3 DEF TransientHasOwner
  <2> QED BY <2>4, <2>8, <2>9, <2>10 DEF ComputerIInv
<1> QED BY <1>1, <1>2

\* A sleep job that is refused, or fails, makes the computer run again.
LEMMA SleepEndsKeeps ==
    ASSUME ComputerIInv, SleepClaim, BecomesIf("running"), SleeperGoes("out"),
           UNCHANGED <<sandbox, lease, status, call, stopper, spent>>
    PROVE  ComputerIInv'
<1>1. ComputerTypeOK /\ AsksOK /\ "running" \in State
  BY DEF ComputerIInv, WellFormed, State
<1>2. sleeper'.at = "out" /\ sleeper' \in
          [at : {"out", "looking", "saving", "checking", "stopping", "recording"},
           control : BOOLEAN]
  BY <1>1, SleeperType
<1>3. computer' \in [state : State, ref : BOOLEAN, moved : BOOLEAN]
      /\ computer'.state = IF computer.state = "suspending" THEN "running" ELSE computer.state
  BY <1>1, BecomesIfType
<1>4. /\ WellFormed'
      /\ ClaimStands' = ClaimStands /\ NoStopAsked' = NoStopAsked
      /\ NothingOverwritten' = NothingOverwritten
  BY <1>1, <1>2, <1>3, JobWellFormed DEF ComputerTypeOK, AsksOK
<1>5. \A d \in Call : /\ Boots(d)' = Boots(d) /\ Uses(d)' = Uses(d)
                      /\ Works(d)' = Works(d) /\ HoldsRun(d)' = HoldsRun(d)
                      /\ ReplaceClaim(d)' = ReplaceClaim(d)
                      /\ ReplaceLate(d)' = ReplaceLate(d)
  BY JobSpares
<1>6. NothingOverwritten => ClaimStands
  BY DEF ClaimStands
<1>7. /\ NothingOverwritten => ~StopClaim
      /\ ClaimStands => \A d \in Call : ~ReplaceClaim(d)
  BY <1>6, SleepIsAlone
<1>8. ClaimsOK'
  BY <1>2, <1>4, <1>5, <1>7, UnclaimedAfter DEF SleepClaim, SleepLate, StopClaim
<1>9. SandboxStays'
  <2> SUFFICES ASSUME NoStopAsked, ClaimStands
               PROVE  BootIsAlone' /\ UsedIsRunning' /\ UpUnderRun'
    BY <1>4 DEF SandboxStays
  <2>1. BootIsAlone /\ UsedIsRunning /\ UpUnderRun
    BY Undisturbed
  <2>2. BootIsAlone'
    BY <1>3, <1>5, <2>1 DEF BootIsAlone, Boots
  <2>3. UsedIsRunning'
    BY <1>3, <1>5, <1>7, <2>1 DEF UsedIsRunning, ReplaceClaim
  <2>4. UpUnderRun'
    BY <1>5, <2>1 DEF UpUnderRun
  <2> QED BY <2>2, <2>3, <2>4
<1>10. TransientHasOwner'
  BY <1>3, <1>5, OwnerKept
<1> QED BY <1>4, <1>8, <1>9, <1>10 DEF ComputerIInv

\* Its second look is at every run that could be under way.
LEMMA SleepChecksKeeps ==
    ASSUME ComputerIInv, SleepChecks
    PROVE  ComputerIInv'
<1>1. ComputerTypeOK /\ AsksOK /\ sleeper.at = "checking" /\ SleepClaim
      /\ UNCHANGED <<sandbox, lease, status, call, stopper, spent>>
  BY DEF SleepChecks, SleepClaim, ComputerIInv, WellFormed
<1>2. CASE BecomesIf("running") /\ SleeperGoes("out")
  BY <1>1, <1>2, SleepEndsKeeps
<1>3. CASE ~ActiveRun(KeepsAwake) /\ computer.state = "suspending" /\ SleeperGoes("stopping")
           /\ UNCHANGED computer
  <2>1. sleeper'.at = "stopping" /\ sleeper' \in
            [at : {"out", "looking", "saving", "checking", "stopping", "recording"},
             control : BOOLEAN]
    BY <1>1, <1>3, SleeperType
  <2>2. /\ WellFormed'
        /\ ClaimStands' = ClaimStands /\ NoStopAsked' = NoStopAsked
        /\ NothingOverwritten' = NothingOverwritten
    BY <1>1, <1>3, <2>1, JobWellFormed DEF ComputerTypeOK, AsksOK
  <2>3. \A d \in Call : /\ Boots(d)' = Boots(d) /\ Uses(d)' = Uses(d)
                        /\ Works(d)' = Works(d) /\ HoldsRun(d)' = HoldsRun(d)
                        /\ ReplaceClaim(d)' = ReplaceClaim(d)
                        /\ ReplaceLate(d)' = ReplaceLate(d)
    BY <1>1, JobSpares
  <2>4. "running" \in KeepsAwake
    BY DEF KeepsAwake, Active
  <2>5. \A d \in Call : ~HoldsRun(d)
    BY <1>3, <2>4, HeldIsActive
  <2>6. ClaimsOK'
    <3>1. NothingOverwritten' => OneClaim' /\ LateStopIsAlone'
      <4>1. NothingOverwritten => OneClaim /\ SleepClaim
        BY <1>1 DEF ComputerIInv, ClaimsOK
      <4>2. StopClaim' = StopClaim
        BY <1>1 DEF StopClaim
      <4> QED BY <1>3, <2>2, <2>3, <2>5, <4>1, <4>2 DEF OneClaim, LateStopIsAlone
    <3>2. ClaimStands' => SleepClaimStands' /\ LateIsAlone'
      BY <1>3, <2>3, <2>5 DEF SleepClaimStands, LateIsAlone
    <3> QED BY <3>1, <3>2 DEF ClaimsOK
  <2>7. SandboxStays'
    <3>1. NoStopAsked /\ ClaimStands => BootIsAlone /\ UsedIsRunning /\ UpUnderRun
      BY Undisturbed
    <3> QED BY <1>1, <1>3, <2>2, <2>3, <3>1
            DEF SandboxStays, BootIsAlone, UsedIsRunning, UpUnderRun
  <2>8. TransientHasOwner'
    BY <1>3, <2>1 DEF TransientHasOwner
  <2> QED BY <2>2, <2>6, <2>7, <2>8 DEF ComputerIInv
<1> QED BY <1>1, <1>2, <1>3 DEF SleepChecks

\* The sandbox stops when no run uses the computer and nobody boots it.
LEMMA SleepStopsKeeps ==
    ASSUME ComputerIInv, SleepStops \/ SleepRecords
    PROVE  ComputerIInv'
<1>1. ComputerTypeOK /\ AsksOK /\ SleepLate /\ SleepClaim /\ "suspended" \in State
      /\ UNCHANGED <<lease, status, call, stopper, spent>>
  BY DEF SleepStops, SleepRecords, SleepClaim, SleepLate, ComputerIInv, WellFormed, State
<1>2. CASE BecomesIf("running") /\ SleeperGoes("out") /\ UNCHANGED sandbox
  BY <1>1, <1>2, SleepEndsKeeps
<1>3. CASE \/ sandbox' = "down" /\ SleeperGoes("recording") /\ UNCHANGED computer
           \/ SleeperGoes("out") /\ UNCHANGED sandbox /\ Becomes("suspended")
  <2>1. PICK stage \in {"out", "recording"} :
            /\ SleeperGoes(stage)
            /\ IF stage = "recording" THEN UNCHANGED computer
               ELSE computer'.state = "suspended"
            /\ computer' \in [state : State, ref : BOOLEAN, moved : BOOLEAN]
            /\ sandbox' \in {"none", "up", "down"}
    BY <1>1, <1>3, BecomesType DEF ComputerTypeOK
  <2>2. sleeper'.at = stage /\ sleeper' \in
            [at : {"out", "looking", "saving", "checking", "stopping", "recording"},
             control : BOOLEAN]
    BY <1>1, <2>1, SleeperType
  <2>3. /\ WellFormed'
        /\ ClaimStands' = ClaimStands /\ NoStopAsked' = NoStopAsked
        /\ NothingOverwritten' = NothingOverwritten
    BY <1>1, <2>1, <2>2, JobWellFormed DEF ComputerTypeOK, AsksOK
  <2>4. \A d \in Call : /\ Boots(d)' = Boots(d) /\ Uses(d)' = Uses(d)
                        /\ Works(d)' = Works(d) /\ HoldsRun(d)' = HoldsRun(d)
                        /\ ReplaceClaim(d)' = ReplaceClaim(d)
                        /\ ReplaceLate(d)' = ReplaceLate(d)
    BY <1>1, JobSpares
  <2>5. /\ NothingOverwritten => ClaimStands /\ ~StopClaim
        /\ ClaimStands => computer.state = "suspending" /\ \A d \in Call : ~ReplaceClaim(d)
    BY <1>1, SleepIsAlone DEF ClaimStands, ComputerIInv, ClaimsOK, SleepClaimStands
  <2>6. ClaimsOK'
    <3>1. CASE stage = "out"
      BY <1>1, <2>2, <2>3, <2>4, <2>5, <3>1, UnclaimedAfter
         DEF SleepClaim, SleepLate, StopClaim
    <3>2. CASE stage = "recording"
      <4>1. NothingOverwritten' => OneClaim' /\ LateStopIsAlone'
        BY <1>1, <2>1, <2>3, <2>4, <2>5, <3>2
           DEF OneClaim, LateStopIsAlone, StopClaim, StopLate
      <4>2. ClaimStands' => SleepClaimStands' /\ LateIsAlone'
        BY <1>1, <2>1, <2>3, <2>4, <2>5, <3>2
           DEF SleepClaimStands, LateIsAlone, ComputerIInv, ClaimsOK
      <4> QED BY <4>1, <4>2 DEF ClaimsOK
    <3> QED BY <3>1, <3>2
  <2>7. SandboxStays'
    <3> SUFFICES ASSUME NoStopAsked, ClaimStands
                 PROVE  \A d \in Call : ~Boots(d)' /\ ~Uses(d)' /\ call'[d].at # "undoing"
      BY <2>3, UnusedAfter DEF SandboxStays
    <3>1. BootIsAlone /\ \A d \in Call : ~Boots(d) /\ ~Uses(d)
      BY <1>1, <2>5, Undisturbed
    <3> QED BY <1>1, <2>4, <3>1 DEF BootIsAlone
  <2>8. TransientHasOwner'
    <3>1. CASE stage = "recording"
      BY <1>1, <2>1, <2>2, <2>4, <3>1, OwnerKept DEF SleepClaim
    <3>2. CASE stage = "out"
      BY <2>1, <3>2 DEF TransientHasOwner
    <3> QED BY <3>1, <3>2
  <2> QED BY <2>3, <2>6, <2>7, <2>8 DEF ComputerIInv
<1> QED BY <1>2, <1>3 DEF SleepStops, SleepRecords

\* While a stop is under way, what is left to show is that claims stand.
LEMMA StopLeavesClaims ==
    ASSUME ComputerIInv, stopper.at # "out",
           UNCHANGED <<lease, status, call, sleeper, spent>>,
           computer' \in [state : State, ref : BOOLEAN, moved : BOOLEAN],
           sandbox' \in {"none", "up", "down"},
           stopper' \in [at : {"out", "claiming", "checking", "deleting", "stopping", "recording"},
                         bot : Bot, prev : State, ref : BOOLEAN],
           ClaimsOK'
    PROVE  ComputerIInv'
<1>1. ComputerTypeOK /\ ~NoStopAsked
  BY DEF ComputerIInv, WellFormed, AsksOK
<1>2. WellFormed' /\ NoStopAsked' = NoStopAsked
  BY <1>1, JobWellFormed DEF ComputerTypeOK
<1>3. SandboxStays' /\ TransientHasOwner'
  BY <1>1, <1>2 DEF SandboxStays, TransientHasOwner
<1> QED BY <1>2, <1>3 DEF ComputerIInv

\* The types of what a stop that is over leaves.
LEMMA NoStopType ==
    /\ NoStop.at = "out"
    /\ NoStop \in [at : {"out", "claiming", "checking", "deleting", "stopping", "recording"},
                   bot : Bot, prev : State, ref : BOOLEAN]
<1>1. AnyBot \in Bot
  BY ComputerAssumption DEF AnyBot
<1> QED BY <1>1 DEF NoStop, State

\* A stop that ends gives its claim up, whatever it writes.
LEMMA StopEndsKeeps ==
    ASSUME ComputerIInv, StopClaim, stopper' = NoStop,
           UNCHANGED <<sandbox, lease, status, call, sleeper, spent>>,
           computer' \in [state : State, ref : BOOLEAN, moved : BOOLEAN]
    PROVE  ComputerIInv'
<1>1. ComputerTypeOK /\ ~NoStopAsked /\ stopper.at # "out"
  BY DEF ComputerIInv, WellFormed, AsksOK, StopClaim
<1>2. NothingOverwritten => ~SleepClaim /\ \A d \in Call : ~ReplaceClaim(d)
  BY DEF ComputerIInv, ClaimsOK, OneClaim
<1>3. \A d \in Call : ReplaceClaim(d)' = ReplaceClaim(d)
  BY JobSpares
<1>4. /\ NothingOverwritten' = NothingOverwritten /\ (ClaimStands' => NothingOverwritten)
      /\ SleepClaim' = SleepClaim /\ SleepLate' = SleepLate /\ ~StopClaim'
  BY <1>1, NoStopType
     DEF NothingOverwritten, NoStopAsked, ClaimStands, SleepClaim, SleepLate, StopClaim
<1>5. SleepLate => SleepClaim
  BY DEF SleepLate, SleepClaim
<1>6. ClaimsOK'
  BY <1>2, <1>3, <1>4, <1>5, UnclaimedAfter
<1>7. stopper' \in [at : {"out", "claiming", "checking", "deleting", "stopping", "recording"},
                    bot : Bot, prev : State, ref : BOOLEAN]
  BY NoStopType
<1>8. sandbox' \in {"none", "up", "down"}
  BY <1>1 DEF ComputerTypeOK
<1> QED BY <1>1, <1>6, <1>7, <1>8, StopLeavesClaims

\* A stop claims what nobody else has claimed.
LEMMA StopClaimsKeeps ==
    ASSUME ComputerIInv, StopClaims
    PROVE  ComputerIInv'
<1>1. CASE stopper' = NoStop /\ UNCHANGED computer
  BY <1>1, StopLooksKeeps
<1>2. CASE computer.state # "suspending" /\ Becomes("suspending")
           /\ stopper' = [stopper EXCEPT !.at = "checking"]
  <2>1. ComputerTypeOK /\ ~NoStopAsked /\ stopper.at = "claiming" /\ "suspending" \in State
        /\ UNCHANGED <<sandbox, lease, status, call, sleeper, spent>>
    BY DEF StopClaims, ComputerIInv, WellFormed, AsksOK, State
  <2>2. computer' \in [state : State, ref : BOOLEAN, moved : BOOLEAN]
        /\ computer'.state = "suspending"
    BY <1>2, <2>1, BecomesType
  <2>3. stopper' \in [at : {"out", "claiming", "checking", "deleting", "stopping", "recording"},
                      bot : Bot, prev : State, ref : BOOLEAN]
        /\ stopper'.at = "checking"
    BY <1>2, <2>1 DEF ComputerTypeOK
  <2>4. \A d \in Call : ReplaceClaim(d)' = ReplaceClaim(d) /\ ReplaceLate(d)' = ReplaceLate(d)
    BY <2>1, JobSpares
  <2>5. /\ NothingOverwritten' = NothingOverwritten /\ ClaimStands' = ClaimStands
        /\ SleepClaim' = SleepClaim /\ SleepLate' = SleepLate /\ ~StopLate'
    BY <2>1, <2>3
       DEF NothingOverwritten, NoStopAsked, ClaimStands, SleepClaim, SleepLate, StopLate
  <2>6. /\ NothingOverwritten => ~SleepClaim /\ ClaimStands
        /\ ClaimStands => ~SleepLate /\ \A d \in Call : ~ReplaceClaim(d)
    BY <1>2, NoClaims DEF ClaimStands
  <2>7. \A d \in Call : ReplaceLate(d) => ReplaceClaim(d)
    BY DEF ReplaceLate, ReplaceClaim
  <2>8. NothingOverwritten' => OneClaim' /\ LateStopIsAlone'
    BY <2>2, <2>4, <2>5, <2>6 DEF OneClaim, LateStopIsAlone
  <2>9. ClaimStands' => SleepClaimStands' /\ LateIsAlone'
    BY <2>4, <2>5, <2>6, <2>7 DEF SleepClaimStands, LateIsAlone
  <2>10. ClaimsOK'
    BY <2>8, <2>9 DEF ClaimsOK
  <2>11. sandbox' \in {"none", "up", "down"}
    BY <2>1 DEF ComputerTypeOK
  <2> QED BY <2>1, <2>2, <2>3, <2>10, <2>11, StopLeavesClaims
<1> QED BY <1>1, <1>2 DEF StopClaims

\* Its second look is at every run of another bot that could be under way.
LEMMA StopChecksKeeps ==
    ASSUME ComputerIInv, StopChecks
    PROVE  ComputerIInv'
<1>1. ComputerTypeOK /\ CallsOK /\ StopClaim /\ stopper.at # "out" /\ stopper.prev \in State
      /\ UNCHANGED <<sandbox, lease, status, call, sleeper, spent>>
  BY DEF StopChecks, StopClaim, ComputerIInv, WellFormed, ComputerTypeOK
<1>2. CASE BecomesIf(stopper.prev) /\ stopper' = NoStop
  BY <1>1, <1>2, BecomesIfType, StopEndsKeeps
<1>3. CASE ~OtherRun /\ stopper' = [stopper EXCEPT !.at = "deleting"] /\ UNCHANGED computer
  <2>1. stopper' \in [at : {"out", "claiming", "checking", "deleting", "stopping", "recording"},
                      bot : Bot, prev : State, ref : BOOLEAN]
        /\ stopper'.bot = stopper.bot /\ StopClaim'
    BY <1>1, <1>3 DEF ComputerTypeOK, StopClaim
  <2>2. \A d \in Call : /\ ReplaceClaim(d)' = ReplaceClaim(d)
                        /\ ReplaceLate(d)' = ReplaceLate(d) /\ HoldsRun(d)' = HoldsRun(d)
    BY <1>1, JobSpares
  <2>3. /\ NothingOverwritten' = NothingOverwritten /\ ClaimStands' = ClaimStands
        /\ SleepClaim' = SleepClaim /\ SleepLate' = SleepLate
    BY <1>1 DEF NothingOverwritten, NoStopAsked, ClaimStands, SleepClaim, SleepLate
  <2>4. \A d \in Call : HoldsRun(d) => call[d].bot = stopper.bot
    <3> SUFFICES ASSUME NEW d \in Call, HoldsRun(d)
                 PROVE  call[d].bot = stopper.bot
      OBVIOUS
    <3>1. call[d].run \in Run /\ call[d].bot = BotOf[call[d].run]
          /\ status[call[d].run] \in Active
      BY <1>1 DEF CallsOK, CallOK, HoldsRun, Active
    <3> QED BY <1>3, <3>1 DEF OtherRun
  <2>5. NothingOverwritten' => OneClaim' /\ LateStopIsAlone'
    <3>1. NothingOverwritten => OneClaim
      BY DEF ComputerIInv, ClaimsOK
    <3> QED BY <1>1, <1>3, <2>1, <2>2, <2>3, <2>4, <3>1 DEF OneClaim, LateStopIsAlone
  <2>6. ClaimStands' => SleepClaimStands' /\ LateIsAlone'
    BY <1>1, <1>3, <2>2, <2>3 DEF SleepClaimStands, LateIsAlone, ComputerIInv, ClaimsOK
  <2>7. ClaimsOK'
    BY <2>5, <2>6 DEF ClaimsOK
  <2>8. /\ computer' \in [state : State, ref : BOOLEAN, moved : BOOLEAN]
        /\ sandbox' \in {"none", "up", "down"}
    BY <1>1, <1>3 DEF ComputerTypeOK
  <2> QED BY <1>1, <2>1, <2>7, <2>8, StopLeavesClaims
<1> QED BY <1>2, <1>3 DEF StopChecks

\* The sandbox stops under the claim, and the claim ends with the row that says so.
LEMMA StopStopsKeeps ==
    ASSUME ComputerIInv, StopStops \/ StopRecords
    PROVE  ComputerIInv'
<1>1. ComputerTypeOK /\ StopClaim /\ StopLate /\ stopper.at # "out"
      /\ "error" \in State /\ "stopped" \in State
      /\ UNCHANGED <<lease, status, call, sleeper, spent>>
  BY DEF StopStops, StopRecords, StopClaim, StopLate, ComputerIInv, WellFormed, State
<1>2. CASE stopper' = NoStop
  <2>1. UNCHANGED sandbox /\ (BecomesIf("error") \/ Becomes("stopped"))
    BY <1>2, NoStopType DEF StopStops, StopRecords
  <2>2. computer' \in [state : State, ref : BOOLEAN, moved : BOOLEAN]
    BY <1>1, <2>1, BecomesType, BecomesIfType
  <2> QED BY <1>1, <1>2, <2>1, <2>2, StopEndsKeeps
<1>3. CASE /\ stopper' = [stopper EXCEPT !.at = "recording"] /\ UNCHANGED computer
           /\ sandbox' = IF stopper.ref /\ sandbox = "up" THEN "down" ELSE sandbox
  <2>1. stopper' \in [at : {"out", "claiming", "checking", "deleting", "stopping", "recording"},
                      bot : Bot, prev : State, ref : BOOLEAN]
        /\ stopper'.bot = stopper.bot
    BY <1>1, <1>3 DEF ComputerTypeOK
  <2>2. \A d \in Call : /\ ReplaceClaim(d)' = ReplaceClaim(d)
                        /\ ReplaceLate(d)' = ReplaceLate(d) /\ HoldsRun(d)' = HoldsRun(d)
    BY <1>1, JobSpares
  <2>3. ClaimsOK'
    <3>1. /\ NothingOverwritten' = NothingOverwritten /\ ClaimStands' = ClaimStands
          /\ SleepClaim' = SleepClaim /\ SleepLate' = SleepLate
          /\ StopClaim' /\ StopLate'
      BY <1>1, <1>3
         DEF NothingOverwritten, NoStopAsked, ClaimStands, SleepClaim, SleepLate, StopClaim,
             StopLate, ComputerTypeOK
    <3>2. ClaimsOK
      BY DEF ComputerIInv
    <3>3. NothingOverwritten' => OneClaim' /\ LateStopIsAlone'
      BY <1>1, <1>3, <2>1, <2>2, <3>1, <3>2 DEF ClaimsOK, OneClaim, LateStopIsAlone
    <3>4. ClaimStands' => SleepClaimStands' /\ LateIsAlone'
      BY <1>1, <1>3, <2>2, <3>1, <3>2 DEF ClaimsOK, SleepClaimStands, LateIsAlone
    <3> QED BY <3>3, <3>4 DEF ClaimsOK
  <2>4. /\ computer' \in [state : State, ref : BOOLEAN, moved : BOOLEAN]
        /\ sandbox' \in {"none", "up", "down"}
    BY <1>1, <1>3 DEF ComputerTypeOK
  <2> QED BY <1>1, <2>1, <2>3, <2>4, StopLeavesClaims
<1> QED BY <1>2, <1>3 DEF StopStops, StopRecords

-----------------------------------------------------------------------------
(* The theorems.                                                            *)

\* In the beginning nobody is under way.
LEMMA InitOK == Init => ComputerIInv
<1> SUFFICES ASSUME Init PROVE ComputerIInv
  OBVIOUS
<1>1. /\ \A c \in Call : call[c] = Idle(c)
      /\ \A c \in Call : call[c].at = "out" /\ ~call[c].holds /\ call[c].kind = "run"
      /\ stopper.at = "out" /\ sleeper.at = "out"
      /\ computer.state \notin {"booting", "suspending"}
  BY IdleType, NoStopType DEF Init, NotAsleep
<1>2. ComputerTypeOK
  <2>1. \/ computer = [state |-> "stopped", ref |-> FALSE, moved |-> TRUE] /\ sandbox = "none"
        \/ computer = [state |-> "suspended", ref |-> TRUE, moved |-> TRUE] /\ sandbox = "down"
    BY DEF Init
  <2>2. computer \in [state : State, ref : BOOLEAN, moved : BOOLEAN]
        /\ sandbox \in {"none", "up", "down"}
    <3>1. "stopped" \in State /\ "suspended" \in State
      BY DEF State
    <3>2. CASE computer = [state |-> "stopped", ref |-> FALSE, moved |-> TRUE] /\ sandbox = "none"
      BY <3>1, <3>2
    <3>3. CASE computer = [state |-> "suspended", ref |-> TRUE, moved |-> TRUE] /\ sandbox = "down"
      BY <3>1, <3>3
    <3> QED BY <2>1, <3>2, <3>3
  <2>3. status \in [Run -> Status]
    BY DEF Init, Status
  <2>4. lease \in [Bot -> Lease \cup {NoLease}] /\ spent \in [Budgets -> Nat]
    BY DEF Init
  <2>5. call \in [Call -> Locals]
    BY IdleType DEF Init
  <2>6. /\ sleeper \in [at : {"out", "looking", "saving", "checking", "stopping", "recording"},
                        control : BOOLEAN]
        /\ stopper \in [at : {"out", "claiming", "checking", "deleting", "stopping", "recording"},
                        bot : Bot, prev : State, ref : BOOLEAN]
    BY NoStopType DEF Init, NotAsleep
  <2> QED BY <2>2, <2>3, <2>4, <2>5, <2>6 DEF ComputerTypeOK
<1>3. CallsOK /\ AsksOK
  BY <1>1 DEF CallsOK, CallOK, AsksOK
<1>4. \A c \in Call : /\ ~ReplaceClaim(c) /\ ~ReplaceLate(c) /\ ~Boots(c) /\ ~Uses(c)
                      /\ ~Works(c) /\ call[c].at # "undoing"
  BY <1>1 DEF ReplaceClaim, ReplaceLate, Boots, Uses, Works
<1>5. ~SleepClaim /\ ~SleepLate /\ ~StopClaim /\ ~StopLate
  BY <1>1 DEF SleepClaim, SleepLate, StopClaim, StopLate
<1>6. ClaimsOK
  BY <1>4, <1>5 DEF ClaimsOK, OneClaim, LateStopIsAlone, SleepClaimStands, LateIsAlone
<1>7. SandboxStays
  BY <1>4 DEF SandboxStays, BootIsAlone, UsedIsRunning, UpUnderRun, Boots
<1>8. TransientHasOwner
  BY <1>1 DEF TransientHasOwner
<1> QED BY <1>2, <1>3, <1>6, <1>7, <1>8 DEF ComputerIInv, WellFormed

\* The steps of a call.
LEMMA CallKeeps ==
    ASSUME ComputerIInv, NEW c \in Call, CallStep(c)
    PROVE  ComputerIInv'
<1>1. CASE ReadState(c) \/ Acquire(c) \/ Validate(c) \/ Close(c)
  BY <1>1, ReadStateKeeps, AcquireKeeps, ValidateKeeps, CloseKeeps
<1>2. CASE Enter(c) \/ Await(c) \/ Book(c) \/ Boot(c)
  BY <1>2, EnterKeeps, BookKeeps, BootKeeps
<1>3. CASE Activate(c) \/ Undo(c) \/ Reconnect(c)
  BY <1>3, ActivateKeeps, UndoKeeps, ReconnectKeeps
<1>4. CASE Finish(c) \/ AskTakeover(c) \/ WriteRunning(c) \/ Hold(c) \/ Pause(c)
  BY <1>4, FinishKeeps, AskTakeoverKeeps, WriteRunningKeeps, HoldKeeps, PauseKeeps
<1>5. CASE Look(c) \/ ClaimReplace(c) \/ CheckRuns(c)
  BY <1>5, LookKeeps, ClaimReplaceKeeps, CheckRunsKeeps
<1>6. CASE Destroy(c) \/ ForgetRef(c) \/ FailReplace(c)
  BY <1>6, DestroyKeeps
<1> QED BY <1>1, <1>2, <1>3, <1>4, <1>5, <1>6 DEF CallStep

\* The steps of the users, of time and of what dies.
LEMMA OutsideKeeps ==
    ASSUME ComputerIInv, Outside
    PROVE  ComputerIInv'
<1>1. CASE \E r \in Run : SendMessage(r) \/ ReleaseTakeover(r)
  BY <1>1, MessagesKeep
<1>2. CASE \E b \in Bot : LeaseEnds(b) \/ LeaseLapses(b) \/ StopReads(b)
  BY <1>2, TimeKeeps, StopLooksKeeps
<1>3. CASE \E c \in Call : Crash(c) \/ Heartbeat(c)
  BY <1>3, CrashKeeps, TimeKeeps
<1>4. CASE \E c \in Call : \E b \in Bot, kind \in {"boot", "replace"} : Manual(c, b, kind)
  BY <1>4, ManualKeeps
<1>5. CASE SleepReads \/ CrashSleeper
  BY <1>5, SleepLooksKeeps
<1> QED BY <1>1, <1>2, <1>3, <1>4, <1>5 DEF Outside

\* Every step keeps the invariant.
LEMMA StepsKeep == ComputerIInv /\ [Next]_vars => ComputerIInv'
<1> SUFFICES ASSUME ComputerIInv, [Next]_vars PROVE ComputerIInv'
  OBVIOUS
<1>1. CASE \E c \in Call : CallStep(c) \/ \E r \in Run : StartRun(c, r)
  BY <1>1, CallKeeps, StartRunKeeps
<1>2. CASE SleepStep
  BY <1>2, SleepLooksKeeps, SleepClaimsKeeps, SleepChecksKeeps, SleepStopsKeeps DEF SleepStep
<1>3. CASE StopStep
  BY <1>3, StopClaimsKeeps, StopChecksKeeps, StopLooksKeeps, StopStopsKeeps DEF StopStep
<1>4. CASE Outside
  BY <1>4, OutsideKeeps
<1>5. CASE UNCHANGED vars
  <2>1. UNCHANGED <<computer, sandbox, lease, status, call, sleeper, stopper, spent>>
    BY <1>5 DEF vars
  <2>2. ComputerTypeOK /\ AsksOK
    BY DEF ComputerIInv, WellFormed
  <2>3. ComputerTypeOK' /\ RunsEnd /\ Grows /\ (NoStopAsked' => stopper'.at = "out")
    BY <2>1, <2>2, SameRunsEnd, SameGrows DEF ComputerTypeOK, AsksOK, NoStopAsked
  <2> QED BY <2>1, <2>3, StandKeeps DEF SleepClaim, SleepLate, StopClaim, StopLate
<1> QED BY <1>1, <1>2, <1>3, <1>4, <1>5 DEF Next

\* However handlers, boots, replacements, stops and the sleep job interleave, whichever
\* leases lapse and whoever dies, the claims of the computer are in order.
THEOREM ComputerInvariant == Spec => []ComputerIInv
<1>1. Init => ComputerIInv
  BY InitOK
<1>2. ComputerIInv /\ [Next]_vars => ComputerIInv'
  BY StepsKeep
<1> QED BY <1>1, <1>2, PTL DEF Spec

\* A computer that provisionComputer left booting, or that a replacement or a sleep job
\* left suspending, has a process that ends that state, unless one died or a user stops it.
THEOREM TransientIsEnded == Spec => []ComputerInv
<1>1. ComputerIInv => ComputerInv
  BY DEF ComputerIInv, WellFormed, ComputerInv
<1> QED BY <1>1, ComputerInvariant, PTL

\* Neither sleepComputerIfIdle, nor the rollback of a boot, nor replaceComputer takes the
\* sandbox from a run that still holds its row, be its lease of the computer gone: a
\* replacement at least where no takeover request undid a claim.
THEOREM SandboxIsNotTaken == Spec => []UpBesideReplace
<1>1. ComputerIInv => UpBesideReplace
  BY DEF ComputerIInv, SandboxStays, ClaimStands, UpBesideReplace
<1> QED BY <1>1, ComputerInvariant, PTL

\* A stop that its second look let through finds no run of another bot on the sandbox, if
\* no takeover request undid its claim.
THEOREM StopsSpareOthers == Spec => []StopSparesOthers
<1>1. ComputerIInv => StopSparesOthers
  BY DEF ComputerIInv, ClaimsOK, LateStopIsAlone, StopLate, StopSparesOthers, Works
<1> QED BY <1>1, ComputerInvariant, PTL

(***************************************************************************)
(* The control of its screens.                                             *)
(***************************************************************************)

\* A row that names a lease names the last one that was granted.
RowOK ==
    /\ row.lease = None =>
           /\ row.holder # "user"
           /\ row.expires = None /\ row.bot = None /\ row.run = None
    /\ row.lease # None => row.lease = granted /\ row.expires \in Nat

Issued(l) == l # None => l <= granted

InRow(l) == l # None /\ l = row.lease

\* The leases that streams, views and timers know of; who has that of the row in hand has
\* it with its bot.
LeasesOK ==
    /\ \A b \in Bot : Issued(stream[b]) /\ (InRow(stream[b]) => b = row.bot)
    /\ Issued(view.lease) /\ (InRow(view.lease) => view.bot = row.bot)
    /\ view # NoView => view.lease # None
    /\ \A l \in ControlLease : timer[l] # None => l <= granted

WillClose(p) == proc[p].at \in {"switch", "close", "xclaim", "xclose"}

\* A process is about to close the stream on the screen its lease is for, and has left
\* none behind it; one that is about to claim has read that the lease is over.
ProcOK(p) ==
    /\ Issued(proc[p].lease)
    /\ proc[p].at = "close" => proc[p].bot = proc[p].seen.bot
    /\ WillClose(p) /\ InRow(proc[p].lease) => proc[p].seen.bot = row.bot
    /\ HasClosed(p) => \A b \in Bot : stream[b] # None /\ stream[b] = proc[p].lease
                                          => stream[b] \in loose
    /\ proc[p].at = "xclaim" => proc[p].seen.expires \in Nat /\ proc[p].seen.expires <= clock
    /\ proc[p].at = "extend" => proc[p].seen.expires \in Nat

ControlIInv == ControlInv /\ RowOK /\ LeasesOK /\ \A p \in Proc : ProcOK(p)

-----------------------------------------------------------------------------
(* What a step has to show.                                                 *)

\* The row keeps its lease and the bot of it, forgets it, or gets a new one.
RowMoves ==
    \/ row'.lease = row.lease /\ row'.bot = row.bot /\ granted' = granted
    \/ row'.lease = None /\ granted' = granted
    \/ row'.lease = granted + 1 /\ granted' = granted + 1

StreamsClose == \A b \in Bot : stream'[b] = stream[b] \/ stream'[b] = None

\* A lease that leaves the row leaves no stream, or leaves it in loose.
ForgetsNoStream ==
    row'.lease # row.lease =>
        \A b \in Bot : InRow(stream[b]) => stream'[b] = None \/ row.lease \in loose'

SameView ==
    \/ view' = view
    \/ UNCHANGED row /\ view'.lease = row.lease /\ view'.bot = row.bot /\ row.lease # None

TimersOK == \A l \in ControlLease : timer'[l] # None => timer[l] # None \/ l <= granted

Mild ==
    /\ ControlTypeOK' /\ RowOK' /\ RowMoves /\ StreamsClose /\ ForgetsNoStream
    /\ SameView /\ TimersOK
    /\ loose \subseteq loose' /\ clock <= clock'

\* None is no lease and no number.
LEMMA NoneIsNothing == None \notin Nat /\ None \notin Bot /\ None \notin ControlLease
                       /\ ControlLease \subseteq Nat /\ MaxLeases \in Nat
  BY ControlAssumption DEF ControlLease

\* What a lease in hand has to do with the row after such a step.
LEMMA RowOfIssued ==
    ASSUME ControlTypeOK, RowMoves, NEW l \in ControlLease \cup {None}, Issued(l)
    PROVE  Issued(l)' /\ (InRow(l)' => InRow(l) /\ row'.bot = row.bot)
<1>1. granted \in Nat /\ (l # None => l \in Nat /\ l <= granted)
  BY NoneIsNothing DEF ControlTypeOK, Issued
<1>2. l # None => l # granted + 1 /\ l <= granted'
  BY <1>1 DEF RowMoves
<1>3. InRow(l)' => InRow(l) /\ row'.bot = row.bot
  BY <1>2 DEF RowMoves, InRow
<1> QED BY <1>2, <1>3 DEF Issued

LEMMA MildKeeps ==
    ASSUME ControlIInv, Mild, \A p \in Proc : proc'[p] = proc[p] \/ ProcOK(p)'
    PROVE  ControlIInv'
<1>1. ControlTypeOK /\ RowOK /\ LeasesOK /\ RowMoves /\ StreamsClose /\ ControlTypeOK'
  BY DEF ControlIInv, ControlInv, Mild
<1>2. \A b \in Bot : stream[b] \in ControlLease \cup {None}
  BY <1>1 DEF ControlTypeOK
<1>3. \A p \in Proc : proc[p].lease \in ControlLease \cup {None}
  BY <1>1 DEF ControlTypeOK, ProcLocals
<1>4. view.lease \in ControlLease \cup {None} /\ row.lease \in ControlLease \cup {None}
      /\ granted \in Nat /\ granted' \in Nat /\ granted <= granted'
  BY <1>1, NoneIsNothing DEF ControlTypeOK, Row, RowMoves
<1>5. ASSUME NEW b \in Bot
      PROVE  Issued(stream[b])' /\ (InRow(stream[b])' => b = row'.bot)
  <2>1. CASE stream'[b] = None
    BY <2>1 DEF Issued, InRow
  <2>2. CASE stream'[b] = stream[b]
    BY <1>1, <1>2, <2>2, RowOfIssued DEF LeasesOK, Issued, InRow
  <2> QED BY <1>1, <2>1, <2>2 DEF StreamsClose
<1>6. Issued(view.lease)' /\ (InRow(view.lease)' => view'.bot = row'.bot)
  <2>1. CASE view' = view
    BY <1>1, <1>4, <2>1, RowOfIssued DEF LeasesOK, Issued, InRow
  <2>2. CASE UNCHANGED row /\ view'.lease = row.lease /\ view'.bot = row.bot /\ row.lease # None
    BY <1>1, <1>4, <2>2 DEF Issued, InRow, RowOK
  <2> QED BY <2>1, <2>2 DEF Mild, SameView
<1>7. LeasesOK'
  <2>1. \A l \in ControlLease : timer'[l] # None => l <= granted'
    BY <1>1, <1>4, NoneIsNothing DEF Mild, TimersOK, LeasesOK
  <2>2. (view # NoView => view.lease # None)'
    BY <1>1 DEF Mild, SameView, LeasesOK
  <2> QED BY <1>5, <1>6, <2>1, <2>2 DEF LeasesOK
<1>8. StreamIsRevocable'
  <2> SUFFICES ASSUME NEW b \in Bot, stream'[b] # None, stream'[b] \notin loose'
               PROVE  stream'[b] = row'.lease
    BY DEF StreamIsRevocable
  <2>1. stream'[b] = stream[b] /\ stream[b] \notin loose
    BY <1>1 DEF StreamsClose, Mild
  <2>2. InRow(stream[b])
    BY <2>1 DEF ControlIInv, ControlInv, StreamIsRevocable, InRow
  <2> QED BY <2>1, <2>2 DEF Mild, ForgetsNoStream, InRow
<1>9. ASSUME NEW p \in Proc, proc'[p] = proc[p] PROVE ProcOK(p)'
  <2>1. ProcOK(p) /\ Issued(proc[p].lease)
    BY DEF ControlIInv, ProcOK
  <2>2. /\ Issued(proc[p].lease)'
        /\ InRow(proc[p].lease)' => InRow(proc[p].lease) /\ row'.bot = row.bot
    BY <1>1, <1>3, <1>9, <2>1, RowOfIssued DEF Issued, InRow
  <2>3. WillClose(p)' /\ InRow(proc[p].lease)' => proc'[p].seen.bot = row'.bot
    BY <1>9, <2>1, <2>2 DEF ProcOK, WillClose
  <2>4. HasClosed(p)' => \A b \in Bot : stream'[b] # None /\ stream'[b] = proc'[p].lease
                                            => stream'[b] \in loose'
    BY <1>1, <1>9, <2>1 DEF ProcOK, HasClosed, StreamsClose, Mild
  <2>5. proc'[p].at = "xclaim" => proc'[p].seen.expires \in Nat /\ proc'[p].seen.expires <= clock'
    <3>1. clock \in Nat /\ clock' \in Nat /\ clock <= clock'
      BY <1>1, ControlAssumption DEF ControlTypeOK, Mild
    <3> QED BY <1>9, <2>1, <3>1 DEF ProcOK
  <2>6. proc'[p].at = "extend" => proc'[p].seen.expires \in Nat
    BY <1>9, <2>1 DEF ProcOK
  <2> QED BY <1>9, <2>1, <2>2, <2>3, <2>4, <2>5, <2>6 DEF ProcOK
<1> QED BY <1>1, <1>7, <1>8, <1>9 DEF ControlIInv, ControlInv, Mild

-----------------------------------------------------------------------------
(* How a process moves.                                                     *)

OnlyMoves(p) == proc' \in [Proc -> ProcLocals] /\ \A q \in Proc : q # p => proc'[q] = proc[q]

ProceedsTo(p, stage) ==
    /\ OnlyMoves(p)
    /\ proc'[p].at = stage
    /\ proc'[p].kind = proc[p].kind /\ proc'[p].bot = proc[p].bot
    /\ proc'[p].lease = proc[p].lease /\ proc'[p].run = proc[p].run
    /\ proc'[p].seen = proc[p].seen

IsOut(p) == OnlyMoves(p) /\ proc'[p] = Out

LEMMA MovesOnly ==
    ASSUME ControlTypeOK, NEW p \in Proc, NEW m \in ProcLocals, proc' = [proc EXCEPT ![p] = m]
    PROVE  OnlyMoves(p) /\ proc'[p] = m
  BY DEF OnlyMoves, ControlTypeOK

LEMMA FreeIsRow == Free \in Row
  BY DEF Free, Row

LEMMA OutIsLocal == Out \in ProcLocals /\ Out.at = "out" /\ Out.lease = None
  BY FreeIsRow DEF Out, ProcLocals, Stage

LEMMA ProceedsMoves ==
    ASSUME ControlTypeOK, NEW p \in Proc, NEW stage \in Stage, Proceeds(p, stage)
    PROVE  ProceedsTo(p, stage)
<1>1. proc \in [Proc -> ProcLocals]
  BY DEF ControlTypeOK
<1>2. [proc[p] EXCEPT !.at = stage] \in ProcLocals
  BY <1>1 DEF ProcLocals
<1>3. proc' = [proc EXCEPT ![p] = [proc[p] EXCEPT !.at = stage]]
  BY DEF Proceeds
<1>4. proc'[p] = [proc[p] EXCEPT !.at = stage] /\ OnlyMoves(p)
  BY <1>1, <1>2, <1>3 DEF OnlyMoves
<1> QED BY <1>1, <1>4 DEF ProceedsTo, ProcLocals

LEMMA LeavesMoves ==
    ASSUME ControlTypeOK, NEW p \in Proc, Leaves(p)
    PROVE  IsOut(p)
  BY OutIsLocal DEF ControlTypeOK, Leaves, IsOut, OnlyMoves

LEMMA ReturnsMoves ==
    ASSUME ControlTypeOK, NEW p \in Proc, Returns(p)
    PROVE  ProceedsTo(p, "check") \/ IsOut(p)
<1>1. "check" \in Stage
  BY DEF Stage
<1> QED BY <1>1, ProceedsMoves, LeavesMoves DEF Returns

\* A process that neither closes nor is about to claim has only to know of a lease that
\* was granted.
Plain == Stage \ {"switch", "close", "xclose", "unset", "precancel", "final", "xfinal", "xclaim",
                  "extend"}

LEMMA PlainOK ==
    ASSUME NEW p \in Proc, proc'[p].at \in Plain, Issued(proc[p].lease)'
    PROVE  ProcOK(p)'
  BY DEF ProcOK, Plain, WillClose, HasClosed

LEMMA IssuedStays ==
    ASSUME ControlTypeOK, RowMoves, NEW l \in ControlLease \cup {None}, Issued(l)
    PROVE  l # None => l <= granted'
<1>1. granted \in Nat /\ (l # None => l \in Nat)
  BY NoneIsNothing DEF ControlTypeOK
<1>2. granted' = granted \/ granted' = granted + 1
  BY DEF RowMoves
<1>3. l # None => l <= granted
  BY DEF Issued
<1> QED BY <1>1, <1>2, <1>3

\* A process that goes on with the lease it has, or is through.
LEMMA PlainStep ==
    ASSUME ControlIInv, Mild, NEW p \in Proc,
           \/ IsOut(p)
           \/ \E stage \in Plain : ProceedsTo(p, stage)
    PROVE  ControlIInv'
<1>1. ControlTypeOK /\ RowMoves /\ ProcOK(p)
  BY DEF ControlIInv, ControlInv, Mild
<1>2. proc[p].lease \in ControlLease \cup {None}
  BY <1>1 DEF ControlTypeOK, ProcLocals
<1>3. CASE IsOut(p)
  <2>1. ProcOK(p)'
    BY <1>3, OutIsLocal, PlainOK DEF IsOut, Issued, Plain, Stage
  <2> QED BY <1>3, <2>1, MildKeeps DEF IsOut, OnlyMoves
<1>4. ASSUME NEW stage \in Plain, ProceedsTo(p, stage) PROVE ControlIInv'
  <2>1. Issued(proc[p].lease)'
    BY <1>1, <1>2, <1>4, IssuedStays DEF ProcOK, ProceedsTo, Issued
  <2>2. ProcOK(p)'
    BY <1>4, <2>1, PlainOK DEF ProceedsTo
  <2> QED BY <1>4, <2>2, MildKeeps DEF ProceedsTo, OnlyMoves
<1> QED BY <1>3, <1>4

\* A step that moves a process at most, and timers of leases that were granted.
Still == UNCHANGED <<clock, row, granted, stream, loose>>

LEMMA StillIsMild ==
    ASSUME ControlIInv, Still, ControlTypeOK', SameView, TimersOK
    PROVE  Mild
  BY DEF ControlIInv, Still, Mild, RowOK, RowMoves, StreamsClose, ForgetsNoStream,
         ControlTypeOK, ControlInv, InRow

-----------------------------------------------------------------------------
(* Steps that leave the row and the streams alone.                          *)

\* Nothing but the runs, the clock or the budgets.
LEMMA WorldKeeps ==
    ASSUME ControlIInv,
           \/ Tick
           \/ \E b \in Bot : RunStarts(b) \/ RunWaits(b) \/ RunEnds(b)
    PROVE  ControlIInv'
<1>1. ControlTypeOK /\ RowOK
  BY DEF ControlIInv, ControlInv
<1>2. CASE Tick
  <2>1. ControlTypeOK' /\ clock <= clock'
        /\ UNCHANGED <<row, granted, stream, view, timer, loose, proc>>
    BY <1>1, <1>2, ControlAssumption DEF ControlTypeOK, Tick, control, runs, screens, budget
  <2>2. Mild
    BY <1>1, <2>1 DEF Mild, RowOK, RowMoves, StreamsClose, ForgetsNoStream, SameView, TimersOK
  <2> QED BY <2>1, <2>2, MildKeeps
<1>3. ASSUME NEW b \in Bot, RunStarts(b) \/ RunWaits(b) \/ RunEnds(b) PROVE ControlIInv'
  <2>1. UNCHANGED <<clock, row, granted, stream, view, timer, loose, proc, requests, asks, faults>>
    BY <1>3 DEF RunStarts, RunWaits, RunEnds, control, screens, budget
  <2>2. /\ run' \in [Bot -> {"idle", "working", "asking", "waiting", "queued"}]
        /\ leased' \subseteq Bot
    BY <1>1, <1>3 DEF ControlTypeOK, RunStarts, RunWaits, RunEnds
  <2>3. ControlTypeOK'
    BY <1>1, <2>1, <2>2 DEF ControlTypeOK
  <2>4. Mild
    BY <2>1, <2>3, StillIsMild DEF Still, SameView, TimersOK
  <2> QED BY <2>1, <2>4, MildKeeps
<1> QED BY <1>2, <1>3

Timers == [ControlLease -> Nat \cup {None}]
Runs == [Bot -> {"idle", "working", "asking", "waiting", "queued"}]

\* A step of process p that reads the row and writes timers and runs at most.
Local(p) ==
    /\ Still /\ view' = view
    /\ OnlyMoves(p)
    /\ timer' \in Timers /\ TimersOK
    /\ run' \in Runs /\ leased' \subseteq Bot
    /\ requests' \in Nat /\ asks' \in Nat /\ faults' \in Nat

LEMMA LocalIsMild ==
    ASSUME ControlIInv, NEW p \in Proc, Local(p)
    PROVE  Mild
<1>1. ControlTypeOK'
  BY DEF ControlIInv, ControlInv, ControlTypeOK, Local, Still, OnlyMoves, Timers, Runs
<1> QED BY <1>1, StillIsMild DEF Local, SameView

LEMMA LocalKeeps ==
    ASSUME ControlIInv, NEW p \in Proc, Local(p), ProcOK(p)'
    PROVE  ControlIInv'
  BY LocalIsMild, MildKeeps DEF Local, OnlyMoves

LEMMA LocalPlain ==
    ASSUME ControlIInv, NEW p \in Proc, Local(p),
           \/ IsOut(p)
           \/ \E stage \in Plain : ProceedsTo(p, stage)
    PROVE  ControlIInv'
  BY LocalIsMild, PlainStep

\* One timer of a lease that was granted, or none, is set.
LEMMA OneTimer ==
    ASSUME ControlTypeOK, NEW l \in ControlLease \cup {None}, NEW t \in Nat \cup {None},
           timer' = [timer EXCEPT ![l] = t], t # None => Issued(l)
    PROVE  timer' \in Timers /\ TimersOK
<1>1. timer \in [ControlLease -> Nat \cup {None}] /\ None \notin ControlLease
  BY NoneIsNothing DEF ControlTypeOK
<1>2. timer' \in Timers /\ \A k \in ControlLease : timer'[k] = IF k = l THEN t ELSE timer[k]
  BY <1>1 DEF Timers
<1> QED BY <1>1, <1>2 DEF TimersOK, Issued

\* What every step of a process finds.
LEMMA AtHand ==
    ASSUME ControlIInv, NEW p \in Proc
    PROVE  /\ ControlTypeOK /\ RowOK /\ LeasesOK /\ ProcOK(p)
           /\ proc[p] \in ProcLocals /\ row \in Row /\ timer \in Timers /\ run \in Runs
           /\ proc[p].lease \in ControlLease \cup {None} /\ Issued(proc[p].lease)
           /\ row.lease \in ControlLease \cup {None} /\ Issued(row.lease)
           /\ row.expires \in Nat \cup {None} /\ proc[p].seen \in Row
           /\ clock \in Nat /\ granted \in Nat
<1>1. ControlTypeOK /\ RowOK /\ LeasesOK /\ ProcOK(p)
  BY DEF ControlIInv, ControlInv
<1>2. granted \in Nat /\ clock \in Nat
  BY <1>1, NoneIsNothing, ControlAssumption DEF ControlTypeOK
<1>3. Issued(row.lease)
  BY <1>1, <1>2 DEF RowOK, Issued
<1> QED BY <1>1, <1>2, <1>3 DEF ControlTypeOK, ProcLocals, Row, ProcOK, Timers, Runs

\* The user asks.
LEMMA AsksMoves ==
    ASSUME ControlIInv, NEW p \in Proc, NEW b \in Bot, NEW stage \in Stage,
           NEW kind \in {"takeover", "teach", "release", "unteach", "status"},
           Asks(p, kind, b, stage)
    PROVE  /\ Local(p) /\ proc'[p].at = stage
           /\ proc'[p].bot = b /\ proc'[p].lease = row.lease /\ proc'[p].seen = row
<1>1. ControlTypeOK /\ row.lease \in ControlLease \cup {None} /\ row \in Row
  BY AtHand
<1> DEFINE l == [kind |-> kind, at |-> stage, bot |-> b, lease |-> row.lease, run |-> None,
                 seen |-> row]
<1>2. l \in ProcLocals
  BY <1>1 DEF ProcLocals
<1>3. proc' = [proc EXCEPT ![p] = l]
  BY DEF Asks
<1>4. OnlyMoves(p) /\ proc'[p] = l
  BY <1>1, <1>2, <1>3 DEF OnlyMoves, ControlTypeOK
<1>5. Still /\ UNCHANGED <<view, timer, run, leased, asks, faults>> /\ requests' = requests + 1
  BY DEF Asks, Still, control, runs, screens
<1>6. Local(p)
  BY <1>1, <1>4, <1>5 DEF Local, ControlTypeOK, Timers, Runs, TimersOK
<1> QED BY <1>4, <1>6

LEMMA RequestsKeep ==
    ASSUME ControlIInv, NEW p \in Proc, Requests(p)
    PROVE  ControlIInv'
<1>1. PICK b \in Bot : \/ TakeoverReads(p, b) \/ TeachReads(p, b) \/ ReleaseReads(p, b)
                       \/ UnteachReads(p, b) \/ StatusFindsStale(p, b)
  BY DEF Requests
<1>2. ASSUME NEW kind \in {"takeover", "teach", "release", "unteach", "status"},
             NEW stage \in {"rearm", "switch", "xread", "check", "cancel", "close"},
             Asks(p, kind, b, stage), stage = "close" => row.bot = b
      PROVE  ControlIInv'
  <2>1. stage \in Stage
    BY DEF Stage
  <2>2. /\ Local(p) /\ proc'[p].at = stage
        /\ proc'[p].bot = b /\ proc'[p].lease = row.lease /\ proc'[p].seen = row
    BY <1>2, <2>1, AsksMoves
  <2>3. Issued(proc[p].lease)'
    BY <2>2, AtHand DEF Issued, Local, Still
  <2>4. ProcOK(p)'
    BY <1>2, <2>2, <2>3 DEF ProcOK, WillClose, HasClosed, InRow, Local, Still
  <2> QED BY <2>2, <2>4, LocalKeeps
<1> QED BY <1>1, <1>2 DEF TakeoverReads, TeachReads, ReleaseReads, UnteachReads, StatusFindsStale

\* A process that has the row, or a part of it, in hand now.
SeesThen(p, stage, l, c) ==
    /\ OnlyMoves(p)
    /\ proc'[p].at = stage /\ proc'[p].lease = l /\ proc'[p].seen = c
    /\ proc'[p].kind = proc[p].kind /\ proc'[p].bot = proc[p].bot /\ proc'[p].run = proc[p].run

LEMMA RereadMoves ==
    ASSUME ControlTypeOK, NEW p \in Proc, NEW stage \in Stage,
           NEW l \in ControlLease \cup {None}, NEW c \in Row,
           proc' = [proc EXCEPT ![p].at = stage, ![p].lease = l, ![p].seen = c]
    PROVE  SeesThen(p, stage, l, c)
<1> DEFINE m == [proc[p] EXCEPT !.at = stage, !.lease = l, !.seen = c]
<1>1. proc \in [Proc -> ProcLocals]
  BY DEF ControlTypeOK
<1>2. m \in ProcLocals /\ m.at = stage /\ m.lease = l /\ m.seen = c
      /\ m.kind = proc[p].kind /\ m.bot = proc[p].bot /\ m.run = proc[p].run
  BY <1>1 DEF ProcLocals
<1>3. proc' = [proc EXCEPT ![p] = m]
  OBVIOUS
<1> HIDE DEF m
<1>4. OnlyMoves(p) /\ proc'[p] = m
  BY <1>2, <1>3, MovesOnly
<1> QED BY <1>2, <1>4 DEF SeesThen

LEMMA SeenMoves ==
    ASSUME ControlTypeOK, NEW p \in Proc, NEW stage \in Stage, NEW c \in Row,
           proc' = [proc EXCEPT ![p].at = stage, ![p].seen = c]
    PROVE  SeesThen(p, stage, proc[p].lease, c)
<1> DEFINE m == [proc[p] EXCEPT !.at = stage, !.seen = c]
<1>1. proc \in [Proc -> ProcLocals]
  BY DEF ControlTypeOK
<1>2. m \in ProcLocals /\ m.at = stage /\ m.lease = proc[p].lease /\ m.seen = c
      /\ m.kind = proc[p].kind /\ m.bot = proc[p].bot /\ m.run = proc[p].run
  BY <1>1 DEF ProcLocals
<1>3. proc' = [proc EXCEPT ![p] = m]
  OBVIOUS
<1> HIDE DEF m
<1>4. OnlyMoves(p) /\ proc'[p] = m
  BY <1>2, <1>3, MovesOnly
<1> QED BY <1>2, <1>4 DEF SeesThen

\* The statements of a process that write neither the row nor a stream.
LEMMA ReadsKeep ==
    ASSUME ControlIInv, NEW p \in Proc,
           SwitchRereads(p) \/ Checks(p) \/ GrantMissed(p) \/ TeachRefused(p) \/ TeachCancels(p)
    PROVE  ControlIInv'
<1>0. /\ ControlTypeOK /\ proc[p] \in ProcLocals /\ timer \in Timers /\ run \in Runs
      /\ row.lease \in ControlLease \cup {None} /\ row \in Row
      /\ Issued(proc[p].lease) /\ Issued(row.lease)
  BY AtHand
<1>1. proc \in [Proc -> ProcLocals]
  BY <1>0 DEF ControlTypeOK
\* One that has read the row, or chosen its next stage.
<1>2. ASSUME UNCHANGED <<clock, row, granted, stream, loose, view, timer, requests, asks, faults>>,
             run' \in Runs, leased' \subseteq Bot,
             OnlyMoves(p), proc'[p].at \in Plain, proc'[p].lease \in {proc[p].lease, row.lease}
      PROVE  ControlIInv'
  <2>1. Local(p)
    BY <1>0, <1>2 DEF Local, Still, ControlTypeOK, Timers, TimersOK
  <2>2. Issued(proc[p].lease)'
    BY <1>0, <1>2 DEF Issued
  <2> QED BY <1>2, <2>1, <2>2, PlainOK, LocalKeeps
<1>3. ASSUME UNCHANGED <<clock, row, granted, stream, loose, view, timer, requests, asks, faults>>,
             run' \in Runs, leased' \subseteq Bot, Leaves(p)
      PROVE  ControlIInv'
  <2>1. IsOut(p)
    BY <1>0, <1>3, LeavesMoves
  <2>2. Local(p)
    BY <1>0, <1>3, <2>1 DEF Local, Still, ControlTypeOK, Timers, TimersOK, IsOut
  <2> QED BY <2>1, <2>2, LocalPlain
<1>4. CASE SwitchRereads(p)
  <2> DEFINE l == [proc[p] EXCEPT !.lease = row.lease, !.seen = row,
                                  !.at = IF row.lease # None THEN "xread" ELSE "check"]
  <2>1. l \in ProcLocals /\ l.at \in Plain /\ l.lease = row.lease
    BY <1>0 DEF ProcLocals, Plain, Stage
  <2>2. proc' = [proc EXCEPT ![p] = l]
    BY <1>4 DEF SwitchRereads
  <2>3. OnlyMoves(p) /\ proc'[p] = l
    BY <1>1, <2>1, <2>2 DEF OnlyMoves
  <2>4. UNCHANGED <<clock, row, granted, run, leased, timer, stream, view, loose,
                    requests, asks, faults>>
    BY <1>4 DEF SwitchRereads, control, runs, screens, budget
  <2> QED BY <1>0, <1>2, <2>1, <2>3, <2>4 DEF ControlTypeOK
<1>5. CASE Checks(p)
  <2>1. UNCHANGED <<clock, row, granted, run, leased, timer, stream, view, loose,
                    requests, asks, faults>>
    BY <1>5 DEF Checks, control, runs, screens, budget
  <2>2. CASE Leaves(p)
    BY <1>0, <1>3, <2>1, <2>2 DEF ControlTypeOK
  <2>3. CASE ~Leaves(p)
    <3> DEFINE l == [proc[p] EXCEPT !.at = "grant",
                                    !.run = IF proc[p].bot \in leased THEN proc[p].bot ELSE None]
    <3>1. l \in ProcLocals /\ l.at \in Plain /\ l.lease = proc[p].lease
      BY <1>0 DEF ProcLocals, Plain, Stage
    <3>2. proc' = [proc EXCEPT ![p] = l]
      BY <1>5, <2>3 DEF Checks
    <3>3. OnlyMoves(p) /\ proc'[p] = l
      BY <1>1, <3>1, <3>2 DEF OnlyMoves
    <3> QED BY <1>0, <1>2, <2>1, <3>1, <3>3 DEF ControlTypeOK
  <2> QED BY <2>2, <2>3
<1>6. CASE GrantMissed(p)
  <2>1. UNCHANGED <<clock, row, granted, run, leased, timer, stream, view, loose,
                    requests, asks, faults>>
    BY <1>6 DEF GrantMissed, control, runs, screens, budget
  <2>2. CASE Leaves(p)
    BY <1>0, <1>3, <2>1, <2>2 DEF ControlTypeOK
  <2>3. CASE ~Leaves(p)
    <3>1. "rearm" \in Stage /\ "rearm" \in Plain
      BY DEF Plain, Stage
    <3>2. proc' = [proc EXCEPT ![p].at = "rearm", ![p].lease = row.lease, ![p].seen = row]
      BY <1>6, <2>3 DEF GrantMissed
    <3>3. SeesThen(p, "rearm", row.lease, row)
      BY <1>0, <3>1, <3>2, RereadMoves
    <3> QED BY <1>0, <1>2, <2>1, <3>1, <3>3 DEF ControlTypeOK, SeesThen
  <2> QED BY <2>2, <2>3
<1>7. CASE TeachRefused(p)
  BY <1>0, <1>3, <1>7 DEF TeachRefused, control, runs, screens, budget, ControlTypeOK
<1>8. CASE TeachCancels(p)
  <2>1. UNCHANGED <<clock, row, granted, stream, loose, view, timer, requests, asks, faults>>
    BY <1>8 DEF TeachCancels, control, screens, budget
  <2>2. run' \in Runs /\ leased' \subseteq Bot
    BY <1>0, <1>8 DEF TeachCancels, Runs, ControlTypeOK
  <2>3. TeachUntil \in Nat
    BY <1>0, ControlAssumption DEF TeachUntil, ControlTypeOK
  <2>4. CASE proc' = [proc EXCEPT ![p].at = "extend", ![p].seen.expires = TeachUntil]
    <3> DEFINE c == [proc[p].seen EXCEPT !.expires = TeachUntil]
    <3>1. c \in Row /\ c.expires \in Nat /\ "extend" \in Stage
      BY <1>0, <2>3 DEF ProcLocals, Row, Stage
    <3>2. proc' = [proc EXCEPT ![p].at = "extend", ![p].seen = c]
      BY <1>1, <2>4
    <3> HIDE DEF c
    <3>3. SeesThen(p, "extend", proc[p].lease, c)
      BY <1>0, <3>1, <3>2, SeenMoves
    <3>4. Local(p)
      BY <1>0, <2>1, <2>2, <3>3 DEF Local, Still, ControlTypeOK, TimersOK, SeesThen
    <3>5. ProcOK(p)'
      BY <1>0, <2>1, <3>1, <3>3 DEF ProcOK, SeesThen, WillClose, HasClosed, Issued
    <3> QED BY <3>4, <3>5, LocalKeeps
  <2>5. CASE Proceeds(p, "teach")
    <3>1. "teach" \in Stage /\ "teach" \in Plain
      BY DEF Stage, Plain
    <3>2. ProceedsTo(p, "teach")
      BY <1>0, <2>5, <3>1, ProceedsMoves
    <3> QED BY <1>2, <2>1, <2>2, <3>1, <3>2 DEF ProceedsTo
  <2> QED BY <1>8, <2>4, <2>5 DEF TeachCancels, Proceeds
<1> QED BY <1>4, <1>5, <1>6, <1>7, <1>8

\* The jobs of the leases: set, cancelled, tried again.
LEMMA TimersKeep ==
    ASSUME ControlIInv, NEW p \in Proc, Arms(p) \/ ArmFails(p) \/ Cancels(p) \/ Fails(p)
    PROVE  ControlIInv'
<1>0. /\ ControlTypeOK /\ proc[p] \in ProcLocals /\ timer \in Timers /\ run \in Runs
      /\ proc[p].lease \in ControlLease \cup {None} /\ Issued(proc[p].lease)
      /\ proc[p].seen.expires \in Nat \cup {None} /\ clock \in Nat
  BY AtHand DEF Row
<1>1. UNCHANGED <<clock, row, granted, stream, loose, view, run, leased>>
      /\ requests' \in Nat /\ asks' \in Nat /\ faults' \in Nat
  BY <1>0 DEF Arms, ArmFails, Cancels, Fails, Fault, control, runs, screens, budget, ControlTypeOK
<1>2. timer' \in Timers /\ TimersOK
  <2>1. CASE timer' = timer
    BY <1>0, <2>1 DEF TimersOK
  <2>2. CASE timer' # timer
    <3>1. PICK t \in Nat \cup {None} : timer' = [timer EXCEPT ![proc[p].lease] = t]
      BY <1>0, <2>2 DEF Arms, ArmFails, Cancels, Fails, Schedules
    <3> QED BY <1>0, <3>1, OneTimer
  <2> QED BY <2>1, <2>2
<1>3. IsOut(p) \/ \E stage \in Plain \cup {"final"} : ProceedsTo(p, stage)
  <2>1. "revert" \in Plain /\ "revert" \in Stage /\ "final" \in Stage
    BY DEF Plain, Stage
  <2>2. Leaves(p) \/ Proceeds(p, "revert") \/ Proceeds(p, "final")
    BY DEF Arms, ArmFails, Cancels, Fails
  <2> QED BY <1>0, <2>1, <2>2, ProceedsMoves, LeavesMoves
<1>4. Local(p)
  BY <1>0, <1>1, <1>2, <1>3 DEF Local, Still, IsOut, ProceedsTo, ControlTypeOK
<1>5. CASE IsOut(p) \/ \E stage \in Plain : ProceedsTo(p, stage)
  BY <1>4, <1>5, LocalPlain
<1>6. CASE ProceedsTo(p, "final") /\ ~ IsOut(p)
  <2>1. proc[p].at = "precancel"
    <3>1. proc'[p].at = "final" /\ "final" # "out" /\ "final" # "revert"
      BY <1>6 DEF ProceedsTo
    <3>2. ~ Leaves(p)
      BY <1>0, <1>6, LeavesMoves
    <3>3. ~ Proceeds(p, "revert")
      BY <1>0, <3>1, ProceedsMoves DEF ProceedsTo, Stage
    <3> QED BY <3>2, <3>3 DEF Arms, ArmFails, Cancels, Fails
  <2>2. ProcOK(p)
    BY AtHand
  <2>3. ProcOK(p)'
    BY <1>1, <1>6, <2>1, <2>2 DEF ProcOK, ProceedsTo, HasClosed, WillClose, Issued, InRow
  <2> QED BY <1>4, <2>3, LocalKeeps
<1> QED BY <1>3, <1>5, <1>6

LEMMA ReconcilesKeeps ==
    ASSUME ControlIInv, Reconciles
    PROVE  ControlIInv'
<1>0. /\ ControlTypeOK /\ timer \in Timers
      /\ row.lease \in ControlLease \cup {None} /\ row.expires \in Nat \cup {None}
      /\ Issued(row.lease)
  BY DEF ControlIInv, ControlInv, ControlTypeOK, Row, RowOK, Issued, Timers
<1>1. UNCHANGED <<clock, row, granted, run, leased, stream, view, loose, proc,
                  requests, asks, faults>>
  BY DEF Reconciles, control, runs, screens, budget
<1>2. timer' \in Timers /\ TimersOK
  BY <1>0, OneTimer DEF Reconciles, Schedules
<1>3. ControlTypeOK'
  BY <1>0, <1>1, <1>2 DEF ControlTypeOK, Timers
<1>4. Mild
  BY <1>1, <1>2, <1>3, StillIsMild DEF Still, SameView
<1> QED BY <1>1, <1>4, MildKeeps

LEMMA FiresKeeps ==
    ASSUME ControlIInv, NEW p \in Proc, NEW l \in ControlLease, TimerFires(p, l)
    PROVE  ControlIInv'
<1>0. ControlTypeOK /\ LeasesOK /\ run \in Runs
  BY AtHand
<1> DEFINE m == [Out EXCEPT !.kind = "expire", !.at = "xread", !.lease = l]
<1>1. m \in ProcLocals /\ m.at \in Plain /\ m.lease = l
  BY OutIsLocal DEF ProcLocals, Stage, Plain, Out
<1>2. proc' = [proc EXCEPT ![p] = m]
  BY DEF TimerFires
<1> HIDE DEF m
<1>3. OnlyMoves(p) /\ proc'[p] = m
  BY <1>0, <1>1, <1>2, MovesOnly
<1>4. UNCHANGED <<clock, row, granted, run, leased, stream, view, loose, requests, asks, faults>>
  BY DEF TimerFires, control, runs, screens, budget
<1>5. l <= granted
  BY <1>0 DEF TimerFires, LeasesOK
<1>6. timer' \in Timers /\ TimersOK
  BY <1>0, OneTimer DEF TimerFires
<1>7. Local(p)
  BY <1>0, <1>3, <1>4, <1>6 DEF Local, Still, ControlTypeOK
<1>8. ProcOK(p)'
  BY <1>1, <1>3, <1>4, <1>5, PlainOK DEF Issued
<1> QED BY <1>7, <1>8, LocalKeeps

LEMMA ExpiryReadsKeeps ==
    ASSUME ControlIInv, NEW p \in Proc, ExpiryReads(p)
    PROVE  ControlIInv'
<1>0. /\ ControlTypeOK /\ RowOK /\ timer \in Timers /\ run \in Runs /\ row \in Row
      /\ row.lease \in ControlLease \cup {None} /\ row.expires \in Nat \cup {None}
      /\ Issued(proc[p].lease) /\ Issued(row.lease) /\ clock \in Nat
  BY AtHand
<1>1. UNCHANGED <<clock, row, granted, run, leased, stream, view, loose, requests, asks, faults>>
  BY DEF ExpiryReads, control, runs, screens, budget
<1>2. timer' \in Timers /\ TimersOK
  BY <1>0, OneTimer DEF ExpiryReads, Schedules, TimersOK
<1>3. CASE Returns(p)
  <2>1. "check" \in Plain
    BY DEF Plain, Stage
  <2>2. ProceedsTo(p, "check") \/ IsOut(p)
    BY <1>0, <1>3, ReturnsMoves
  <2>3. Local(p)
    BY <1>0, <1>1, <1>2, <2>2 DEF Local, Still, ProceedsTo, IsOut, ControlTypeOK
  <2> QED BY <2>1, <2>2, <2>3, LocalPlain
<1>4. CASE ~ Returns(p)
  <2>1. /\ row.lease = proc[p].lease /\ row.bot # None /\ ~ (row.expires > clock)
        /\ proc' = [proc EXCEPT ![p].at = "xclaim", ![p].seen = row]
    BY <1>4 DEF ExpiryReads
  <2>2. "xclaim" \in Stage
    BY DEF Stage
  <2>3. SeesThen(p, "xclaim", proc[p].lease, row)
    BY <1>0, <2>1, <2>2, SeenMoves
  <2>4. Local(p)
    BY <1>0, <1>1, <1>2, <2>3 DEF Local, Still, SeesThen, ControlTypeOK
  <2>5. row.expires \in Nat /\ row.expires <= clock
    BY <1>0, <2>1 DEF RowOK
  <2>6. ProcOK(p)'
    BY <1>0, <1>1, <2>3, <2>5 DEF ProcOK, SeesThen, HasClosed, WillClose, Issued, InRow
  <2> QED BY <2>4, <2>6, LocalKeeps
<1> QED BY <1>3, <1>4

\* A viewer reads the lease of the row with its bot.
LEMMA ViewReadsKeeps ==
    ASSUME ControlIInv, NEW b \in Bot, ViewReads(b)
    PROVE  ControlIInv'
<1>0. ControlTypeOK /\ row.lease \in ControlLease \cup {None}
  BY DEF ControlIInv, ControlInv, ControlTypeOK, Row
<1>1. UNCHANGED <<clock, row, granted, run, leased, timer, stream, loose, proc,
                  requests, asks, faults>>
      /\ view' = [bot |-> row.bot, lease |-> row.lease] /\ row.bot = b /\ row.lease # None
  BY DEF ViewReads, control, runs, budget, HasControl
<1>2. ControlTypeOK'
  BY <1>0, <1>1 DEF ControlTypeOK
<1>3. Mild
  BY <1>1, <1>2, StillIsMild DEF Still, SameView, TimersOK
<1> QED BY <1>1, <1>3, MildKeeps

-----------------------------------------------------------------------------
(* Steps that close a stream.                                               *)

\* A process closes the stream of its lease, and goes on to a stage after that.
ClosesOwn(p) ==
    /\ Closes(proc[p].seen.bot, proc[p].lease)
    /\ UNCHANGED <<clock, row, granted, run, leased, timer, view, loose, requests, asks, faults>>
    /\ \E stage \in {"unset", "precancel", "final", "xfinal"} : ProceedsTo(p, stage)

LEMMA ClosesOwnKeeps ==
    ASSUME ControlIInv, NEW p \in Proc, WillClose(p), ClosesOwn(p)
    PROVE  ControlIInv'
<1>0. /\ ControlTypeOK /\ RowOK /\ LeasesOK /\ ProcOK(p) /\ Issued(proc[p].lease)
      /\ proc[p].seen.bot \in Bot \cup {None} /\ StreamIsRevocable
  BY AtHand DEF ControlIInv, ControlInv, Row
<1>1. /\ stream' \in [Bot -> ControlLease \cup {None}]
      /\ \A b \in Bot : stream'[b] = IF b = proc[p].seen.bot /\ stream[b] = proc[p].lease
                                     THEN None ELSE stream[b]
  BY <1>0, NoneIsNothing DEF ClosesOwn, Closes, ControlTypeOK
<1>2. ControlTypeOK'
  <2>1. proc' \in [Proc -> ProcLocals]
    BY DEF ClosesOwn, ProceedsTo, OnlyMoves
  <2> QED BY <1>0, <1>1, <2>1 DEF ClosesOwn, ControlTypeOK
<1>3. Mild
  BY <1>0, <1>1, <1>2 DEF Mild, ClosesOwn, RowOK, RowMoves, StreamsClose, ForgetsNoStream,
                          SameView, TimersOK, ControlTypeOK
<1>4. ASSUME NEW b \in Bot, stream'[b] # None, stream'[b] = proc[p].lease
      PROVE  stream'[b] \in loose
  <2>1. stream'[b] = stream[b] /\ (b # proc[p].seen.bot)
    BY <1>1, <1>4
  <2>2. CASE stream[b] = row.lease
    <3>1. InRow(stream[b]) /\ b = row.bot
      BY <1>0, <1>4, <2>1, <2>2 DEF LeasesOK, InRow
    <3>2. proc[p].seen.bot = row.bot
      BY <1>0, <1>4, <2>1, <2>2, <3>1 DEF ProcOK, InRow
    <3> QED BY <2>1, <3>1, <3>2
  <2>3. CASE stream[b] # row.lease
    BY <1>0, <1>4, <2>1, <2>3 DEF StreamIsRevocable
  <2> QED BY <2>2, <2>3
<1>5. ProcOK(p)'
  BY <1>0, <1>4 DEF ClosesOwn, ProcOK, ProceedsTo, HasClosed, WillClose, Issued
<1> QED BY <1>3, <1>5, MildKeeps DEF ClosesOwn, ProceedsTo, OnlyMoves

LEMMA ClosesKeep ==
    ASSUME ControlIInv, NEW p \in Proc, SwitchCloses(p) \/ ReleaseCloses(p) \/ ExpiryCloses(p)
    PROVE  ControlIInv'
<1>0. ControlTypeOK /\ ProcOK(p) /\ {"unset", "precancel", "final", "xfinal"} \subseteq Stage
  BY AtHand DEF Stage
<1>1. UNCHANGED <<clock, row, granted, run, leased, timer, view, loose, requests, asks, faults>>
  BY DEF SwitchCloses, ReleaseCloses, ExpiryCloses, control, runs, budget
<1>2. WillClose(p)
  BY DEF SwitchCloses, ReleaseCloses, ExpiryCloses, WillClose
<1>3. Closes(proc[p].seen.bot, proc[p].lease)
  BY <1>0 DEF SwitchCloses, ReleaseCloses, ExpiryCloses, ProcOK
<1>4. \E stage \in {"unset", "precancel", "final", "xfinal"} : Proceeds(p, stage)
  BY DEF SwitchCloses, ReleaseCloses, ExpiryCloses
<1>5. \E stage \in {"unset", "precancel", "final", "xfinal"} : ProceedsTo(p, stage)
  BY <1>0, <1>4, ProceedsMoves
<1> QED BY <1>1, <1>2, <1>3, <1>5, ClosesOwnKeeps DEF ClosesOwn

-----------------------------------------------------------------------------
(* Steps that write the row.                                                *)

RowStep(p) ==
    /\ OnlyMoves(p)
    /\ UNCHANGED <<clock, stream, view, timer, requests, asks, faults>>
    /\ row' \in Row /\ granted' \in 0 .. MaxLeases /\ RowOK' /\ RowMoves
    /\ loose' \subseteq ControlLease /\ loose \subseteq loose' /\ ForgetsNoStream
    /\ run' \in Runs /\ leased' \subseteq Bot

LEMMA RowStepIsMild ==
    ASSUME ControlIInv, NEW p \in Proc, RowStep(p)
    PROVE  Mild
<1>0. ControlTypeOK /\ clock \in Nat
  BY AtHand
<1>1. ControlTypeOK'
  BY <1>0 DEF RowStep, ControlTypeOK, OnlyMoves, Runs
<1> QED BY <1>0, <1>1 DEF Mild, RowStep, StreamsClose, SameView, TimersOK

\* The columns are emptied; the holder may stay the bot.
Empties == row'.lease = None /\ row'.bot = None /\ row'.run = None /\ row'.expires = None
           /\ row'.holder \in {"none", "bot"} /\ row' \in Row

LEMMA EmptiesOK ==
    ASSUME ControlTypeOK, Empties, granted' = granted
    PROVE  RowOK' /\ RowMoves /\ row' \in Row /\ granted' \in 0 .. MaxLeases
  BY DEF Empties, RowOK, RowMoves, ControlTypeOK

LEMMA LoosensOK ==
    ASSUME ControlTypeOK, Loosens
    PROVE  loose' \subseteq ControlLease /\ loose \subseteq loose' /\ ForgetsNoStream
  BY DEF Loosens, ForgetsNoStream, InRow, ControlTypeOK, Row

\* A process that has closed the stream of its lease, or found it loose, forgets none.
LEMMA ClosedOK ==
    ASSUME ControlIInv, NEW p \in Proc, HasClosed(p), row.lease = proc[p].lease, loose' = loose
    PROVE  loose' \subseteq ControlLease /\ loose \subseteq loose' /\ ForgetsNoStream
<1>1. ControlTypeOK /\ ProcOK(p)
  BY AtHand
<1> QED BY <1>1 DEF ForgetsNoStream, InRow, ControlTypeOK, ProcOK

LEMMA UntouchedOK ==
    ASSUME ControlIInv, UNCHANGED <<row, granted, loose>>
    PROVE  /\ RowOK' /\ RowMoves /\ row' \in Row /\ granted' \in 0 .. MaxLeases
           /\ loose' \subseteq ControlLease /\ loose \subseteq loose' /\ ForgetsNoStream
  BY DEF ControlIInv, ControlInv, ControlTypeOK, RowOK, RowMoves, ForgetsNoStream

LEMMA ClearsKeep ==
    ASSUME ControlIInv, NEW p \in Proc, SwitchClears(p) \/ Reverts(p)
    PROVE  ControlIInv'
<1>0. ControlTypeOK /\ run \in Runs /\ row \in Row
  BY AtHand
<1>1. UNCHANGED <<clock, stream, view, timer, requests, asks, faults, granted, run, leased>>
  BY DEF SwitchClears, Reverts, runs, screens, budget
<1>2. IsOut(p) \/ \E stage \in Plain : ProceedsTo(p, stage)
  <2>1. "reread" \in Stage /\ "reread" \in Plain
    BY DEF Stage, Plain
  <2> QED BY <1>0, <2>1, ProceedsMoves, LeavesMoves DEF SwitchClears, Reverts
<1>3. CASE row' = row /\ loose' = loose
  <2>1. RowStep(p)
    BY <1>0, <1>1, <1>2, <1>3, UntouchedOK DEF RowStep, IsOut, ProceedsTo, ControlTypeOK
  <2> QED BY <1>2, <2>1, RowStepIsMild, PlainStep
<1>4. CASE ~ (row' = row /\ loose' = loose)
  <2>1. row' = Free /\ row.lease = proc[p].lease /\ (Loosens \/ (HasClosed(p) /\ loose' = loose))
    BY <1>4 DEF SwitchClears, Reverts, HasClosed, screens
  <2>2. Empties
    BY <2>1, FreeIsRow DEF Empties, Free
  <2>3. loose' \subseteq ControlLease /\ loose \subseteq loose' /\ ForgetsNoStream
    BY <1>0, <2>1, LoosensOK, ClosedOK
  <2>4. RowOK' /\ RowMoves /\ row' \in Row /\ granted' \in 0 .. MaxLeases
    BY <1>0, <1>1, <2>2, EmptiesOK
  <2>5. RowStep(p)
    BY <1>0, <1>1, <1>2, <2>3, <2>4 DEF RowStep, IsOut, ProceedsTo, ControlTypeOK
  <2> QED BY <1>2, <2>5, RowStepIsMild, PlainStep
<1> QED BY <1>3, <1>4

\* A run of the bot, of another bot or of none is resumed.
LEMMA ResumesType ==
    ASSUME run \in Runs, NEW b \in Bot \cup {None}, Resumes(b)
    PROVE  run' \in Runs
  BY NoneIsNothing DEF Runs, Resumes

LEMMA FinalizesKeep ==
    ASSUME ControlIInv, NEW p \in Proc, ReleaseFinalizes(p) \/ ExpiryFinalizes(p)
    PROVE  ControlIInv'
<1>0. ControlTypeOK /\ run \in Runs /\ row \in Row /\ proc[p].seen.run \in Bot \cup {None}
  BY AtHand DEF Row
<1>1. UNCHANGED <<clock, stream, view, timer, requests, asks, faults, granted, leased, loose>>
      /\ Finalizes(p) /\ HasClosed(p)
  BY DEF ReleaseFinalizes, ExpiryFinalizes, HasClosed, screens, budget
<1>2. IsOut(p) \/ \E stage \in Plain : ProceedsTo(p, stage)
  <2>1. {"cancelled", "check"} \subseteq Stage /\ {"cancelled", "check"} \subseteq Plain
    BY DEF Stage, Plain
  <2> QED BY <1>0, <2>1, ProceedsMoves, LeavesMoves DEF ReleaseFinalizes, ExpiryFinalizes, Returns
<1>3. run' \in Runs
  BY <1>0, <1>1, ResumesType DEF Finalizes
<1>4. CASE row' = row
  <2>1. RowStep(p)
    BY <1>0, <1>1, <1>2, <1>3, <1>4, UntouchedOK DEF RowStep, IsOut, ProceedsTo, ControlTypeOK
  <2> QED BY <1>2, <2>1, RowStepIsMild, PlainStep
<1>5. CASE row' # row
  <2>1. row.lease = proc[p].lease
        /\ \E h \in {"none", "bot"} : row' = [Free EXCEPT !.holder = h]
    BY <1>1, <1>5 DEF Finalizes, Owns
  <2>2. Empties
    BY <2>1 DEF Empties, Free, Row
  <2>3. loose' \subseteq ControlLease /\ loose \subseteq loose' /\ ForgetsNoStream
    BY <1>1, <2>1, ClosedOK
  <2>4. RowOK' /\ RowMoves /\ row' \in Row /\ granted' \in 0 .. MaxLeases
    BY <1>0, <1>1, <2>2, EmptiesOK
  <2>5. RowStep(p)
    BY <1>0, <1>1, <1>2, <1>3, <2>3, <2>4 DEF RowStep, IsOut, ProceedsTo, ControlTypeOK
  <2> QED BY <1>2, <2>5, RowStepIsMild, PlainStep
<1> QED BY <1>4, <1>5

\* The row stays with the lease it has.
LEMMA SameLeaseOK ==
    ASSUME ControlIInv, row' \in Row, row'.lease = row.lease, row'.bot = row.bot,
           row'.run = row.run, row'.expires = row.expires \/ row'.expires \in Nat,
           row'.holder \in {"none", row.holder}, row.lease # None \/ row' = row,
           granted' = granted, loose' = loose
    PROVE  /\ RowOK' /\ RowMoves /\ granted' \in 0 .. MaxLeases
           /\ loose' \subseteq ControlLease /\ loose \subseteq loose' /\ ForgetsNoStream
  BY DEF ControlIInv, ControlInv, ControlTypeOK, RowOK, RowMoves, ForgetsNoStream

LEMMA ExpiryClaimsKeeps ==
    ASSUME ControlIInv, NEW p \in Proc, ExpiryClaims(p)
    PROVE  ControlIInv'
<1>0. ControlTypeOK /\ run \in Runs /\ row \in Row /\ RowOK /\ ProcOK(p)
  BY AtHand
<1>1. UNCHANGED <<clock, stream, view, timer, requests, asks, faults, granted, run, leased, loose>>
  BY DEF ExpiryClaims, runs, screens, budget
<1>2. CASE row' = row /\ Returns(p)
  <2>1. IsOut(p) \/ ProceedsTo(p, "check")
    BY <1>0, <1>2, ReturnsMoves
  <2>2. RowStep(p)
    BY <1>0, <1>1, <1>2, <2>1, UntouchedOK DEF RowStep, IsOut, ProceedsTo, ControlTypeOK
  <2>3. "check" \in Plain
    BY DEF Plain, Stage
  <2> QED BY <2>1, <2>2, <2>3, RowStepIsMild, PlainStep
<1>3. CASE row' = Denied /\ Proceeds(p, "xclose") /\ row.lease = proc[p].lease
  <2>1. ProceedsTo(p, "xclose")
    BY <1>0, <1>3, ProceedsMoves DEF Stage
  <2>2. /\ row' \in Row /\ row'.lease = row.lease /\ row'.bot = row.bot
        /\ row'.run = row.run /\ row'.expires = row.expires /\ row'.holder = "none"
    BY <1>0, <1>3 DEF Denied, Row
  <2>3. /\ RowOK' /\ RowMoves /\ granted' \in 0 .. MaxLeases
        /\ loose' \subseteq ControlLease /\ loose \subseteq loose' /\ ForgetsNoStream
    BY <1>0, <1>1, <2>2
       DEF ControlTypeOK, RowOK, RowMoves, ForgetsNoStream
  <2>4. RowStep(p)
    BY <1>0, <1>1, <2>1, <2>2, <2>3 DEF RowStep, ProceedsTo, ControlTypeOK
  <2>5. ProcOK(p)'
    <3>1. proc[p].at = "xclaim"
      BY DEF ExpiryClaims
    <3> QED BY <1>0, <1>1, <2>1, <2>2, <3>1
            DEF ProcOK, ProceedsTo, WillClose, HasClosed, Issued, InRow
  <2> QED BY <2>4, <2>5, RowStepIsMild, MildKeeps DEF RowStep, OnlyMoves
<1> QED BY <1>2, <1>3 DEF ExpiryClaims, Claims

LEMMA ExtendsKeeps ==
    ASSUME ControlIInv, NEW p \in Proc, Extends(p)
    PROVE  ControlIInv'
<1>0. ControlTypeOK /\ run \in Runs /\ row \in Row /\ RowOK /\ ProcOK(p)
  BY AtHand
<1>1. UNCHANGED <<clock, stream, view, timer, requests, asks, faults, granted, run, leased, loose>>
  BY DEF Extends, runs, screens, budget
<1>2. \E stage \in Plain : ProceedsTo(p, stage)
  <2>1. {"rearm", "teach"} \subseteq Stage /\ {"rearm", "teach"} \subseteq Plain
    BY DEF Stage, Plain
  <2> QED BY <1>0, <2>1, ProceedsMoves DEF Extends
<1>3. proc[p].seen.expires \in Nat
  BY <1>0 DEF ProcOK, Extends
<1>4. \/ row' = row
      \/ row' = [row EXCEPT !.expires = proc[p].seen.expires] /\ row.holder = "user"
  BY DEF Extends
<1>5. row' \in Row /\ RowOK' /\ RowMoves
  BY <1>0, <1>1, <1>3, <1>4 DEF Row, RowOK, RowMoves
<1>6. row'.lease = row.lease
  BY <1>0, <1>4 DEF Row
<1>7. RowStep(p)
  BY <1>0, <1>1, <1>2, <1>5, <1>6 DEF RowStep, ForgetsNoStream, ProceedsTo, ControlTypeOK
<1> QED BY <1>2, <1>7, RowStepIsMild, PlainStep

\* A new lease: the process has it in hand.
LEMMA GrantedKeeps ==
    ASSUME ControlIInv, NEW p \in Proc, NEW forRun \in Bot \cup {None}, NEW until \in Nat,
           Granted(p, forRun, until),
           UNCHANGED <<clock, stream, view, timer, requests, asks, faults, run, leased>>,
           Loosens \/ (row.lease = None /\ loose' = loose)
    PROVE  ControlIInv'
<1>0. ControlTypeOK /\ run \in Runs /\ row \in Row /\ proc[p].bot \in Bot \cup {None}
      /\ granted \in Nat /\ granted <= MaxLeases
  BY AtHand, NoneIsNothing DEF ControlTypeOK, ProcLocals
<1> DEFINE c == [holder |-> "user", lease |-> granted + 1, expires |-> until,
                 bot |-> proc[p].bot, run |-> forRun]
<1>1. granted' = granted + 1 /\ granted + 1 \in ControlLease /\ granted' \in 0 .. MaxLeases
  BY <1>0, NoneIsNothing DEF Granted, ControlLease
<1>2. row' = c /\ c \in Row /\ c.lease = granted + 1 /\ c.expires = until
  BY <1>0, <1>1 DEF Granted, Row
<1>3. proc' = [proc EXCEPT ![p].at = "arm", ![p].lease = granted + 1, ![p].seen = c]
  BY DEF Granted
<1> HIDE DEF c
<1>4. SeesThen(p, "arm", granted + 1, c)
  BY <1>0, <1>1, <1>2, <1>3, RereadMoves DEF Stage
<1>5. loose' \subseteq ControlLease /\ loose \subseteq loose' /\ ForgetsNoStream
  BY <1>0, LoosensOK DEF ForgetsNoStream, InRow, ControlTypeOK
<1>6. RowOK' /\ RowMoves
  BY <1>1, <1>2, NoneIsNothing DEF RowOK, RowMoves
<1>7. RowStep(p)
  BY <1>0, <1>1, <1>2, <1>4, <1>5, <1>6 DEF RowStep, SeesThen, ControlTypeOK
<1>8. ProcOK(p)'
  BY <1>0, <1>1, <1>4, PlainOK DEF SeesThen, Issued, Plain, Stage
<1> QED BY <1>7, <1>8, RowStepIsMild, MildKeeps DEF RowStep, OnlyMoves

LEMMA GrantsKeep ==
    ASSUME ControlIInv, NEW p \in Proc, Grants(p) \/ TeachGrants(p)
    PROVE  ControlIInv'
<1>0. /\ clock \in Nat /\ proc[p].run \in Bot \cup {None} /\ row.run \in Bot \cup {None}
      /\ Ttl \in Nat /\ TeachTtl \in Nat
  BY AtHand, ControlAssumption DEF ProcLocals, Row
<1>1. UNCHANGED <<clock, stream, view, timer, requests, asks, faults, run, leased>>
  BY DEF Grants, TeachGrants, runs, screens, budget
<1>2. CASE Grants(p)
  <2>1. clock + Ttl \in Nat
    BY <1>0
  <2> QED BY <1>0, <1>1, <1>2, <2>1, GrantedKeeps DEF Grants, screens
<1>3. CASE TeachGrants(p)
  <2>1. TeachUntil \in Nat
    BY <1>0 DEF TeachUntil
  <2> QED BY <1>0, <1>1, <1>3, <2>1, GrantedKeeps DEF TeachGrants
<1> QED BY <1>2, <1>3

LEMMA RunAsksKeeps ==
    ASSUME ControlIInv, NEW b \in Bot, RunAsks(b)
    PROVE  ControlIInv'
<1>0. ControlTypeOK /\ row \in Row /\ RowOK
  BY DEF ControlIInv, ControlInv, ControlTypeOK
<1>1. UNCHANGED <<clock, granted, leased, timer, stream, view, proc, requests, faults>>
      /\ row' = Free /\ asks' = asks + 1 /\ Loosens
  BY DEF RunAsks
<1>2. run' \in Runs
  BY <1>0 DEF RunAsks, ControlTypeOK, Runs
<1>3. Empties
  BY <1>1, FreeIsRow DEF Empties, Free
<1>4. /\ RowOK' /\ RowMoves /\ row' \in Row
      /\ loose' \subseteq ControlLease /\ loose \subseteq loose' /\ ForgetsNoStream
  BY <1>0, <1>1, <1>3, EmptiesOK, LoosensOK
<1>5. ControlTypeOK'
  BY <1>0, <1>1, <1>2, <1>4 DEF ControlTypeOK, Runs
<1>6. Mild
  BY <1>0, <1>1, <1>4, <1>5, ControlAssumption
     DEF Mild, StreamsClose, SameView, TimersOK, ControlTypeOK
<1> QED BY <1>1, <1>6, MildKeeps

\* The one step that opens a stream: its lease is in the row with the bot of the stream, or
\* it is loose.
LEMMA ViewOpensKeeps ==
    ASSUME ControlIInv, ViewOpens
    PROVE  ControlIInv'
<1>0. ControlTypeOK /\ RowOK /\ LeasesOK /\ StreamIsRevocable
      /\ view.lease \in ControlLease
  BY DEF ControlIInv, ControlInv, ControlTypeOK, LeasesOK, ViewOpens
<1>1. UNCHANGED <<clock, row, granted, run, leased, timer, proc, requests, asks, faults>>
      /\ view' = NoView
  BY DEF ViewOpens, control, runs, budget
<1>2. /\ stream' \in [Bot -> ControlLease \cup {None}]
      /\ \A b \in Bot : stream'[b] = stream[b] \/ (b = view.bot /\ stream'[b] = view.lease)
  BY <1>0 DEF ViewOpens, ControlTypeOK
<1>3. /\ loose' \subseteq ControlLease /\ loose \subseteq loose'
      /\ row.lease # view.lease => view.lease \in loose'
      /\ \A p \in Proc : HasClosed(p) /\ proc[p].lease = view.lease => view.lease \in loose'
  <2>1. loose' = (IF \/ row.lease # view.lease
                     \/ \E p \in Proc : HasClosed(p) /\ proc[p].lease = view.lease
                  THEN loose \cup {view.lease} ELSE loose)
    BY DEF ViewOpens
  <2>2. loose \subseteq ControlLease
    BY <1>0 DEF ControlTypeOK
  <2> QED BY <1>0, <2>1, <2>2
<1>4. ControlTypeOK'
  <2>1. view' \in [bot : Bot \cup {None}, lease : ControlLease \cup {None}]
    BY <1>1 DEF NoView
  <2> QED BY <1>0, <1>1, <1>2, <1>3, <2>1 DEF ControlTypeOK
<1>5. StreamIsRevocable'
  BY <1>0, <1>1, <1>2, <1>3 DEF StreamIsRevocable
<1>6. RowOK' /\ LeasesOK'
  <2>1. ASSUME NEW b \in Bot
        PROVE  Issued(stream'[b]) /\ (InRow(stream'[b]) => b = row.bot)
    BY <1>0, <1>2 DEF LeasesOK, Issued, InRow
  <2> QED BY <1>0, <1>1, <2>1 DEF RowOK, LeasesOK, Issued, InRow, NoView
<1>7. ASSUME NEW p \in Proc PROVE ProcOK(p)'
  <2>1. ProcOK(p)
    BY DEF ControlIInv
  <2>2. ASSUME NEW b \in Bot, HasClosed(p), stream'[b] # None, stream'[b] = proc[p].lease
        PROVE  stream'[b] \in loose'
    BY <1>2, <1>3, <2>1, <2>2 DEF ProcOK
  <2> QED BY <1>1, <2>1, <2>2 DEF ProcOK, WillClose, HasClosed, Issued, InRow
<1> QED BY <1>4, <1>5, <1>6, <1>7 DEF ControlIInv, ControlInv

-----------------------------------------------------------------------------
(* The invariant.                                                           *)

LEMMA ControlInitOK == ControlInit => ControlIInv
<1> SUFFICES ASSUME ControlInit PROVE ControlIInv
  OBVIOUS
<1>1. ControlTypeOK
  BY OutIsLocal, FreeIsRow, ControlAssumption, NoneIsNothing
     DEF ControlInit, ControlTypeOK, NoView
<1>2. RowOK /\ LeasesOK /\ StreamIsRevocable
  BY DEF ControlInit, RowOK, LeasesOK, StreamIsRevocable, Free, NoView, Issued, InRow
<1>3. ASSUME NEW p \in Proc PROVE ProcOK(p)
  BY OutIsLocal DEF ControlInit, ProcOK, WillClose, HasClosed, Issued, InRow
<1> QED BY <1>1, <1>2, <1>3 DEF ControlIInv, ControlInv

LEMMA ControlStepsKeep ==
    ASSUME ControlIInv, [ControlNext]_controlVars
    PROVE  ControlIInv'
<1>1. CASE UNCHANGED controlVars
  BY <1>1 DEF controlVars, ControlIInv, ControlInv, ControlTypeOK, StreamIsRevocable, RowOK,
              LeasesOK, ProcOK, WillClose, HasClosed, Issued, InRow
<1>2. ASSUME NEW p \in Proc, Step(p) PROVE ControlIInv'
  BY <1>2, ReadsKeep, TimersKeep, ExpiryReadsKeeps, ClosesKeep, ClearsKeep, FinalizesKeep,
     ExpiryClaimsKeeps, ExtendsKeeps, GrantsKeep
     DEF Step
<1>3. ASSUME NEW p \in Proc, Requests(p) \/ ArmFails(p) \/ Fails(p) PROVE ControlIInv'
  BY <1>3, RequestsKeep, TimersKeep
<1>4. ASSUME NEW b \in Bot,
             ViewReads(b) \/ RunStarts(b) \/ RunAsks(b) \/ RunWaits(b) \/ RunEnds(b)
      PROVE  ControlIInv'
  BY <1>4, ViewReadsKeeps, RunAsksKeeps, WorldKeeps
<1>5. CASE Fires
  BY <1>5, FiresKeeps DEF Fires
<1>6. CASE Tick \/ Reconciles \/ ViewOpens
  BY <1>6, WorldKeeps, ReconcilesKeeps, ViewOpensKeeps
<1> QED BY <1>1, <1>2, <1>3, <1>4, <1>5, <1>6 DEF ControlNext

\* However takeovers, switches, releases, teaching sessions, expiry jobs, viewers and runs
\* interleave, whichever calls fail or are retried, the row, the leases in hand and the
\* streams fit together.
THEOREM ControlInvariant == ControlSpec => []ControlIInv
<1>1. ControlIInv /\ [ControlNext]_controlVars => ControlIInv'
  BY ControlStepsKeep
<1> QED BY <1>1, ControlInitOK, PTL DEF ControlSpec

\* A control stream that startScreenControl of the provider opened has the lease of the row
\* for its token, so that whoever ends that lease closes it, unless the lease was dropped
\* without a close (a takeover that could not be armed, a teaching takeover, a run's
\* request) or a viewer opened it after the close.
THEOREM StreamsAreRevocable == ControlSpec => []ControlInv
<1>1. ControlIInv => ControlInv
  BY DEF ControlIInv
<1> QED BY <1>1, ControlInvariant, PTL

-----------------------------------------------------------------------------
(* What the steps may never do.                                             *)

WritesRow(p) ==
    \/ SwitchClears(p) \/ Grants(p) \/ Reverts(p) \/ Extends(p) \/ TeachGrants(p)
    \/ ReleaseFinalizes(p) \/ ExpiryClaims(p) \/ ExpiryFinalizes(p)

LEMMA RowWriters ==
    ASSUME ControlNext, row' # row
    PROVE  (\E p \in Proc : WritesRow(p)) \/ (\E b \in Bot : RunAsks(b))
<1>1. ASSUME NEW p \in Proc, Step(p) PROVE WritesRow(p)
  BY <1>1 DEF Step, WritesRow, SwitchCloses, SwitchRereads, Checks, GrantMissed, Arms,
              TeachCancels, TeachRefused, ReleaseCloses, Cancels, ExpiryReads, ExpiryCloses,
              control
<1>2. ASSUME NEW p \in Proc, Requests(p) \/ ArmFails(p) \/ Fails(p) PROVE FALSE
  BY <1>2 DEF Requests, TakeoverReads, TeachReads, ReleaseReads, UnteachReads,
              StatusFindsStale, Asks, ArmFails, Fails, control
<1>3. ASSUME NEW b \in Bot, ViewReads(b) \/ RunStarts(b) \/ RunWaits(b) \/ RunEnds(b)
      PROVE  FALSE
  BY <1>3 DEF ViewReads, RunStarts, RunWaits, RunEnds, control
<1>4. ~ (Tick \/ Reconciles \/ Fires \/ ViewOpens)
  BY DEF Tick, Reconciles, Fires, TimerFires, ViewOpens, control
<1> QED BY <1>1, <1>2, <1>3, <1>4 DEF ControlNext

\* A writer of the row moves on, and nobody else does.
LEMMA WriterMoves ==
    ASSUME ControlIInv, NEW p \in Proc, WritesRow(p)
    PROVE  proc'[p] # proc[p] /\ \A q \in Proc : q # p => proc'[q] = proc[q]
<1>0. ControlTypeOK /\ proc \in [Proc -> ProcLocals]
      /\ {"reread", "rearm", "teach", "cancelled", "xclose", "check", "arm"} \subseteq Stage
  BY AtHand DEF ControlTypeOK, Stage
<1>1. CASE Grants(p) \/ TeachGrants(p)
  <2>1. PICK l, c : proc' = [proc EXCEPT ![p].at = "arm", ![p].lease = l, ![p].seen = c]
    BY <1>1 DEF Grants, TeachGrants, Granted
  <2>2. proc[p].at # "arm"
    BY <1>1 DEF Grants, TeachGrants
  <2>3. proc'[p].at = "arm" /\ \A q \in Proc : q # p => proc'[q] = proc[q]
    BY <1>0, <2>1 DEF ProcLocals
  <2> QED BY <2>2, <2>3
<1>2. CASE ~ (Grants(p) \/ TeachGrants(p))
  <2>1. proc[p].at \in {"unset", "revert", "extend", "final", "xclaim", "xfinal"}
    BY <1>2 DEF WritesRow, SwitchClears, Reverts, Extends, ReleaseFinalizes, ExpiryClaims,
                ExpiryFinalizes
  <2>2. \/ IsOut(p)
        \/ \E stage \in {"reread", "rearm", "teach", "cancelled", "xclose", "check"} :
               ProceedsTo(p, stage)
    BY <1>0, <1>2, ProceedsMoves, LeavesMoves
       DEF WritesRow, SwitchClears, Reverts, Extends, ReleaseFinalizes, ExpiryClaims,
           ExpiryFinalizes, Returns
  <2> QED BY <2>1, <2>2, OutIsLocal DEF IsOut, ProceedsTo, OnlyMoves
<1> QED BY <1>1, <1>2

\* No late takeover, release, finalization or expiry ends a control that the user still has
\* under another lease, and expireComputerControl has read that the one it ends was over.
THEOREM LateCallsEndNoControl == ControlSpec => LateCallsSpareControl
<1>1. ASSUME ControlIInv, [ControlNext]_controlVars, NEW p \in Proc,
             HasControl(row), row'.lease # row.lease \/ row'.holder # "user",
             proc'[p] # proc[p], proc[p].at # "teach"
      PROVE  row.lease = proc[p].lease
             /\ (proc[p].at = "xclaim" => proc[p].seen.expires <= clock)
  <2>1. row' # row /\ row.lease # None /\ row.holder = "user"
    BY <1>1 DEF HasControl
  <2>2. ControlNext
    BY <1>1, <2>1 DEF controlVars
  <2>3. WritesRow(p)
    <3>1. CASE \E b \in Bot : RunAsks(b)
      BY <1>1, <3>1 DEF RunAsks
    <3>2. CASE \E q \in Proc : WritesRow(q)
      BY <1>1, <3>2, WriterMoves
    <3> QED BY <2>1, <2>2, <3>1, <3>2, RowWriters
  <2>4. ProcOK(p) /\ row \in Row
    BY <1>1, AtHand
  <2>5. ~ Grants(p) /\ ~ TeachGrants(p)
    BY <1>1, <2>1 DEF Grants, TeachGrants
  <2>6. ~ Extends(p)
    BY <1>1, <2>1, <2>4 DEF Extends, Row
  <2>7. row.lease = proc[p].lease
    BY <2>1, <2>3, <2>5, <2>6
       DEF WritesRow, SwitchClears, Reverts, ReleaseFinalizes, ExpiryClaims, ExpiryFinalizes,
           Finalizes, Owns, Claims
  <2> QED BY <2>4, <2>7 DEF ProcOK
<1>2. ControlIInv /\ [ControlNext]_controlVars
      => [\A p \in Proc :
            HasControl(row) /\ (row'.lease # row.lease \/ row'.holder # "user")
              /\ proc'[p] # proc[p] /\ proc[p].at # "teach"
            => /\ row.lease = proc[p].lease
               /\ proc[p].at = "xclaim" => proc[p].seen.expires <= clock]_controlVars
  BY <1>1
<1> QED BY <1>2, ControlInvariant, PTL DEF ControlSpec, LateCallsSpareControl

\* setScreenControl(false, token) of a late process closes no stream but that of its lease.
THEOREM LateCallsCloseNoStream == ControlSpec => LateCallsSpareStream
<1>1. ASSUME ControlIInv, [ControlNext]_controlVars, NEW b \in Bot,
             stream[b] # None, stream'[b] = None
      PROVE  \E p \in Proc : proc[p].lease = stream[b] /\ proc'[p] # proc[p]
  <2>1. ControlNext
    BY <1>1 DEF controlVars
  <2>2. ControlTypeOK /\ stream \in [Bot -> ControlLease \cup {None}]
    BY <1>1 DEF ControlIInv, ControlInv, ControlTypeOK
  <2>3. ASSUME NEW p \in Proc, SwitchCloses(p) \/ ReleaseCloses(p) \/ ExpiryCloses(p)
        PROVE  proc[p].lease = stream[b] /\ proc'[p] # proc[p]
    <3>1. PICK c : Closes(c, proc[p].lease)
      BY <2>3 DEF SwitchCloses, ReleaseCloses, ExpiryCloses
    <3>2. stream[b] = proc[p].lease
      BY <1>1, <2>2, <3>1 DEF Closes
    <3>3. proc[p].at \in {"switch", "close", "xclose"}
      BY <2>3 DEF SwitchCloses, ReleaseCloses, ExpiryCloses
    <3>4. {"unset", "final", "precancel", "xfinal"} \subseteq Stage
      BY DEF Stage
    <3>5. \E stage \in {"unset", "final", "precancel", "xfinal"} : ProceedsTo(p, stage)
      BY <2>2, <2>3, <3>4, ProceedsMoves DEF SwitchCloses, ReleaseCloses, ExpiryCloses
    <3> QED BY <3>2, <3>3, <3>5 DEF ProceedsTo
  <2>4. ~ ViewOpens
    <3>1. SUFFICES ASSUME ViewOpens PROVE FALSE
      OBVIOUS
    <3>2. view.lease # None
      BY <1>1, <3>1 DEF ControlIInv, LeasesOK, ViewOpens
    <3> QED BY <1>1, <2>2, <3>1, <3>2 DEF ViewOpens
  <2>5. ASSUME NEW p \in Proc, Step(p)
        PROVE  SwitchCloses(p) \/ ReleaseCloses(p) \/ ExpiryCloses(p)
    BY <1>1, <2>5
       DEF Step, SwitchClears, SwitchRereads, Checks, Grants, GrantMissed, Arms, Reverts,
           TeachCancels, Extends, TeachGrants, TeachRefused, Cancels, ReleaseFinalizes,
           ExpiryReads, ExpiryClaims, ExpiryFinalizes, screens
  <2>6. ASSUME NEW p \in Proc, Requests(p) \/ ArmFails(p) \/ Fails(p) PROVE FALSE
    BY <1>1, <2>6 DEF Requests, TakeoverReads, TeachReads, ReleaseReads, UnteachReads,
                      StatusFindsStale, Asks, ArmFails, Fails, screens
  <2>7. ASSUME NEW a \in Bot,
               ViewReads(a) \/ RunStarts(a) \/ RunAsks(a) \/ RunWaits(a) \/ RunEnds(a)
        PROVE  FALSE
    BY <1>1, <2>7 DEF ViewReads, RunStarts, RunAsks, RunWaits, RunEnds, screens
  <2>8. ~ (Tick \/ Reconciles \/ Fires)
    BY <1>1 DEF Tick, Reconciles, Fires, TimerFires, screens
  <2> QED BY <2>1, <2>3, <2>4, <2>5, <2>6, <2>7, <2>8 DEF ControlNext
<1>2. ControlIInv /\ [ControlNext]_controlVars
      => [\A b \in Bot : stream[b] # None /\ stream'[b] = None
            => \E p \in Proc : proc[p].lease = stream[b] /\ proc'[p] # proc[p]]_controlVars
  BY <1>1
<1> QED BY <1>2, ControlInvariant, PTL DEF ControlSpec, LateCallsSpareStream

\* finalizeComputerControlRelease empties the columns that name a waiting run together with
\* the resumption of that run, however late or often it is called; what strands the run is
\* a switch, a takeover that could not be armed, a run's request, or another bot's session.
THEOREM ControlIsHandedBack == ControlSpec => HandedBack
<1>1. ASSUME ControlIInv, [ControlNext]_controlVars, NEW b \in Bot,
             row.run = b, run[b] = "waiting", row'.run # b, run'[b] = "waiting", row.bot = b
      PROVE  \/ asks' # asks
             \/ \E p \in Proc : proc[p].at \in {"unset", "revert"} /\ proc'[p] # proc[p]
  <2>1. row' # row
    BY <1>1
  <2>2. ControlNext
    BY <1>1, <2>1 DEF controlVars
  <2>3. RowOK /\ row \in Row /\ run \in Runs /\ asks \in Nat /\ b # None
    BY <1>1, NoneIsNothing DEF ControlIInv, ControlInv, ControlTypeOK, Runs
  <2>4. CASE \E a \in Bot : RunAsks(a)
    BY <2>3, <2>4 DEF RunAsks
  <2>5. ASSUME NEW p \in Proc, WritesRow(p)
        PROVE  proc[p].at \in {"unset", "revert"} /\ proc'[p] # proc[p]
    <3>1. proc'[p] # proc[p]
      BY <1>1, <2>5, WriterMoves
    <3>2. ~ Grants(p)
      BY <1>1, <2>3 DEF Grants, RowOK
    <3>3. ~ TeachGrants(p)
      BY <1>1 DEF TeachGrants, Granted
    <3>4. ~ Extends(p) /\ ~ ExpiryClaims(p)
      BY <1>1, <2>3 DEF Extends, ExpiryClaims, Denied, Row
    <3>5. ~ Finalizes(p)
      <4>1. SUFFICES ASSUME Finalizes(p) PROVE FALSE
        OBVIOUS
      <4>2. Owns(p) /\ proc[p].seen.run = b /\ proc[p].seen.bot = b
        BY <1>1, <2>1, <4>1 DEF Finalizes, Owns
      <4>3. Resumes(b)
        BY <4>1, <4>2 DEF Finalizes
      <4>4. run'[b] = "queued"
        BY <1>1, <2>3, <4>3 DEF Resumes, Runs
      <4> QED BY <1>1, <4>4
    <3> QED BY <2>5, <3>1, <3>2, <3>3, <3>4, <3>5
            DEF WritesRow, SwitchClears, Reverts, ReleaseFinalizes, ExpiryFinalizes
  <2> QED BY <2>1, <2>2, <2>4, <2>5, RowWriters
<1>2. ControlIInv /\ [ControlNext]_controlVars
      => [\A b \in Bot :
            row.run = b /\ run[b] = "waiting" /\ row'.run # b /\ run'[b] = "waiting"
            => \/ asks' # asks
               \/ row.bot # b
               \/ \E p \in Proc : proc[p].at \in {"unset", "revert"} /\ proc'[p] # proc[p]
         ]_controlVars
  BY <1>1
<1> QED BY <1>2, ControlInvariant, PTL DEF ControlSpec, HandedBack
=============================================================================
