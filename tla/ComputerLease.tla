---------------------------- MODULE ComputerLease ----------------------------
(***************************************************************************)
(* A Team Computer: one sandbox that the bots of a team share.             *)
(* computer-lifecycle.ts boots it for whoever needs it first and keeps one *)
(* execution lease per bot; computer-idle.ts puts it to sleep when nobody  *)
(* uses it; router.ts lets a user boot, stop or replace it.  They meet     *)
(* only in the rows of computers, computer_execution_leases and runs: the  *)
(* module asks whether the sandbox is ever taken from under a run.         *)
(*                                                                         *)
(* A call is a continueRun handler, a boot or a replacement; the sleep job *)
(* and the user's stop have processes of their own.  A step is one         *)
(* statement, or one call of the sandbox provider.                         *)
(***************************************************************************)
EXTENDS Naturals, TeamComputer

CONSTANTS
    Call,            \* processes that run handlers, boots and replacements
    Run,             \* runs of the team's bots
    BotOf,           \* the bot of a run
    MaxAsks,         \* bound: boots, replacements and stops a user asks for
    MaxTakeovers,    \* bound: takeovers the runs ask for
    MaxSleeps,       \* bound: sleep jobs that find the computer idle
    MaxLapses,       \* bound: leases that end while their holder is alive
    MaxCrashes,      \* bound: processes that die
    MaxFence,        \* bound: times a lease row changes hands
    NoLease          \* the bot has no row in computer_execution_leases

ASSUME ComputerAssumption ==
    /\ BotOf \in [Run -> Bot]
    /\ Call \cap Run = {}
    /\ Bot # {}
    /\ \A n \in {MaxAsks, MaxTakeovers, MaxSleeps, MaxLapses, MaxCrashes, MaxFence} : n \in Nat

VARIABLES
    computer,   \* the computers row: state, whether it has a providerRef, and whether
                \* updatedAt moved since the sleep job last read or wrote it
    sandbox,    \* the sandbox of the row's providerRef: "none", "up" or "down"
    lease,      \* the execution lease of each bot
    status,     \* the runs' status, as far as the computer's guards read it
    call,       \* the locals of every call
    sleeper,    \* the sleep job
    stopper,    \* the stop request
    spent       \* what of the bounds is used up; and, as history, how often a takeover
                \* request wrote running over another state: of a run that its handler
                \* still held (overwrites), or had lost (strays)

vars == <<computer, sandbox, lease, status, call, sleeper, stopper, spent>>

State   == {"stopped", "booting", "running", "suspending", "suspended", "error"}
\* resuming is queued with the checkpoint of a released takeover.
Status  == {"none", "queued", "resuming", "running", "waiting_takeover", "done"}
Active  == {"queued", "resuming", "running", "waiting_takeover"}
Ends    == {"live", "held", "over"}
Lease   == [run : Run \cup Call, fence : Nat \ {0}, ends : Ends]
Budgets == {"boots", "stops", "takeovers", "sleeps", "lapses", "crashes", "overwrites",
            "strays"}
Kind    == {"run", "boot", "replace"}
CallAt  == {"out", "reading", "acquiring", "validating",                    \* acquire
            "looking", "claiming", "emptying", "clearing",                  \* replace
            "entering", "awaiting", "booking", "booting", "activating",     \* provision
            "reconnecting", "undoing", "failing",
            "using", "asking", "pausing", "holding", "giving", "closing"}
Locals  == [kind : Kind, at : CallAt, bot : Bot, run : Run \cup Call, fence : Nat,
            holds : BOOLEAN, resume : BOOLEAN, prev : State, fresh : BOOLEAN]

\* What the locals of a call that is not under way are left at.
AnyBot == CHOOSE b \in Bot : TRUE

Idle(c) == [kind |-> "run", at |-> "out", bot |-> AnyBot, run |-> c, fence |-> 0,
            holds |-> FALSE, resume |-> FALSE, prev |-> "stopped", fresh |-> FALSE]

ComputerTypeOK ==
    /\ computer \in [state : State, ref : BOOLEAN, moved : BOOLEAN]
    /\ sandbox \in {"none", "up", "down"}
    /\ lease \in [Bot -> Lease \cup {NoLease}]
    /\ status \in [Run -> Status]
    /\ call \in [Call -> Locals]
    /\ sleeper \in [at : {"out", "looking", "saving", "checking", "stopping", "recording"},
                   control : BOOLEAN]
    /\ stopper \in [at : {"out", "claiming", "checking", "deleting", "stopping", "recording"},
                    bot : Bot, prev : State, ref : BOOLEAN]
    /\ spent \in [Budgets -> Nat]

NotAsleep == [at |-> "out", control |-> FALSE]

NoStop == [at |-> "out", bot |-> AnyBot, prev |-> "stopped", ref |-> FALSE]

Init ==
    /\ \/ computer = [state |-> "stopped", ref |-> FALSE, moved |-> TRUE] /\ sandbox = "none"
       \/ computer = [state |-> "suspended", ref |-> TRUE, moved |-> TRUE] /\ sandbox = "down"
    /\ lease = [b \in Bot |-> NoLease]
    /\ status = [r \in Run |-> "none"]
    /\ call = [c \in Call |-> Idle(c)]
    /\ stopper = NoStop
    /\ sleeper = NotAsleep
    /\ spent = [n \in Budgets |-> 0]

-----------------------------------------------------------------------------
(* The rows.                                                                *)

\* Every write of the computers row moves its updatedAt.
Becomes(s)   == computer' = [computer EXCEPT !.state = s, !.moved = TRUE]

\* A slip of the undo: the row is left as it is.
LeftAsIs(s) == UNCHANGED computer

BecomesIf(s) == IF computer.state = "suspending" THEN Becomes(s) ELSE UNCHANGED computer

Current(b) == lease[b] # NoLease /\ lease[b].ends # "over"

\* The where clause of renew, hold and release.
HasRow(c) ==
    LET l == lease[call[c].bot]
    IN  l # NoLease /\ l.run = call[c].run /\ l.fence = call[c].fence

ActiveRun(S) == \E r \in Run : status[r] \in S

\* The where clause of every write of a run by its handler: running, under its fence.
HoldsRun(c) == call[c].holds /\ status[call[c].run] = "running"

Goes(c, stage) ==
    call' = [call EXCEPT ![c] = IF stage = "out" THEN Idle(c) ELSE [@ EXCEPT !.at = stage]]

Spend(n, max) == spent[n] < max /\ spent' = [spent EXCEPT ![n] = @ + 1]

\* The user asks for a boot or a replacement, or for a stop.
Ask(n) == spent["boots"] + spent["stops"] < MaxAsks /\ Spend(n, MaxAsks)

\* A handler of a run that has to wait for the computer puts the run back in the queue,
\* with the checkpoint it read when it leased the run.
Requeued(c) ==
    IF HoldsRun(c)
      THEN [status EXCEPT ![call[c].run] = IF call[c].resume THEN "resuming" ELSE "queued"]
      ELSE status

-----------------------------------------------------------------------------
(* acquireComputerExecutionLease.                                           *)

\* continueRun leases a run that is queued, that waits (a job of before the pause), or
\* whose lease ran out: its handler is gone or has stalled.
StartRun(c, r) ==
    LET held == \E d \in Call : call[d].run = r /\ HoldsRun(d)
    IN  /\ call[c].at = "out"
        /\ status[r] \in Active
        /\ IF status[r] = "running" /\ held THEN Spend("lapses", MaxLapses) ELSE UNCHANGED spent
        /\ status' = [status EXCEPT ![r] = "running"]
        /\ call' = [d \in Call |->
               IF d = c THEN [Idle(c) EXCEPT !.at = "reading", !.bot = BotOf[r], !.run = r,
                                 !.holds = TRUE,
                                 !.resume = status[r] \in {"resuming", "waiting_takeover"}]
               ELSE [call[d] EXCEPT !.holds = @ /\ call[d].run # r]]
        /\ UNCHANGED <<computer, sandbox, lease, sleeper, stopper>>

\* A user boots or replaces the computer; the lease is taken under an id of its own.
Manual(c, b, kind) ==
    /\ call[c].at = "out"
    /\ kind = "boot" => ~(computer.state = "running" /\ computer.ref)
    /\ Ask("boots")
    /\ call' = [call EXCEPT ![c] = [@ EXCEPT !.kind = kind, !.at = "reading", !.bot = b]]
    /\ UNCHANGED <<computer, sandbox, lease, status, sleeper, stopper>>

\* Busy: the run is queued again and what was taken is given back.
Busy(c) ==
    /\ status' = Requeued(c)
    /\ Goes(c, "closing")

ReadState(c) ==
    /\ call[c].at = "reading"
    /\ IF computer.state = "suspending" THEN Busy(c)
       ELSE Goes(c, "acquiring") /\ UNCHANGED status
    /\ UNCHANGED <<computer, sandbox, lease, sleeper, stopper, spent>>

\* The row is reclaimed when it ran out, or when the run it was held for resumes.
Reclaimable(c) ==
    LET l == lease[call[c].bot]
    IN  l # NoLease /\ (l.ends = "over" \/ (call[c].resume /\ l.run = call[c].run))

\* The fence of a new row, and a slip of it.
FromZero   == 0
FirstFence == 1

Acquire(c) ==
    LET b == call[c].bot
        Takes(fence) ==
            /\ fence <= MaxFence
            /\ lease' = [lease EXCEPT ![b] =
                             [run |-> call[c].run, fence |-> fence, ends |-> "live"]]
            /\ call' = [call EXCEPT ![c].at = "validating", ![c].fence = fence]
            /\ UNCHANGED status
    IN  /\ call[c].at = "acquiring"
        /\ \/ Reclaimable(c) /\ Takes(lease[b].fence + 1)
           \/ lease[b] = NoLease /\ Takes(FirstFence)
           \/ lease[b] # NoLease /\ ~Reclaimable(c) /\ Busy(c) /\ UNCHANGED lease
        /\ UNCHANGED <<computer, sandbox, sleeper, stopper, spent>>

\* validateAcquiredComputerLease: the sleep job may have claimed the computer between
\* the read of its state and the lease.
Validate(c) ==
    /\ call[c].at = "validating"
    /\ IF computer.state = "suspending" THEN Busy(c)
       ELSE /\ Goes(c, IF call[c].kind = "replace" THEN "looking" ELSE "entering")
            /\ UNCHANGED status
    /\ UNCHANGED <<computer, sandbox, lease, sleeper, stopper, spent>>

\* releaseComputerExecutionLease, in the finally of every holder.
Close(c) ==
    /\ call[c].at = "closing"
    /\ lease' = IF HasRow(c) THEN [lease EXCEPT ![call[c].bot] = NoLease] ELSE lease
    /\ Goes(c, "out")
    /\ UNCHANGED <<computer, sandbox, status, sleeper, stopper, spent>>

-----------------------------------------------------------------------------
(* provisionComputer.                                                       *)

Enter(c) ==
    /\ call[c].at = "entering"
    /\ call' = [call EXCEPT
           ![c].fresh = ~computer.ref,
           ![c].at = CASE computer.state = "running" /\ computer.ref   -> "reconnecting"
                       [] computer.state \in {"booting", "suspending"} -> "awaiting"
                       [] OTHER                                        -> "booking"]
    /\ UNCHANGED <<computer, sandbox, lease, status, sleeper, stopper, spent>>

\* waitForComputerReady; it gives up after ten seconds.
Await(c) ==
    /\ call[c].at = "awaiting"
    /\ call' = [call EXCEPT
           ![c].fresh = ~computer.ref,
           ![c].at = IF computer.state = "running" /\ computer.ref THEN "reconnecting"
                     ELSE "booking"]
    /\ UNCHANGED <<computer, sandbox, lease, status, sleeper, stopper, spent>>

\* The row takes the error of a boot only while it still says booting.
BootFails(c) ==
    /\ IF computer.state = "booting" THEN Becomes("error") ELSE UNCHANGED computer
    /\ Busy(c)

Book(c) ==
    /\ call[c].at = "booking"
    /\ IF computer.state \in {"stopped", "suspended", "error"}
         THEN Becomes("booting") /\ Goes(c, "booting") /\ UNCHANGED status
         ELSE Busy(c) /\ UNCHANGED computer
    /\ UNCHANGED <<sandbox, lease, sleeper, stopper, spent>>

\* sandbox.provision and prepare: the sandbox of the providerRef the call has read, or a
\* new one of its own.
Boot(c) ==
    /\ call[c].at = "booting"
    /\ \/ /\ sandbox' = IF call[c].fresh \/ sandbox = "none" THEN sandbox ELSE "up"
          /\ call' = [call EXCEPT ![c].at = "activating", ![c].fresh = @ \/ sandbox = "none"]
          /\ UNCHANGED <<computer, status>>
       \/ BootFails(c) /\ UNCHANGED sandbox
    /\ UNCHANGED <<lease, sleeper, stopper, spent>>

Activate(c) ==
    /\ call[c].at = "activating"
    /\ IF computer.state = "booting"
         THEN /\ computer' = [state |-> "running", ref |-> TRUE, moved |-> TRUE]
              /\ sandbox' = IF call[c].fresh THEN "up" ELSE sandbox
              /\ Goes(c, IF call[c].kind = "run" THEN "using" ELSE "closing")
         ELSE Goes(c, "undoing") /\ UNCHANGED <<computer, sandbox>>
    /\ UNCHANGED <<lease, status, sleeper, stopper, spent>>

\* rollbackProvisionedComputer destroys a sandbox of the call's own and stops another.
Undo(c) ==
    /\ call[c].at = "undoing"
    /\ sandbox' = IF call[c].fresh \/ sandbox = "none" THEN sandbox ELSE "down"
    /\ BootFails(c)
    /\ UNCHANGED <<lease, sleeper, stopper, spent>>

\* reconnectComputer resumes the sandbox it knows; a failure queues the run again.
Reconnect(c) ==
    /\ call[c].at = "reconnecting"
    /\ \/ /\ sandbox' = "up"
          /\ Goes(c, IF call[c].kind = "run" THEN "using" ELSE "closing")
          /\ UNCHANGED status
       \/ Busy(c) /\ UNCHANGED sandbox
    /\ UNCHANGED <<computer, lease, sleeper, stopper, spent>>

-----------------------------------------------------------------------------
(* A run that uses the computer.                                            *)

\* finalizeRun, or a pause for input: the lease is given back either way.
Finish(c) ==
    /\ call[c].at = "using"
    /\ status' = IF HoldsRun(c) THEN [status EXCEPT ![call[c].run] = "done"] ELSE status
    /\ Goes(c, "closing")
    /\ UNCHANGED <<computer, sandbox, lease, sleeper, stopper, spent>>

\* A takeover request renews the lease of its run, and publishes what the bot has said.
AskTakeover(c) ==
    /\ call[c].at = "using" /\ HoldsRun(c)
    /\ Spend("takeovers", MaxTakeovers)
    /\ Goes(c, "asking")
    /\ UNCHANGED <<computer, sandbox, lease, status, sleeper, stopper>>

\* Then the row is written to running, whatever it says and whoever has the run by now.
WriteRunning(c) ==
    /\ call[c].at = "asking"
    /\ Becomes("running")
    /\ spent' = IF computer.state = "running" THEN spent
                ELSE [spent EXCEPT ![IF HoldsRun(c) THEN "overwrites" ELSE "strays"] = @ + 1]
    /\ Goes(c, "holding")
    /\ UNCHANGED <<sandbox, lease, status, sleeper, stopper>>

\* holdComputerExecutionLeaseForTakeover; a lost lease fails the run.
Hold(c) ==
    /\ call[c].at = "holding"
    /\ IF HasRow(c)
         THEN /\ lease' = [lease EXCEPT ![call[c].bot].ends = "held"]
              /\ Goes(c, "pausing") /\ UNCHANGED status
         ELSE /\ status' = IF HoldsRun(c) THEN [status EXCEPT ![call[c].run] = "done"]
                           ELSE status
              /\ Goes(c, "closing") /\ UNCHANGED lease
    /\ UNCHANGED <<computer, sandbox, sleeper, stopper, spent>>

\* pauseRunForTakeover; the lease is kept only if the run was paused.
Pause(c) ==
    /\ call[c].at = "pausing"
    /\ IF HoldsRun(c)
         THEN status' = [status EXCEPT ![call[c].run] = "waiting_takeover"] /\ Goes(c, "out")
         ELSE Goes(c, "closing") /\ UNCHANGED status
    /\ UNCHANGED <<computer, sandbox, lease, sleeper, stopper, spent>>

-----------------------------------------------------------------------------
(* replaceComputer.                                                         *)

Look(c) ==
    /\ call[c].at = "looking"
    /\ IF computer.state \in {"booting", "suspending"} THEN Busy(c)
       ELSE /\ call' = [call EXCEPT ![c].at = "claiming", ![c].prev = computer.state,
                                 ![c].fresh = ~computer.ref]
            /\ UNCHANGED status
    /\ UNCHANGED <<computer, sandbox, lease, sleeper, stopper, spent>>

ClaimReplace(c) ==
    /\ call[c].at = "claiming"
    /\ IF /\ computer.state = call[c].prev
          /\ \A b \in Bot \ {call[c].bot} : ~Current(b)
         THEN Becomes("suspending") /\ Goes(c, "emptying") /\ UNCHANGED status
         ELSE Busy(c) /\ UNCHANGED computer
    /\ UNCHANGED <<sandbox, lease, sleeper, stopper, spent>>

\* A slip of the second look: only the runs that hold a lease are looked for.
RunningOnly == {"waiting_takeover"}

BlocksReplace == Active

\* A run may have started since the claim: the state goes back to what it was.
CheckRuns(c) ==
    /\ call[c].at = "emptying"
    /\ IF ActiveRun(BlocksReplace)
         THEN BecomesIf(call[c].prev) /\ Busy(c)
         ELSE Goes(c, "clearing") /\ UNCHANGED <<computer, status>>
    /\ UNCHANGED <<sandbox, lease, sleeper, stopper, spent>>

\* The old sandbox is destroyed and the row forgets it; then it boots a new one.  A
\* provider that fails is put up with only by a recovery.
Destroy(c) ==
    /\ call[c].at = "clearing"
    /\ \/ Goes(c, "giving") /\ sandbox' = IF call[c].fresh THEN sandbox ELSE "none"
       \/ Goes(c, "giving") /\ ~call[c].fresh /\ UNCHANGED sandbox
       \/ Goes(c, "failing") /\ ~call[c].fresh /\ UNCHANGED sandbox
    /\ UNCHANGED <<computer, lease, status, sleeper, stopper, spent>>

ForgetRef(c) ==
    /\ call[c].at = "giving"
    /\ computer' = [state |-> "stopped", ref |-> FALSE, moved |-> TRUE]
    /\ sandbox' = "none"
    /\ Goes(c, "entering")
    /\ UNCHANGED <<lease, status, sleeper, stopper, spent>>

FailReplace(c) ==
    /\ call[c].at = "failing"
    /\ Becomes("error")
    /\ Goes(c, "closing")
    /\ UNCHANGED <<sandbox, lease, status, sleeper, stopper, spent>>

-----------------------------------------------------------------------------
(* sleepComputerIfIdle.                                                     *)

SleepReads ==
    /\ sleeper.at = "out"
    /\ computer.state = "running" /\ computer.ref
    /\ Spend("sleeps", MaxSleeps)
    /\ computer' = [computer EXCEPT !.moved = FALSE]
    /\ \E control \in BOOLEAN : sleeper' = [at |-> "looking", control |-> control]
    /\ UNCHANGED <<sandbox, lease, status, call, stopper>>

SleeperGoes(stage) ==
    sleeper' = IF stage = "out" THEN NotAsleep ELSE [sleeper EXCEPT !.at = stage]

\* A slip of the query: the runs that run are left to their leases.
QueuedOnly == {"queued", "resuming"}

\* A run that waits for a takeover nobody took does not keep the computer awake.
KeepsAwake == IF sleeper.control THEN Active ELSE Active \ {"waiting_takeover"}

SleepLooks ==
    /\ sleeper.at = "looking"
    /\ SleeperGoes(IF ActiveRun(KeepsAwake) THEN "out" ELSE "saving")
    /\ UNCHANGED <<computer, sandbox, lease, status, call, stopper, spent>>

StillIdle ==
    /\ computer.state = "running" /\ computer.ref /\ ~computer.moved
    /\ \A b \in Bot : ~Current(b)

SleepClaims ==
    /\ sleeper.at = "saving"
    /\ IF StillIdle
         THEN computer' = [computer EXCEPT !.state = "suspending"] /\ SleeperGoes("checking")
         ELSE SleeperGoes("out") /\ UNCHANGED computer
    /\ UNCHANGED <<sandbox, lease, status, call, stopper, spent>>

SleepChecks ==
    /\ sleeper.at = "checking"
    /\ IF ActiveRun(KeepsAwake) \/ computer.state # "suspending" \/ computer.moved
         THEN BecomesIf("running") /\ SleeperGoes("out")
         ELSE SleeperGoes("stopping") /\ UNCHANGED computer
    /\ UNCHANGED <<sandbox, lease, status, call, stopper, spent>>

\* sandbox.stop, which may fail.
SleepStops ==
    /\ sleeper.at = "stopping"
    /\ \/ sandbox' = "down" /\ SleeperGoes("recording") /\ UNCHANGED computer
       \/ BecomesIf("running") /\ SleeperGoes("out") /\ UNCHANGED sandbox
    /\ UNCHANGED <<lease, status, call, stopper, spent>>

SleepRecords ==
    /\ sleeper.at = "recording"
    /\ Becomes("suspended")
    /\ SleeperGoes("out")
    /\ UNCHANGED <<sandbox, lease, status, call, stopper, spent>>

-----------------------------------------------------------------------------
(* The user stops the computer.                                             *)

StopReads(b) ==
    /\ stopper.at = "out"
    /\ Ask("stops")
    /\ stopper' = [at |-> "claiming", bot |-> b, prev |-> computer.state,
                   ref |-> computer.ref]
    /\ UNCHANGED <<computer, sandbox, lease, status, call, sleeper>>

StopClaims ==
    /\ stopper.at = "claiming"
    /\ IF computer.state # "suspending" /\ \A b \in Bot \ {stopper.bot} : ~Current(b)
         THEN Becomes("suspending") /\ stopper' = [stopper EXCEPT !.at = "checking"]
         ELSE stopper' = NoStop /\ UNCHANGED computer
    /\ UNCHANGED <<sandbox, lease, status, call, sleeper, spent>>

\* A slip of the second look: a run that has started is left to its lease.
OtherQueued == \E r \in Run : BotOf[r] # stopper.bot /\ status[r] \in QueuedOnly

OtherRun == \E r \in Run : BotOf[r] # stopper.bot /\ status[r] \in Active

\* The state goes back to what it was when the request was read.
StopChecks ==
    /\ stopper.at = "checking"
    /\ IF OtherRun
         THEN BecomesIf(stopper.prev) /\ stopper' = NoStop
         ELSE stopper' = [stopper EXCEPT !.at = "deleting"] /\ UNCHANGED computer
    /\ UNCHANGED <<sandbox, lease, status, call, sleeper, spent>>

StopDeletesLease ==
    /\ stopper.at = "deleting"
    /\ lease' = [lease EXCEPT ![stopper.bot] = NoLease]
    /\ stopper' = [stopper EXCEPT !.at = "stopping"]
    /\ UNCHANGED <<computer, sandbox, status, call, sleeper, spent>>

StopStops ==
    /\ stopper.at = "stopping"
    /\ \/ /\ sandbox' = IF stopper.ref /\ sandbox = "up" THEN "down" ELSE sandbox
          /\ stopper' = [stopper EXCEPT !.at = "recording"]
          /\ UNCHANGED computer
       \/ /\ BecomesIf("error")
          /\ stopper' = NoStop
          /\ UNCHANGED sandbox
    /\ UNCHANGED <<lease, status, call, sleeper, spent>>

StopRecords ==
    /\ stopper.at = "recording"
    /\ Becomes("stopped")
    /\ stopper' = NoStop
    /\ UNCHANGED <<sandbox, lease, status, call, sleeper, spent>>

-----------------------------------------------------------------------------
(* The rest of the world.                                                   *)

SendMessage(r) ==
    /\ status[r] = "none"
    /\ status' = [status EXCEPT ![r] = "queued"]
    /\ UNCHANGED <<computer, sandbox, lease, call, sleeper, stopper, spent>>

ReleaseTakeover(r) ==
    /\ status[r] = "waiting_takeover"
    /\ status' = [status EXCEPT ![r] = "resuming"]
    /\ UNCHANGED <<computer, sandbox, lease, call, sleeper, stopper, spent>>

\* Time runs out on a lease nobody renews: five minutes for one whose holder died, a
\* day for one that was held for a takeover.
Renewed(b) == \E c \in Call : call[c].at # "out" /\ call[c].bot = b /\ HasRow(c)

LeaseEnds(b) ==
    /\ lease[b] # NoLease
    /\ lease[b].ends = "live" => ~Renewed(b)
    /\ lease[b].ends # "over"
    /\ lease' = [lease EXCEPT ![b].ends = "over"]
    /\ UNCHANGED <<computer, sandbox, status, call, sleeper, stopper, spent>>

\* The heartbeat of a handler renews its lease, one that ran out too.
Heartbeat(c) ==
    /\ call[c].at # "out" /\ call[c].kind = "run"
    /\ HasRow(c) /\ lease[call[c].bot].ends # "live"
    /\ lease' = [lease EXCEPT ![call[c].bot].ends = "live"]
    /\ UNCHANGED <<computer, sandbox, status, call, sleeper, stopper, spent>>

\* The heartbeat of a living holder is late.
LeaseLapses(b) ==
    /\ lease[b] # NoLease /\ lease[b].ends = "live" /\ Renewed(b)
    /\ Spend("lapses", MaxLapses)
    /\ lease' = [lease EXCEPT ![b].ends = "over"]
    /\ UNCHANGED <<computer, sandbox, status, call, sleeper, stopper>>

\* A process dies; what it wrote stays.
Crash(c) ==
    /\ call[c].at # "out"
    /\ Spend("crashes", MaxCrashes)
    /\ Goes(c, "out")
    /\ UNCHANGED <<computer, sandbox, lease, status, sleeper, stopper>>

CrashSleeper ==
    /\ sleeper.at # "out"
    /\ Spend("crashes", MaxCrashes)
    /\ SleeperGoes("out")
    /\ UNCHANGED <<computer, sandbox, lease, status, call, stopper>>

-----------------------------------------------------------------------------

CallStep(c) ==
    \/ ReadState(c) \/ Acquire(c) \/ Validate(c) \/ Close(c)
    \/ Enter(c) \/ Await(c) \/ Book(c) \/ Boot(c) \/ Activate(c) \/ Undo(c) \/ Reconnect(c)
    \/ Finish(c) \/ AskTakeover(c) \/ WriteRunning(c) \/ Hold(c) \/ Pause(c)
    \/ Look(c) \/ ClaimReplace(c) \/ CheckRuns(c) \/ Destroy(c) \/ ForgetRef(c)
    \/ FailReplace(c)

SleepStep == SleepLooks \/ SleepClaims \/ SleepChecks \/ SleepStops \/ SleepRecords

StopStep == StopClaims \/ StopChecks \/ StopDeletesLease \/ StopStops \/ StopRecords

Outside ==
    \/ \E r \in Run : SendMessage(r) \/ ReleaseTakeover(r)
    \/ \E b \in Bot : LeaseEnds(b) \/ LeaseLapses(b) \/ StopReads(b)
    \/ \E c \in Call : Crash(c) \/ Heartbeat(c) \/ \E b \in Bot, kind \in {"boot", "replace"} : Manual(c, b, kind)
    \/ SleepReads \/ CrashSleeper

Next ==
    \/ \E c \in Call : CallStep(c) \/ \E r \in Run : StartRun(c, r)
    \/ SleepStep \/ StopStep \/ Outside

Spec == Init /\ [][Next]_vars

-----------------------------------------------------------------------------
(* Properties.                                                              *)

\* A user's stop claims the computer in any state but one, and puts back a state it read
\* before: what holds without it is said of the behaviours without it.
NoStopAsked == spent["stops"] = 0

\* No takeover request undid the claim of a sleep job, of a replacement or of a stop:
\* it writes running over it, and the last two do not look again.
NothingOverwritten == spent["overwrites"] = 0 /\ spent["strays"] = 0

\* A run that is at work on the computer and has not been taken by another handler.
Works(c) == call[c].at \in {"using", "asking"} /\ HoldsRun(c)

\* The sandbox is up under every run that uses it, even one whose lease of the computer
\* has lapsed: no sleep job, no replacement and no boot that failed takes it away.
UpUnderRun == \A c \in Call : Works(c) => sandbox = "up"

\* The same beside a user who boots or replaces the computer, unless a takeover request
\* has undone a claim.  The sleep job notices that by itself, if the run was still held.
UpBesideReplace ==
    /\ NoStopAsked
    /\ NothingOverwritten \/ (spent["boots"] = 0 /\ spent["strays"] = 0)
    => UpUnderRun

\* A stop that was not refused takes the sandbox from no run of another bot.
StopSparesOthers ==
    NothingOverwritten /\ stopper.at \in {"deleting", "stopping", "recording"} =>
        \A c \in Call : Works(c) => call[c].bot = stopper.bot

\* A computer that is booting or suspending has a process that will end that state, if
\* none died: no other step of a run, of a boot or of the sleep job ever would.
TransientHasOwner ==
    NoStopAsked /\ spent["crashes"] = 0 =>
        /\ computer.state = "booting" =>
               \E c \in Call : call[c].at \in {"booting", "activating"}
        /\ computer.state = "suspending" =>
               \/ sleeper.at \in {"checking", "stopping", "recording"}
               \/ \E c \in Call : call[c].at \in {"emptying", "clearing", "giving", "failing"}

\* The rows, calls and jobs have their types, and no transient state is left alone.
ComputerInv == ComputerTypeOK /\ TransientHasOwner

=============================================================================
