--------------------------- MODULE ComputerControl ---------------------------
(***************************************************************************)
(* A user's control of the screen of a bot on a Team Computer: the control *)
(* columns of the computers row, the requests that take, extend and        *)
(* release it, the timer of every lease, the runs that wait for it, and    *)
(* the control streams that the provider opens on the bots' screens.       *)
(* The computer itself stays up: ComputerLease is about that.              *)
(*                                                                         *)
(* A process is a request or a computer.control-expire job; its step is a  *)
(* statement or a call of the provider.  Every bot has one run.            *)
(***************************************************************************)
EXTENDS Integers, TeamComputer

CONSTANTS
  Proc,         \* processes that run requests and expiry jobs
  Extra,        \* bots whose screen is an extra display, not the primary one
  Runner,       \* bots that have a run
  MaxLeases,    \* bound: control leases granted
  None,         \* null
  Ttl,          \* takeoverLeaseMs()
  TeachTtl,     \* teachRecordingTtlMs()
  Horizon,      \* bound: the clock stops here
  MaxRequests,  \* bound: requests of users
  MaxRunAsks,   \* bound: request_takeover calls of runs
  MaxFaults     \* bound: crashes, failed provider calls, failed enqueues

ASSUME ControlAssumption ==
  /\ Extra \subseteq Bot /\ Runner \subseteq Bot
  /\ None \notin Bot \cup Nat
  /\ Ttl \in Nat \ {0} /\ TeachTtl \in Nat \ {0}
  /\ \A n \in {MaxLeases, Horizon, MaxRequests, MaxRunAsks, MaxFaults} : n \in Nat

VARIABLES
  clock,
  row,      \* controlHolder, controlLeaseId, ...ExpiresAt, controlBotId, controlRunId
  granted,  \* leases granted so far; their ids are 1 .. granted
  run,      \* status of each bot's run, as far as control is concerned
  leased,   \* bots that have a row in computer_execution_leases
  timer,    \* runAt of the expiry job of each lease
  stream,   \* token of the control stream that is open on each bot's screen
  view,     \* the bot and the lease that a screenUrl request read and has not used yet
  proc,     \* the locals of each process
  loose,    \* history: leases dropped, or viewed, with nobody left to close their stream
  requests, asks, faults

controlVars == <<clock, row, granted, run, leased, timer, stream, view, proc, loose,
                 requests, asks, faults>>
control == <<row, granted>>
runs == <<run, leased>>
screens == <<stream, view, loose>>
budget == <<requests, asks, faults>>

ControlLease == 1 .. MaxLeases
Row == [holder : {"none", "user", "bot"}, lease : ControlLease \cup {None},
        expires : Nat \cup {None}, bot : Bot \cup {None}, run : Bot \cup {None}]
Free == [holder |-> "none", lease |-> None, expires |-> None, bot |-> None, run |-> None]
Out == [kind |-> "none", at |-> "out", bot |-> None, lease |-> None, run |-> None,
        seen |-> Free]
Stage == {"out", "check", "grant", "arm", "rearm", "revert",         \* takeover
          "switch", "unset", "reread",                               \* of another screen
          "cancel", "extend", "teach",                               \* teaching
          "close", "precancel", "final", "cancelled",                \* release
          "xread", "xclaim", "xclose", "xfinal"}                     \* expiry
ProcLocals == [kind : {"none", "takeover", "teach", "release", "unteach", "status", "expire"},
               at : Stage, bot : Bot \cup {None}, lease : ControlLease \cup {None},
               run : Bot \cup {None}, seen : Row]
NoView == [bot |-> None, lease |-> None]
HasControl(c) == c.holder = "user" /\ c.lease # None /\ c.expires > clock

ControlInit ==
  /\ clock = 0
  /\ row = Free
  /\ granted = 0
  /\ run = [b \in Bot |-> "idle"]
  /\ leased = {}
  /\ timer = [l \in ControlLease |-> None]
  /\ stream = [b \in Bot |-> None]
  /\ view = NoView
  /\ proc = [p \in Proc |-> Out]
  /\ loose = {}
  /\ requests = 0 /\ asks = 0 /\ faults = 0

-----------------------------------------------------------------------------
(* Steps of a process.                                                     *)

Proceeds(p, stage) == proc' = [proc EXCEPT ![p].at = stage]
Leaves(p) == proc' = [proc EXCEPT ![p] = Out]
Fault == faults < MaxFaults /\ faults' = faults + 1 /\ UNCHANGED <<requests, asks>>

\* scheduleComputerControlExpiry: the job of a lease has one key.
Schedules(l, t) == timer' = [timer EXCEPT ![l] = t]

\* Nobody else will close the stream of the lease that leaves the row.
Loosens == loose' = IF row.lease = None THEN loose ELSE loose \cup {row.lease}

\* The user asks: what every request starts with is a read of the row.
Asks(p, kind, b, stage) ==
  /\ proc[p].at = "out"
  /\ requests < MaxRequests /\ requests' = requests + 1 /\ UNCHANGED <<asks, faults>>
  /\ proc' = [proc EXCEPT ![p] = [kind |-> kind, at |-> stage, bot |-> b,
                                  lease |-> row.lease, run |-> None, seen |-> row]]
  /\ UNCHANGED <<clock, control, runs, timer, screens>>

\* Slip: the stop command does not look at the token.
ClosesAny(b, l) == stream' = [stream EXCEPT ![b] = None]

\* setScreenControl(false, token) on a screen: closes the stream that has this token.
Closes(b, l) == stream' = [stream EXCEPT ![b] = IF @ = l THEN None ELSE @]

-----------------------------------------------------------------------------
(* computer.takeover                                                       *)

TakeoverReads(p, b) ==
  Asks(p, "takeover", b, IF HasControl(row) /\ row.bot = b THEN "rearm"
                         ELSE IF HasControl(row) THEN "switch"
                         ELSE IF row.lease # None THEN "xread"
                         ELSE "check")

\* The control of another bot's screen ends: its stream, then its columns.
SwitchCloses(p) ==
  /\ proc[p].at = "switch"
  /\ Closes(proc[p].seen.bot, proc[p].lease)
  /\ Proceeds(p, "unset")
  /\ UNCHANGED <<clock, control, runs, timer, view, loose, budget>>

SwitchClears(p) ==
  /\ proc[p].at = "unset"
  /\ IF row.lease = proc[p].lease
     THEN row' = Free
     ELSE UNCHANGED row
  /\ Proceeds(p, "reread")
  /\ UNCHANGED <<clock, granted, runs, timer, screens, budget>>

SwitchRereads(p) ==
  /\ proc[p].at = "reread"
  /\ proc' = [proc EXCEPT ![p].lease = row.lease, ![p].seen = row,
                          ![p].at = IF row.lease # None THEN "xread" ELSE "check"]
  /\ UNCHANGED <<clock, control, runs, timer, screens, budget>>

\* executionBlocksUserTakeover: refused beside an execution lease, unless its run waits.
Checks(p) ==
  LET b == proc[p].bot IN
  /\ proc[p].at = "check"
  /\ IF b \in leased /\ run[b] # "waiting" THEN Leaves(p)
     ELSE proc' = [proc EXCEPT ![p].at = "grant", ![p].run = IF b \in leased THEN b ELSE None]
  /\ UNCHANGED <<clock, control, runs, timer, screens, budget>>

Granted(p, forRun, until) ==
  /\ granted < MaxLeases /\ until <= Horizon
  /\ granted' = granted + 1
  /\ row' = [holder |-> "user", lease |-> granted + 1, expires |-> until,
             bot |-> proc[p].bot, run |-> forRun]
  /\ proc' = [proc EXCEPT ![p].at = "arm", ![p].lease = granted + 1, ![p].seen = row']

Grants(p) ==
  /\ proc[p].at = "grant"
  /\ row.holder # "user" /\ row.lease = None
  /\ Granted(p, proc[p].run, clock + Ttl)
  /\ UNCHANGED <<clock, runs, timer, screens, budget>>

\* Somebody else has it by now: the answer is their lease.
GrantMissed(p) ==
  /\ proc[p].at = "grant"
  /\ ~ (row.holder # "user" /\ row.lease = None)
  /\ IF HasControl(row)
     THEN proc' = [proc EXCEPT ![p].at = "rearm", ![p].lease = row.lease, ![p].seen = row]
     ELSE Leaves(p)
  /\ UNCHANGED <<clock, control, runs, timer, screens, budget>>

Arms(p) ==
  /\ proc[p].at \in {"arm", "rearm"}
  /\ Schedules(proc[p].lease, proc[p].seen.expires)
  /\ Leaves(p)
  /\ UNCHANGED <<clock, control, runs, screens, budget>>

\* The enqueue fails: a takeover takes its lease back, the others just fail.
ArmFails(p) ==
  /\ proc[p].at \in {"arm", "rearm"}
  /\ Fault
  /\ IF proc[p].at = "arm" /\ proc[p].kind = "takeover" THEN Proceeds(p, "revert") ELSE Leaves(p)
  /\ UNCHANGED <<clock, control, runs, timer, screens>>

Reverts(p) ==
  /\ proc[p].at = "revert"
  /\ IF row.lease = proc[p].lease
     THEN row' = Free /\ Loosens
     ELSE UNCHANGED <<row, loose>>
  /\ Leaves(p)
  /\ UNCHANGED <<clock, granted, runs, timer, stream, view, budget>>

-----------------------------------------------------------------------------
(* skills.start: the runs of the bot end, and it extends or takes control. *)

\* teachingControlLeaseExpiresAt
TeachUntil == clock + (IF Ttl > TeachTtl THEN Ttl ELSE TeachTtl)

TeachReads(p, b) == Asks(p, "teach", b, "cancel")

TeachCancels(p) ==
  LET b == proc[p].bot IN
  /\ proc[p].at = "cancel"
  /\ run' = [run EXCEPT ![b] = "idle"]
  /\ leased' = leased \ {b}
  /\ proc' = IF HasControl(proc[p].seen) /\ proc[p].seen.bot = b
             THEN [proc EXCEPT ![p].at = "extend", ![p].seen.expires = TeachUntil]
             ELSE [proc EXCEPT ![p].at = "teach"]
  /\ UNCHANGED <<clock, control, timer, screens, budget>>

\* extendActiveComputerControl; when it fails the grant is tried.
Extends(p) ==
  LET mine == /\ row.holder = "user"
              /\ row.bot = proc[p].bot
              /\ row.lease = proc[p].lease
  IN
  /\ proc[p].at = "extend"
  /\ proc[p].seen.expires <= Horizon
  /\ row' = IF mine THEN [row EXCEPT !.expires = proc[p].seen.expires] ELSE row
  /\ Proceeds(p, IF mine THEN "rearm" ELSE "teach")
  /\ UNCHANGED <<clock, granted, runs, timer, screens, budget>>

TeachMay(p) == row.holder # "user" \/ row.bot = proc[p].bot

\* grantTakeover: unlike a takeover it replaces a lease that is being revoked, or that is
\* the bot's own, and leaves controlRunId as it is.
TeachGrants(p) ==
  /\ proc[p].at = "teach"
  /\ TeachMay(p)
  /\ Granted(p, row.run, TeachUntil)
  /\ Loosens
  /\ UNCHANGED <<clock, runs, timer, stream, view, budget>>

TeachRefused(p) ==
  /\ proc[p].at = "teach"
  /\ ~ TeachMay(p)
  /\ Leaves(p)
  /\ UNCHANGED <<clock, control, runs, timer, screens, budget>>

-----------------------------------------------------------------------------
(* finalizeComputerControlRelease                                          *)

\* Slip: the release leaves the run to the next message.
ResumesNone(b) == UNCHANGED run

Resumes(b) ==
  run' = IF b # None /\ run[b] = "waiting" THEN [run EXCEPT ![b] = "queued"] ELSE run

Owns(p) ==
  /\ row.lease = proc[p].lease
  /\ row.bot = proc[p].seen.bot
  /\ row.run = proc[p].seen.run

Finalizes(p) ==
  IF Owns(p)
  THEN /\ row' = [Free EXCEPT !.holder = IF proc[p].kind \in {"release", "unteach"}
                                          THEN "bot" ELSE "none"]
       /\ IF proc[p].seen.run = proc[p].seen.bot THEN Resumes(proc[p].seen.run)
          ELSE UNCHANGED run
  ELSE UNCHANGED <<row, run>>

-----------------------------------------------------------------------------
(* computer.release, and the release that ends a teaching session.         *)

ReleaseReads(p, b) ==
  /\ HasControl(row) /\ row.bot = b
  /\ Asks(p, "release", b, "close")

UnteachReads(p, b) ==
  /\ row.holder = "user" /\ row.bot = b
  /\ Asks(p, "unteach", b, "close")

ReleaseCloses(p) ==
  /\ proc[p].at = "close"
  /\ Closes(proc[p].bot, proc[p].lease)
  /\ Proceeds(p, IF proc[p].kind = "release" THEN "final" ELSE "precancel")
  /\ UNCHANGED <<clock, control, runs, timer, view, loose, budget>>

\* The timer of this lease is cancelled: before a teaching release, after the user's own.
Cancels(p) ==
  /\ proc[p].at \in {"precancel", "cancelled"}
  /\ timer' = [timer EXCEPT ![proc[p].lease] = None]
  /\ IF proc[p].at = "precancel" THEN Proceeds(p, "final") ELSE Leaves(p)
  /\ UNCHANGED <<clock, control, runs, screens, budget>>

ReleaseFinalizes(p) ==
  /\ proc[p].at = "final"
  /\ Finalizes(p)
  /\ IF proc[p].kind = "release" /\ Owns(p) THEN Proceeds(p, "cancelled") ELSE Leaves(p)
  /\ UNCHANGED <<clock, granted, leased, timer, screens, budget>>

-----------------------------------------------------------------------------
(* expireComputerControl, by its job, by a takeover or by a status request. *)

TimerFires(p, l) ==
  /\ proc[p].at = "out"
  /\ timer[l] # None /\ timer[l] <= clock
  /\ timer' = [timer EXCEPT ![l] = None]
  /\ proc' = [proc EXCEPT ![p] = [Out EXCEPT !.kind = "expire", !.at = "xread", !.lease = l]]
  /\ UNCHANGED <<clock, control, runs, screens, budget>>

StatusFindsStale(p, b) == row.lease # None /\ ~ HasControl(row) /\ Asks(p, "status", b, "xread")

\* Where the caller goes on.
Returns(p) == IF proc[p].kind = "takeover" THEN Proceeds(p, "check") ELSE Leaves(p)

ExpiryReads(p) ==
  /\ proc[p].at = "xread"
  /\ IF row.lease # proc[p].lease \/ row.bot = None
     THEN Returns(p) /\ UNCHANGED timer
     ELSE IF row.expires > clock
          THEN Returns(p) /\ Schedules(row.lease, row.expires)
          ELSE /\ proc' = [proc EXCEPT ![p].at = "xclaim", ![p].seen = row]
               /\ UNCHANGED timer
  /\ UNCHANGED <<clock, control, runs, screens, budget>>

\* Slip: the claim is of the computer, whatever lease it has now.
ClaimsAny(p) == row.lease # None

Claims(p) == row.lease = proc[p].lease

\* Slip: the claim is the release: it empties the columns.
Emptied == Free

\* API input is denied first; the lease id stays until the stream is closed.
Denied == [row EXCEPT !.holder = "none"]

ExpiryClaims(p) ==
  /\ proc[p].at = "xclaim"
  /\ IF Claims(p) THEN row' = Denied /\ Proceeds(p, "xclose")
     ELSE Returns(p) /\ UNCHANGED row
  /\ UNCHANGED <<clock, granted, runs, timer, screens, budget>>

ExpiryCloses(p) ==
  /\ proc[p].at = "xclose"
  /\ Closes(proc[p].seen.bot, proc[p].lease)
  /\ Proceeds(p, "xfinal")
  /\ UNCHANGED <<clock, control, runs, timer, view, loose, budget>>

ExpiryFinalizes(p) ==
  /\ proc[p].at = "xfinal"
  /\ Finalizes(p)
  /\ Returns(p)
  /\ UNCHANGED <<clock, granted, leased, timer, screens, budget>>

\* The process dies, a statement fails, or the provider does: the job is tried again,
\* a request is not.
Fails(p) ==
  /\ proc[p].at # "out"
  /\ Fault
  /\ timer' = IF proc[p].kind = "expire" /\ timer[proc[p].lease] = None
              THEN [timer EXCEPT ![proc[p].lease] = clock] ELSE timer
  /\ Leaves(p)
  /\ UNCHANGED <<clock, control, runs, screens>>

\* The reconciler: a lease that still names its bot gets its job again.
Reconciles ==
  /\ row.lease # None /\ row.bot # None
  /\ timer[row.lease] # row.expires
  /\ row.expires <= clock
  /\ Schedules(row.lease, row.expires)
  /\ UNCHANGED <<clock, control, runs, screens, proc, budget>>

-----------------------------------------------------------------------------
(* computer.screenUrl: the stream is opened with the token that was read.  *)

ViewReads(b) ==
  /\ HasControl(row) /\ row.bot = b
  /\ view = NoView /\ stream[b] # row.lease
  /\ view' = [bot |-> b, lease |-> row.lease]
  /\ UNCHANGED <<clock, control, runs, timer, stream, proc, loose, budget>>

\* The start command of the primary screen stops what it finds; that of an extra display
\* stops the stream of the same token only, and then finds the port in use.
Openable(b) == b \notin Extra \/ stream[b] \in {None, view.lease}

\* The process has closed the stream of its lease and will not do so again.
HasClosed(p) == proc[p].at \in {"unset", "precancel", "final", "xfinal"}

ViewOpens ==
  /\ view # NoView
  /\ view' = NoView
  /\ stream' = IF Openable(view.bot) THEN [stream EXCEPT ![view.bot] = view.lease] ELSE stream
  /\ loose' = IF \/ row.lease # view.lease
                 \/ \E p \in Proc : HasClosed(p) /\ proc[p].lease = view.lease
              THEN loose \cup {view.lease} ELSE loose
  /\ UNCHANGED <<clock, control, runs, timer, proc, budget>>

-----------------------------------------------------------------------------
(* The runs.                                                               *)

RunStarts(b) ==
  /\ b \in Runner
  /\ run[b] \in {"idle", "queued"}
  /\ run' = [run EXCEPT ![b] = "working"]
  /\ leased' = leased \cup {b}
  /\ UNCHANGED <<clock, control, timer, screens, proc, budget>>

\* request_takeover: the handler clears the control columns of the computer ...
RunAsks(b) ==
  /\ run[b] = "working"
  /\ asks < MaxRunAsks /\ asks' = asks + 1
  /\ run' = [run EXCEPT ![b] = "asking"]
  /\ row' = Free
  /\ Loosens
  /\ UNCHANGED <<clock, granted, leased, timer, stream, view, proc, requests, faults>>

\* ... holds its execution lease for a day, and pauses.
RunWaits(b) ==
  /\ run[b] = "asking"
  /\ run' = [run EXCEPT ![b] = "waiting"]
  /\ UNCHANGED <<clock, control, leased, timer, screens, proc, budget>>

\* The run ends, or its thread is stopped.
RunEnds(b) ==
  /\ run[b] # "idle"
  /\ run' = [run EXCEPT ![b] = "idle"]
  /\ leased' = leased \ {b}
  /\ UNCHANGED <<clock, control, timer, screens, proc, budget>>

Tick ==
  /\ clock < Horizon
  /\ clock' = clock + 1
  /\ UNCHANGED <<control, runs, timer, screens, proc, budget>>

-----------------------------------------------------------------------------

Step(p) ==
  \/ SwitchCloses(p) \/ SwitchClears(p) \/ SwitchRereads(p) \/ Checks(p) \/ Grants(p)
  \/ GrantMissed(p) \/ Arms(p) \/ Reverts(p)
  \/ TeachCancels(p) \/ Extends(p) \/ TeachGrants(p) \/ TeachRefused(p)
  \/ ReleaseCloses(p) \/ Cancels(p) \/ ReleaseFinalizes(p)
  \/ ExpiryReads(p) \/ ExpiryClaims(p) \/ ExpiryCloses(p) \/ ExpiryFinalizes(p)

Fires == \E p \in Proc, l \in ControlLease : TimerFires(p, l)

Requests(p) ==
  \E b \in Bot : \/ TakeoverReads(p, b) \/ TeachReads(p, b) \/ ReleaseReads(p, b)
                 \/ UnteachReads(p, b) \/ StatusFindsStale(p, b)

ControlNext ==
  \/ Tick \/ Reconciles \/ Fires
  \/ \E p \in Proc : Step(p) \/ Requests(p) \/ ArmFails(p) \/ Fails(p)
  \/ ViewOpens
  \/ \E b \in Bot : \/ ViewReads(b)
                    \/ RunStarts(b) \/ RunAsks(b) \/ RunWaits(b) \/ RunEnds(b)

ControlSpec == ControlInit /\ [][ControlNext]_controlVars

-----------------------------------------------------------------------------
(* Properties.                                                             *)

ControlTypeOK ==
  /\ clock \in 0 .. Horizon /\ granted \in 0 .. MaxLeases
  /\ row \in Row
  /\ run \in [Bot -> {"idle", "working", "asking", "waiting", "queued"}]
  /\ leased \subseteq Bot /\ loose \subseteq ControlLease
  /\ timer \in [ControlLease -> Nat \cup {None}]
  /\ stream \in [Bot -> ControlLease \cup {None}]
  /\ view \in [bot : Bot \cup {None}, lease : ControlLease \cup {None}]
  /\ proc \in [Proc -> ProcLocals]
  /\ requests \in Nat /\ asks \in Nat /\ faults \in Nat

\* A stream that is open belongs to the lease in the row, so that whoever ends this lease
\* closes it: a failed call of the provider, a crash between claim and cleanup, a late
\* release and a newer lease lose none.
StreamIsRevocable ==
  \A b \in Bot : stream[b] # None /\ stream[b] \notin loose
                   => stream[b] = row.lease

\* A late call ends no later control: a process ends a control that the user still has
\* only if it read that very lease, and the expiry only if it read that it was over.
LateCallsSpareControl ==
  [][\A p \in Proc :
       HasControl(row) /\ (row'.lease # row.lease \/ row'.holder # "user")
         /\ proc'[p] # proc[p] /\ proc[p].at # "teach"
       => /\ row.lease = proc[p].lease
          /\ proc[p].at = "xclaim" => proc[p].seen.expires <= clock]_controlVars

\* A late call closes no later stream.
LateCallsSpareStream ==
  [][\A b \in Bot : stream[b] # None /\ stream'[b] = None
       => \E p \in Proc : proc[p].lease = stream[b] /\ proc'[p] # proc[p]]_controlVars

\* The control that was given for a waiting run leaves the row together with the resumption
\* of the run: late finalizations, failed revocations and their retries strand none.  What
\* does is a switch to another screen, a takeover that cannot be armed, the clearing
\* by another run's request, and a session of another bot that inherited controlRunId.
HandedBack ==
  [][\A b \in Bot :
       row.run = b /\ run[b] = "waiting" /\ row'.run # b /\ run'[b] = "waiting"
       => \/ asks' # asks
          \/ row.bot # b
          \/ \E p \in Proc : proc[p].at \in {"unset", "revert"} /\ proc'[p] # proc[p]]_controlVars

\* The row, the timers and the streams have their types, and no stream is left behind.
ControlInv == ControlTypeOK /\ StreamIsRevocable
=============================================================================
