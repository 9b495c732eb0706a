---------------------------- MODULE RoutineWakeup ----------------------------
(***************************************************************************)
(* One scheduled routine of a bot: its row, the keyed routine.wakeup job,  *)
(* the workers that execute wakeRoutine one statement at a time, the       *)
(* reconciler's scan, the requests that edit, remove or archive, and the   *)
(* runs that the routine's occurrences make.                               *)
(*                                                                         *)
(* Time is a small number; a recurring schedule is its period, and its     *)
(* occurrences are the multiples of the period.                            *)
(***************************************************************************)
EXTENDS Integers, FiniteSets

CONSTANTS
  Worker,     \* slots that execute routine.wakeup
  MaxRuns,    \* bound: runs the routine can make, deleted ones included
  Period,     \* the recurring schedules a user may choose
  Once,       \* crons = ["@once"]
  Broken,     \* crons of a row older than the validation: none of them parses
  None,       \* null
  Horizon,    \* bound: the clock stops here
  Lookahead,  \* ROUTINE_LOOKAHEAD_MS
  Skew,       \* the job table's clock may be ahead of the worker's by this much
  Slack,      \* deferFutureRoutine lets a wakeup fire this early: a second
  MaxFaults,  \* bound: failed enqueues and worker crashes
  MaxEdits    \* bound: requests that change the routine

ASSUME RoutineAssumption ==
  /\ Period \subseteq Nat \ {0}
  /\ Once # Broken /\ {Once, Broken, None} \cap Nat = {}
  /\ None \notin {Once, Broken}
  /\ MaxRuns \in Nat /\ Horizon \in Nat /\ Lookahead \in Nat /\ Skew \in Nat
  /\ Slack \in Nat
  /\ MaxFaults \in Nat /\ MaxEdits \in Nat

VARIABLES
  clock,
  life,       \* whether the routine's row exists: "unborn", "live", "gone"
  routine,    \* the row: active, crons, nextRunAt, whether lastRunAt is set
  archived,   \* the bot's archivedAt is set
  run,        \* the runs: status and the occurrence they were made for
  wake,       \* scheduledFor of the job that waits under the routine's key
  worker,     \* the local variables of a slot's wakeRoutine
  sweep,      \* nextRunAt as the reconciler's scan read it
  edit,       \* the request under way: what it read and what it will write
  archive,    \* archiveBot: whether it has read, and which runs it read as active
  again,      \* history: occurrences put back although a run of them, or of a later one, stood
  undone,     \* history: a tool took back the routine it had just made
  faults, edits

vars == <<clock, life, routine, archived, run, wake, worker, sweep, edit, archive,
          again, undone, faults, edits>>
history == <<again, undone>>
row == <<life, routine>>
requests == <<edit, archive, archived>>
budget == <<faults, edits>>

Run == 1 .. MaxRuns
Schedule == Period \cup {Once, Broken}
Time == Nat \cup {None}
Row == [active: BOOLEAN, sched: Schedule, next: Time, ran: BOOLEAN]
Idle == [pc |-> "idle", for |-> None, next |-> None, ran |-> FALSE, run |-> None,
         sched |-> Once, keyed |-> FALSE]
NoEdit == [pc |-> "none"]
NoArchive == [pc |-> "none", runs |-> {}]
NoRun == [status |-> "absent", occ |-> None]

Init ==
  /\ clock = 0
  /\ \/ /\ life = "unborn"
        /\ routine = [active |-> FALSE, sched |-> Once, next |-> None, ran |-> FALSE]
     \/ /\ life = "live"
        /\ routine = [active |-> TRUE, sched |-> Broken, next |-> 1, ran |-> TRUE]
  /\ archived = FALSE
  /\ run = [r \in Run |-> NoRun]
  /\ wake = None
  /\ worker = [w \in Worker |-> Idle]
  /\ sweep = None
  /\ edit = NoEdit
  /\ archive = NoArchive
  /\ again = {}
  /\ undone = FALSE
  /\ faults = 0
  /\ edits = 0

-----------------------------------------------------------------------------
(* Schedules and the keyed job.                                            *)

\* nextCronDateAcross: the first occurrence after t, null when no cron parses.
NextDate(sched, t) == IF sched \in Period THEN (t \div sched + 1) * sched ELSE None

\* Slip: the occurrence that follows is counted from the clock alone.
ClockAlone(s, t) == s

\* What the next occurrence follows: the clock, or the occurrence that fired before it.
Later(s, t) == IF s > t THEN s ELSE t

\* A row with this key is replaced; one that a worker has locked loses its key, and
\* with it its retries.
Enqueue(t) ==
  /\ wake' = t
  /\ worker' = [w \in Worker |-> [worker[w] EXCEPT !.keyed = FALSE]]
EnqueueAndLeave(w, t) ==
  /\ wake' = t
  /\ worker' = [v \in Worker |-> IF v = w THEN Idle ELSE [worker[v] EXCEPT !.keyed = FALSE]]

\* The handler threw or its process died: the job is tried again unless it lost its key.
Retry(w) ==
  /\ wake' = IF worker[w].keyed THEN worker[w].for ELSE wake
  /\ worker' = [worker EXCEPT ![w] = Idle]

Return(w) == worker' = [worker EXCEPT ![w] = Idle] /\ UNCHANGED wake
Fault == faults < MaxFaults /\ faults' = faults + 1 /\ UNCHANGED edits

Tick ==
  /\ clock < Horizon
  /\ clock' = clock + 1
  /\ UNCHANGED <<row, run, wake, worker, sweep, requests, history, budget>>

-----------------------------------------------------------------------------
(* wakeRoutine.                                                            *)

Due(t) == life = "live" /\ routine.active /\ routine.next = t

\* The job is taken from the table and the row is read.
Taken(w) ==
  /\ worker[w].pc = "idle"
  /\ wake # None
  /\ wake <= clock + Skew
  /\ UNCHANGED <<clock, row, run, sweep, requests, history, budget>>

\* The job is of another time than the row, or the row is paused or gone.
WakeStale(w) ==
  /\ Taken(w)
  /\ ~ Due(wake)
  /\ wake' = None
  /\ UNCHANGED worker

\* deferFutureRoutine: a job that came earlier than the slack goes back under its key.
WakeEarly(w) ==
  /\ Taken(w)
  /\ Due(wake)
  /\ wake > clock + Slack
  /\ Enqueue(wake)

\* Otherwise it fires, be it a second before its time.
WakeDue(w) ==
  /\ Taken(w)
  /\ Due(wake)
  /\ wake <= clock + Slack
  /\ worker' = [worker EXCEPT ![w] =
       [pc |-> "claim", for |-> wake, next |-> NextDate(routine.sched, Later(clock, wake)),
        ran |-> routine.ran, run |-> None, sched |-> routine.sched, keyed |-> TRUE]]
  /\ wake' = None

\* Slip: the claim looks for the routine by its id and active only.
ClaimableById(w) == life = "live" /\ routine.active

Claimable(w) == life = "live" /\ routine.active /\ routine.next = worker[w].for

\* The transaction that moves the row to its next occurrence and creates the run.
Claim(w, r) ==
  /\ worker[w].pc = "claim"
  /\ Claimable(w)
  /\ r = Cardinality({s \in Run : run[s].status # "absent"}) + 1
  /\ routine' = [routine EXCEPT !.next = worker[w].next, !.ran = TRUE,
                                !.active = @ /\ worker[w].next # None]
  /\ run' = [run EXCEPT ![r] = [status |-> "active", occ |-> routine.next]]
  /\ worker' = [worker EXCEPT ![w].pc = "enqueue", ![w].run = r]
  /\ UNCHANGED <<clock, life, wake, sweep, requests, history, budget>>

ClaimMissed(w) ==
  /\ worker[w].pc = "claim"
  /\ ~ Claimable(w)
  /\ Return(w)
  /\ UNCHANGED <<clock, row, run, sweep, requests, history, budget>>

RunEnqueued(w) ==
  /\ worker[w].pc = "enqueue"
  /\ worker' = [worker EXCEPT ![w].pc = "arm"]
  /\ UNCHANGED <<clock, row, run, wake, sweep, requests, history, budget>>

RunNotEnqueued(w) ==
  /\ worker[w].pc = "enqueue"
  /\ Fault
  /\ worker' = [worker EXCEPT ![w].pc = "restore"]
  /\ UNCHANGED <<clock, row, run, wake, sweep, requests, history>>

\* History: nextRunAt goes back to t, over a run of t or of a later time that stands.
Stands(r) == run[r].status \in {"active", "cancelled"}
PutBack(t) == IF \E r \in Run : Stands(r)' /\ run'[r].occ >= t THEN again \cup {t} ELSE again

\* Slip: the restored row is found by its id.
RestorableById(w) == life = "live"

\* Slip: the next occurrence was reset before it was compared.
RestorableIfEnded(w) == life = "live" /\ routine.next = None /\ ~ routine.active

\* The row is as the claim left it.
Restorable(w) ==
  /\ life = "live"
  /\ routine.next = worker[w].next
  /\ worker[w].next = None => ~ routine.active

\* The transaction that takes the claim back; then the handler throws.  The run is
\* deleted if it is still queued, which the reconciler may have ended.
Restore(w) == \E queued \in BOOLEAN :
  LET deleted == queued /\ run[worker[w].run].status = "active" IN
  /\ worker[w].pc = "restore"
  /\ run' = IF deleted THEN [run EXCEPT ![worker[w].run].status = "deleted"] ELSE run
  /\ routine' = IF Restorable(w)
                THEN [routine EXCEPT !.next = worker[w].for, !.active = TRUE,
                                     !.ran = worker[w].ran]
                ELSE routine
  /\ again' = IF Restorable(w) THEN PutBack(worker[w].for) ELSE again
  /\ Retry(w)
  /\ UNCHANGED <<clock, life, sweep, requests, undone, budget>>

\* The last statement: the next occurrence gets its job, a one-shot loses the key.
Arm(w) ==
  /\ worker[w].pc = "arm"
  /\ IF worker[w].sched = Once THEN EnqueueAndLeave(w, None)
     ELSE IF worker[w].next # None THEN EnqueueAndLeave(w, worker[w].next)
     ELSE Return(w)
  /\ UNCHANGED <<clock, row, run, sweep, requests, history, budget>>

\* A worker process dies, or a statement that is not answered fails.
Crash(w) ==
  /\ worker[w].pc # "idle"
  /\ Fault
  /\ Retry(w)
  /\ UNCHANGED <<clock, row, run, sweep, requests, history>>

-----------------------------------------------------------------------------
(* The reconciler's scan: what it enqueues is what it read.                *)

\* Slip: the scan looks only for the occurrences to come.
SweepReadsComing ==
  /\ sweep = None
  /\ life = "live" /\ routine.active /\ routine.next # None
  /\ clock < routine.next /\ routine.next <= clock + Lookahead
  /\ sweep' = routine.next
  /\ UNCHANGED <<clock, row, run, wake, worker, requests, history, budget>>

SweepReads ==
  /\ sweep = None
  /\ life = "live" /\ routine.active /\ routine.next # None
  /\ routine.next <= clock + Lookahead
  /\ sweep' = routine.next
  /\ UNCHANGED <<clock, row, run, wake, worker, requests, history, budget>>

SweepEnqueues ==
  /\ sweep # None
  /\ Enqueue(sweep)
  /\ sweep' = None
  /\ UNCHANGED <<clock, row, run, requests, history, budget>>

SweepFails ==
  /\ sweep # None
  /\ Fault
  /\ sweep' = None
  /\ UNCHANGED <<clock, row, run, wake, worker, requests, history>>

-----------------------------------------------------------------------------
(* Requests: create, update, remove, and the tools of a bot.               *)

Request == edit.pc = "none" /\ edits < MaxEdits /\ edits' = edits + 1 /\ UNCHANGED faults
Sync(t, tool) == edit' = [pc |-> "sync", arm |-> t, tool |-> tool]
Born(sched, next, tool) ==
  /\ life = "unborn"
  /\ edit = NoEdit
  /\ life' = "live"
  /\ routine' = [active |-> TRUE, sched |-> sched, next |-> next, ran |-> FALSE]
  /\ Sync(next, tool)
  /\ UNCHANGED <<clock, archived, run, wake, worker, sweep, archive, history, budget>>

\* routines.create; a one-shot can only be created from chat.
CreateRoutine == \E s \in Period : Born(s, NextDate(s, clock), FALSE)

\* createScheduleFromTool.
CreateSchedule ==
  \/ \E s \in Period : Born(s, NextDate(s, clock), TRUE)
  \/ \E t \in clock + 1 .. Horizon : Born(Once, t, TRUE)

\* routines.update, up to its write: what it computes from the row it read.
UpdateReads(active, sched, runAt) ==
  LET on == IF active = None THEN routine.active ELSE active
      crons == IF sched = None THEN routine.sched ELSE sched
      changed == (~ routine.active /\ on) \/ (sched # None /\ sched # routine.sched)
      recalculates == crons # Once /\ (changed \/ (on /\ routine.next = None))
      arms == on /\ crons = Once /\ routine.next = None /\ ~ routine.ran
  IN
  /\ Request
  /\ life = "live"
  /\ on /\ crons = Once => routine.sched = Once /\ ~ (routine.next = None /\ routine.ran)
  /\ recalculates => crons \in Period
  /\ runAt # None <=> arms
  /\ edit' = [pc |-> "write", active |-> active, sched |-> sched,
              next |-> IF ~ on THEN None
                       ELSE IF arms THEN runAt
                       ELSE IF recalculates THEN NextDate(crons, clock)
                       ELSE routine.next,
              before |-> routine, changed |-> changed]
  /\ UNCHANGED <<clock, row, archived, run, wake, worker, sweep, archive, history>>

\* The columns the request gives, and nextRunAt always, over whatever the row is now.
Updated ==
  [routine EXCEPT !.active = IF edit.active = None THEN @ ELSE edit.active,
                  !.sched = IF edit.sched = None THEN @ ELSE edit.sched,
                  !.next = edit.next]

UpdateWrites ==
  /\ edit.pc = "write"
  /\ life = "live"
  /\ routine' = Updated
  /\ LET synced == \/ edit.before.active # Updated.active
                   \/ edit.changed
                   \/ edit.before.next = None /\ Updated.next # None
     IN IF synced THEN Sync(IF Updated.active THEN Updated.next ELSE None, FALSE)
        ELSE edit' = NoEdit
  /\ UNCHANGED run
  /\ again' = IF edit.next # None THEN PutBack(edit.next) ELSE again
  /\ UNCHANGED <<clock, life, archived, wake, worker, sweep, archive, undone, budget>>

\* routines.remove and cancelScheduleFromTool.
Remove ==
  /\ Request
  /\ life = "live"
  /\ life' = "gone"
  /\ Sync(None, FALSE)
  /\ UNCHANGED <<clock, routine, archived, run, wake, worker, sweep, archive, history>>

\* The enqueue, or the cancel, that ends each of these requests.
RequestSyncs ==
  /\ edit.pc = "sync"
  /\ Enqueue(edit.arm)
  /\ edit' = NoEdit
  /\ UNCHANGED <<clock, row, archived, run, sweep, archive, history, budget>>

\* It fails.  A tool undoes its row or, when that fails too, pauses it.
RequestFails ==
  /\ edit.pc = "sync"
  /\ Fault
  /\ edit' = NoEdit
  /\ IF edit.tool
     THEN \/ life' = "gone" /\ UNCHANGED routine
          \/ routine' = [routine EXCEPT !.active = FALSE, !.next = None] /\ UNCHANGED life
     ELSE UNCHANGED row
  /\ undone' = (undone \/ edit.tool)
  /\ UNCHANGED <<clock, archived, run, wake, worker, sweep, archive, again>>

-----------------------------------------------------------------------------
(* archiveBot.                                                             *)

ArchiveReads ==
  /\ archive.pc = "none"
  /\ edits < MaxEdits /\ edits' = edits + 1 /\ UNCHANGED faults
  /\ archive' = [pc |-> IF Due(routine.next) THEN "armed" ELSE "unarmed",
                 runs |-> {r \in Run : run[r].status = "active"}]
  /\ UNCHANGED <<clock, row, archived, run, wake, worker, sweep, edit, history>>

ArchiveCommits ==
  /\ archive.pc \in {"armed", "unarmed"}
  /\ ~ archived
  /\ archived' = TRUE
  /\ run' = [r \in Run |-> IF r \in archive.runs /\ run[r].status # "deleted"
                           THEN [run[r] EXCEPT !.status = "cancelled"] ELSE run[r]]
  /\ routine' = IF life = "live" THEN [routine EXCEPT !.active = FALSE, !.next = None]
                ELSE routine
  /\ UNCHANGED <<clock, life, wake, worker, sweep, edit, archive, history, budget>>

ArchiveCancels ==
  /\ archived
  /\ archive.pc \in {"armed", "unarmed"}
  /\ archive' = [archive EXCEPT !.pc = "done"]
  /\ IF archive.pc = "armed" THEN Enqueue(None) ELSE UNCHANGED <<wake, worker>>
  /\ UNCHANGED <<clock, row, archived, run, sweep, edit, history, budget>>

-----------------------------------------------------------------------------

WakeRoutine(w) ==
  \/ WakeStale(w) \/ WakeEarly(w) \/ WakeDue(w) \/ ClaimMissed(w)
  \/ \E r \in Run : Claim(w, r)
  \/ RunEnqueued(w) \/ Restore(w) \/ Arm(w)

Faulty == SweepFails \/ RequestFails \/ \E w \in Worker : RunNotEnqueued(w) \/ Crash(w)

Requests ==
  \/ CreateRoutine \/ CreateSchedule \/ UpdateWrites \/ Remove \/ RequestSyncs
  \/ \E active \in {None, TRUE, FALSE}, sched \in {None, Once} \cup Period,
        runAt \in {None} \cup (clock + 1 .. Horizon) : UpdateReads(active, sched, runAt)
  \/ ArchiveReads \/ ArchiveCommits \/ ArchiveCancels

Next ==
  \/ Tick \/ SweepReads \/ SweepEnqueues \/ Faulty \/ Requests
  \/ \E w \in Worker : WakeRoutine(w)

\* The clock runs; the job runners and the reconciler's interval never stop.
Fairness ==
  /\ WF_vars(Tick)
  /\ WF_vars(SweepReads) /\ WF_vars(SweepEnqueues)
  /\ \A w \in Worker : WF_vars(WakeRoutine(w))

Spec == Init /\ [][Next]_vars /\ Fairness

-----------------------------------------------------------------------------
(* Properties.                                                             *)

RoutineTypeOK ==
  /\ clock \in 0 .. Horizon
  /\ life \in {"unborn", "live", "gone"}
  /\ routine \in Row
  /\ archived \in BOOLEAN
  /\ run \in [Run -> [status: {"absent", "active", "cancelled", "deleted"},
                      occ: Time]]
  /\ wake \in Time /\ sweep \in Time
  /\ worker \in [Worker -> [pc: {"idle", "claim", "enqueue", "restore", "arm"}, for: Time,
                            next: Time, ran: BOOLEAN, run: Run \cup {None}, sched: Schedule,
                            keyed: BOOLEAN]]
  /\ edit.pc \in {"none", "write", "sync"}
  /\ archive.pc \in {"none", "armed", "unarmed", "done"} /\ archive.runs \subseteq Run

\* An occurrence makes a second run only when nextRunAt was put back, to it or to one
\* before it, over a run of it or of a later one: by an update computed from an older
\* row, or from the clock while the run had fired early, or by a restore that came after
\* the run was picked up.  Duplicate, stale, early and retried jobs never do it.
OneRunPerOccurrence ==
  \A r, s \in Run : r # s /\ run[r].occ = run[s].occ
    => \/ {run[r].status, run[s].status} \cap {"absent", "deleted"} # {}
       \/ \E t \in again : t <= run[r].occ

\* No run starts more than the tolerated second before the time its routine was set for,
\* although jobs come early, are of an older schedule, or were replaced.
EarlyBySlackAtMost == \A r \in Run : run[r].status # "absent" => run[r].occ <= clock + Slack

\* Something was put back, to t or to a time before it.
Covered(t) == \E u \in again : u <= t

\* The row is never due for what a run that stands was made for, or for what came before
\* it, unless that was put back: what fired before its time is not due again at its time.
FiresForward ==
  \A r \in Run : Stands(r) =>
    routine.next = None \/ routine.next > run[r].occ \/ Covered(run[r].occ)

\* An occurrence whose run was taken back is due again, or one before it is, unless the
\* routine has fired since, was changed by a request, or was taken back by its tool: a
\* failed enqueue, a crash at any statement and a retry of the job lose nothing.
NothingLost ==
  edits = 0 /\ ~ undone /\ life = "live" =>
    \A r \in Run : run[r].status = "deleted" =>
      \/ routine.active /\ routine.next # None /\ routine.next <= run[r].occ
      \/ \E s \in Run : s > r /\ run[s].status # "absent"

\* Only an update makes a paused row due, and only an update starts a paused routine: a
\* handler restores a claim over a pause only when its claim was the one that ended the
\* schedule, or over a row that an update had left paused and due.
PausedStaysPaused ==
  [][life = "live" =>
       /\ ~ routine'.active /\ routine'.next # None
          => UpdateWrites \/ (~ routine.active /\ routine.next = routine'.next)
       /\ ~ routine.active /\ routine'.active
          => \/ UpdateWrites
             \/ routine.next # None
             \/ \E w \in Worker : worker[w].pc = "restore" /\ worker[w].next = None]_vars

\* An occurrence does not stay overdue for ever: lost jobs, stale scans that replace a
\* newer job, crashes and failed enqueues only delay it, until MaxRuns have been made.
Overdue == \E t \in 1 .. Horizon : Due(t) /\ t <= clock
DueFires == []<>(~ Overdue \/ run[MaxRuns].status # "absent")

\* The rows, jobs and handlers have their types, no run is earlier than the slack, and the
\* row moves past what was fired.
RoutineInv == RoutineTypeOK /\ EarlyBySlackAtMost /\ FiresForward
=============================================================================
