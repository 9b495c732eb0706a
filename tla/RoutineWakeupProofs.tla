------------------------- MODULE RoutineWakeupProofs -------------------------
(* Theorems about RoutineWakeup for every number of workers, runs, faults,  *)
(* requests and schedules.                                                  *)
EXTENDS RoutineWakeup, FiniteSetTheorems, TLAPS

Handler == [pc: {"idle", "claim", "enqueue", "restore", "arm"}, for: Time, next: Time,
            ran: BOOLEAN, run: Run \cup {None}, sched: Schedule, keyed: BOOLEAN]

(* What the request under way has read and computed. *)
EditOK ==
  /\ edit.pc \in {"none", "write", "sync"}
  /\ edit.pc = "sync" => edit.arm \in Time /\ edit.tool \in BOOLEAN
  /\ edit.pc = "write" => /\ edit.active \in BOOLEAN \cup {None}
                          /\ edit.sched \in Schedule \cup {None}
                          /\ edit.next \in Time
                          /\ edit.before \in Row

TypeInv ==
  /\ RoutineTypeOK /\ EditOK
  /\ again \subseteq Time /\ undone \in BOOLEAN /\ faults \in Nat /\ edits \in Nat

Absent(r) == run[r].status = "absent"
Open(w) == worker[w].pc \in {"enqueue", "restore"}

\* A null next is after every time.
AtMost(s, t) == t = None \/ (s # None /\ t # None /\ s <= t)
Before(s, t) == s # None /\ s <= t

(* What a handler holds: an occurrence that is due, the one that follows it and, once it
   has claimed, the run it made for it. *)
HandlersHold ==
  \A w \in Worker : worker[w].pc # "idle" =>
    /\ worker[w].for \in 0 .. clock + Slack
    /\ worker[w].next # None => worker[w].next > worker[w].for
    /\ Open(w) => worker[w].run # None /\ ~ Absent(worker[w].run)
                  /\ run[worker[w].run].occ = worker[w].for

RunsHold ==
  /\ \A r \in Run : ~ Absent(r) => run[r].occ \in 0 .. clock + Slack
  /\ \A r \in archive.runs : ~ Absent(r)
  /\ life = "unborn" => \A r \in Run : Absent(r)
  /\ life = "unborn" => \A w \in Worker : worker[w].pc = "idle"

\* Runs are made one after the other.
InOrder == \E n \in 0 .. MaxRuns : \A r \in Run : Absent(r) <=> r > n

BaseInv == HandlersHold /\ RunsHold /\ InOrder

\* No request has read the routine yet, and no tool has taken it back.
Untouched == edits = 0 /\ ~ undone

\* Then no request is between its statements.
UntouchedMeans ==
  Untouched => edit.pc # "write" /\ archive.pc = "none" /\ life # "gone"

Last(r) == \A s \in Run : s > r => Absent(s)

(* While nothing but the handlers moves the row: it is active as long as it is due, the
   claims that may be taken back do not overlap and lie before it, and what the last run
   was made for is either claimed or due. *)
Restores ==
  Untouched /\ life = "live" =>
    /\ routine.active <=> routine.next # None
    /\ \A v, w \in Worker : Open(v) /\ Open(w) /\ v # w =>
         Before(worker[v].next, worker[w].for) \/ Before(worker[w].next, worker[v].for)
    /\ \A w \in Worker : Open(w) => AtMost(worker[w].next, routine.next)
    /\ \A w \in Worker : Open(w) /\ Last(worker[w].run) => routine.next = worker[w].next
    /\ \A r \in Run : run[r].status = "deleted" /\ Last(r) =>
         routine.next # None /\ routine.next <= run[r].occ

-----------------------------------------------------------------------------
(* Time.                                                                   *)

LEMMA NoneIsNoTime == None \notin Nat /\ None \notin Run /\ None \notin Schedule
<1>1. None \notin Nat /\ None \notin Period /\ None \notin {Once, Broken}
  BY RoutineAssumption
<1>2. None \notin Run
  BY <1>1 DEF Run
<1>q. QED BY <1>1, <1>2 DEF Schedule

(* The multiples of a period go on for ever. *)
LEMMA Multiple ==
  ASSUME NEW t \in Nat, NEW s \in Nat \ {0}
  PROVE  (t \div s + 1) * s \in Nat /\ (t \div s + 1) * s > t
<1> DEFINE q == t \div s
           m == t % s
<1>1. q \in Nat /\ m \in 0 .. s - 1 /\ t = s * q + m
  OBVIOUS
<1> HIDE DEF q, m
<1>2. (q + 1) * s = s * q + s
  BY <1>1
<1>3. s * q \in Nat
  BY <1>1
<1>4. (q + 1) * s \in Nat /\ (q + 1) * s > t
  BY <1>1, <1>2, <1>3
<1>q. QED BY <1>4 DEF q

(* nextCronDateAcross: the next occurrence is later than the time it was asked for. *)
LEMMA NextDateLater ==
  ASSUME NEW s, NEW t \in Nat
  PROVE  /\ NextDate(s, t) \in Time
         /\ NextDate(s, t) # None => NextDate(s, t) \in Nat /\ NextDate(s, t) > t
         /\ s \in Period => NextDate(s, t) \in Nat
<1>1. CASE s \in Period
  BY <1>1, Multiple, RoutineAssumption DEF NextDate, Time
<1>2. CASE s \notin Period
  BY <1>2 DEF NextDate, Time
<1>q. QED BY <1>1, <1>2

LEMMA LaterIsLater ==
  ASSUME NEW s \in Nat, NEW t \in Nat
  PROVE  Later(s, t) \in Nat /\ Later(s, t) >= s /\ Later(s, t) >= t
BY DEF Later

-----------------------------------------------------------------------------
(* Types.                                                                  *)

LEMMA Values ==
  /\ None \in Time /\ Nat \subseteq Time /\ Once \in Schedule /\ Broken \in Schedule
  /\ Period \subseteq Schedule
  /\ Idle \in Handler /\ Idle.pc = "idle"
BY DEF Time, Schedule, Idle, Handler

LEMMA InitType == Init => TypeInv
<1> SUFFICES ASSUME Init PROVE TypeInv
  OBVIOUS
<1>1. clock \in 0 .. Horizon /\ life \in {"unborn", "live", "gone"} /\ routine \in Row
  <2>1. clock \in 0 .. Horizon
    BY RoutineAssumption DEF Init
  <2>2. /\ [active |-> FALSE, sched |-> Once, next |-> None, ran |-> FALSE] \in Row
        /\ [active |-> TRUE, sched |-> Broken, next |-> 1, ran |-> TRUE] \in Row
    BY Values DEF Row
  <2>q. QED BY <2>1, <2>2 DEF Init
<1>2. run \in [Run -> [status: {"absent", "active", "cancelled", "deleted"}, occ: Time]]
  BY Values DEF Init, NoRun
<1>3. worker \in [Worker -> Handler]
  BY Values DEF Init
<1>4. archived \in BOOLEAN /\ undone \in BOOLEAN
  BY Zenon DEF Init
<1>5. RoutineTypeOK
  BY <1>1, <1>2, <1>3, <1>4, Values DEF RoutineTypeOK, Init, NoEdit, NoArchive, Handler
<1>6. EditOK
  BY DEF Init, NoEdit, EditOK
<1>q. QED BY <1>4, <1>5, <1>6 DEF TypeInv, Init

(* What a handler keeps from one step to the next: what it has read, and its place, until
   the run is enqueued or is not. *)
Kept(w) ==
  /\ worker'[w].for = worker[w].for /\ worker'[w].next = worker[w].next
  /\ worker'[w].run = worker[w].run
  /\ \/ worker'[w].pc = worker[w].pc
     \/ worker[w].pc = "enqueue" /\ worker'[w].pc \in {"restore", "arm"}

Follows ==
  /\ worker' \in [Worker -> Handler]
  /\ \A w \in Worker : worker'[w].pc = "idle" \/ Kept(w)

LEMMA SameWorkers == TypeInv /\ UNCHANGED worker => Follows
BY DEF TypeInv, RoutineTypeOK, Handler, Follows, Kept

LEMMA UnkeyedWorkers ==
  ASSUME TypeInv, NEW t \in Time, Enqueue(t)
  PROVE  Follows /\ wake' \in Time
<1>1. worker \in [Worker -> Handler]
  BY DEF TypeInv, RoutineTypeOK, Handler
<1>2. worker' = [w \in Worker |-> [worker[w] EXCEPT !.keyed = FALSE]] /\ wake' = t
  BY DEF Enqueue
<1>3. ASSUME NEW h \in Handler
      PROVE  LET g == [h EXCEPT !.keyed = FALSE]
             IN  g \in Handler /\ g.for = h.for /\ g.next = h.next /\ g.run = h.run /\ g.pc = h.pc
  BY DEF Handler
<1>4. ASSUME NEW w \in Worker PROVE worker'[w] \in Handler /\ Kept(w)
  <2>1. worker'[w] = [worker[w] EXCEPT !.keyed = FALSE] /\ worker[w] \in Handler
    BY <1>1, <1>2
  <2>q. QED BY <2>1, <1>3 DEF Kept
<1>q. QED BY <1>2, <1>4 DEF Follows

LEMMA LeavingWorkers ==
  ASSUME TypeInv, NEW t \in Time, NEW v \in Worker, EnqueueAndLeave(v, t)
  PROVE  Follows /\ wake' \in Time
<1>1. worker \in [Worker -> Handler]
  BY DEF TypeInv, RoutineTypeOK, Handler
<1>2. /\ worker' = [w \in Worker |-> IF w = v THEN Idle ELSE [worker[w] EXCEPT !.keyed = FALSE]]
      /\ wake' = t
  BY DEF EnqueueAndLeave
<1>3. ASSUME NEW h \in Handler
      PROVE  LET g == [h EXCEPT !.keyed = FALSE]
             IN  g \in Handler /\ g.for = h.for /\ g.next = h.next /\ g.run = h.run /\ g.pc = h.pc
  BY DEF Handler
<1>4. ASSUME NEW w \in Worker PROVE worker'[w] \in Handler /\ (worker'[w].pc = "idle" \/ Kept(w))
  <2>1. CASE w = v
    BY <1>2, <2>1, Values
  <2>2. CASE w # v
    <3>1. worker'[w] = [worker[w] EXCEPT !.keyed = FALSE] /\ worker[w] \in Handler
      BY <1>1, <1>2, <2>2
    <3>q. QED BY <3>1, <1>3 DEF Kept
  <2>q. QED BY <2>1, <2>2
<1>q. QED BY <1>2, <1>4 DEF Follows

LEMMA IdleWorkers ==
  ASSUME TypeInv, NEW v \in Worker, worker' = [worker EXCEPT ![v] = Idle]
  PROVE  Follows
BY Values DEF TypeInv, RoutineTypeOK, Handler, Follows, Kept

LEMMA RetriedWorkers ==
  ASSUME TypeInv, NEW v \in Worker, Retry(v)
  PROVE  Follows /\ wake' \in Time
<1>1. Follows
  BY IdleWorkers DEF Retry
<1>2. wake' \in {worker[v].for, wake}
  BY DEF Retry
<1>3. worker[v].for \in Time /\ wake \in Time
  BY DEF TypeInv, RoutineTypeOK
<1>q. QED BY <1>1, <1>2, <1>3

LEMMA MovedWorkers ==
  ASSUME TypeInv, NEW v \in Worker, NEW pc \in {"restore", "arm"},
         worker[v].pc = "enqueue", worker' = [worker EXCEPT ![v].pc = pc]
  PROVE  Follows
BY DEF TypeInv, RoutineTypeOK, Handler, Follows, Kept

Budgeted == faults' \in {faults, faults + 1} /\ edits' \in {edits, edits + 1}

ArchiveOK ==
  archive.pc \in {"none", "armed", "unarmed", "done"} /\ archive.runs \subseteq Run

Runs == [Run -> [status: {"absent", "active", "cancelled", "deleted"}, occ: Time]]

LEMMA TypesKept ==
  ASSUME TypeInv, Follows, Budgeted, EditOK', ArchiveOK',
         clock' \in 0 .. Horizon, life' \in {"unborn", "live", "gone"}, routine' \in Row,
         archived' \in BOOLEAN, undone' \in BOOLEAN, again' \subseteq Time,
         run' \in Runs, wake' \in Time, sweep' \in Time
  PROVE  TypeInv'
<1>1. RoutineTypeOK'
  BY DEF RoutineTypeOK, Follows, Handler, Runs, ArchiveOK, EditOK
<1>2. faults' \in Nat /\ edits' \in Nat
  BY DEF TypeInv, Budgeted
<1>q. QED BY <1>1, <1>2 DEF TypeInv

(* The parts of the state that most steps leave alone. *)
LEMMA Parts ==
  ASSUME TypeInv
  PROVE  /\ clock \in 0 .. Horizon /\ life \in {"unborn", "live", "gone"} /\ routine \in Row
         /\ archived \in BOOLEAN /\ undone \in BOOLEAN /\ again \subseteq Time
         /\ run \in Runs /\ wake \in Time /\ sweep \in Time /\ EditOK /\ ArchiveOK
         /\ worker \in [Worker -> Handler] /\ faults \in Nat /\ edits \in Nat
         /\ clock \in Nat /\ Slack \in Nat
BY RoutineAssumption DEF TypeInv, RoutineTypeOK, Handler, Runs, ArchiveOK

LEMMA EditKept == EditOK /\ UNCHANGED edit => EditOK'
BY DEF EditOK

LEMMA ArchiveKept == ArchiveOK /\ UNCHANGED archive => ArchiveOK'
BY DEF ArchiveOK

(* What the steps that move neither the row nor the runs do. *)
Quiet ==
  /\ UNCHANGED <<life, routine, run, again>>
  /\ clock' \in {clock, clock + 1}
  /\ Follows

\* The steps of a handler between the statements that move the row.
HandlerWaits(w) ==
  \/ WakeStale(w) \/ WakeEarly(w) \/ ClaimMissed(w) \/ RunEnqueued(w) \/ RunNotEnqueued(w)
  \/ Arm(w) \/ Crash(w)

LEMMA HandlerWaitsStep ==
  ASSUME TypeInv, NEW w \in Worker, HandlerWaits(w)
  PROVE  TypeInv' /\ Quiet /\ UNCHANGED <<requests, undone, edits>>
<1>0. UNCHANGED <<clock, row, run, sweep, requests, history, edits>> /\ Budgeted
  BY Parts DEF HandlerWaits, WakeStale, WakeEarly, ClaimMissed, RunEnqueued, RunNotEnqueued,
               Arm, Crash, Taken, Fault, budget, Budgeted
<1>1. wake \in Time /\ worker \in [Worker -> Handler]
  BY Parts
<1>2. Follows /\ wake' \in Time
  <2>1. CASE WakeStale(w)
    BY <2>1, SameWorkers, Values DEF WakeStale
  <2>2. CASE WakeEarly(w)
    BY <2>2, <1>1, UnkeyedWorkers DEF WakeEarly
  <2>3. CASE ClaimMissed(w)
    BY <2>3, <1>1, IdleWorkers DEF ClaimMissed, Return
  <2>4. CASE RunEnqueued(w)
    BY <2>4, <1>1, MovedWorkers DEF RunEnqueued
  <2>5. CASE RunNotEnqueued(w)
    BY <2>5, <1>1, MovedWorkers DEF RunNotEnqueued
  <2>6. CASE Arm(w)
    <3>1. worker[w].next \in Time
      BY <1>1 DEF Handler
    <3>2. \/ EnqueueAndLeave(w, None) \/ EnqueueAndLeave(w, worker[w].next)
          \/ Return(w)
      BY <2>6 DEF Arm
    <3>q. QED BY <3>1, <3>2, <1>1, LeavingWorkers, IdleWorkers, Values DEF Return
  <2>7. CASE Crash(w)
    BY <2>7, RetriedWorkers DEF Crash
  <2>q. QED BY <2>1, <2>2, <2>3, <2>4, <2>5, <2>6, <2>7 DEF HandlerWaits
<1>3. EditOK' /\ ArchiveOK'
  BY <1>0, Parts, EditKept, ArchiveKept DEF requests
<1>4. TypeInv'
  BY <1>0, <1>2, <1>3, Parts, TypesKept DEF row, requests, history
<1>5. Quiet
  BY <1>0, <1>2 DEF Quiet, row, history
<1>q. QED BY <1>0, <1>4, <1>5 DEF history

\* The clock and the reconciler's scan.
Sweeps == Tick \/ SweepReads \/ SweepEnqueues \/ SweepFails

LEMMA SweepsStep ==
  ASSUME TypeInv, Sweeps
  PROVE  TypeInv' /\ Quiet /\ UNCHANGED <<requests, undone, edits>>
<1>0. UNCHANGED <<row, run, requests, history, edits>> /\ Budgeted
  BY Parts DEF Sweeps, Tick, SweepReads, SweepEnqueues, SweepFails, Fault, budget, Budgeted
<1>1. clock' \in {clock, clock + 1} /\ clock' \in 0 .. Horizon
  BY Parts, RoutineAssumption DEF Sweeps, Tick, SweepReads, SweepEnqueues, SweepFails
<1>2. Follows /\ wake' \in Time
  <2>1. CASE SweepEnqueues
    BY <2>1, Parts, UnkeyedWorkers DEF SweepEnqueues
  <2>2. CASE ~ SweepEnqueues
    BY <2>2, Parts, SameWorkers DEF Sweeps, Tick, SweepReads, SweepFails
  <2>q. QED BY <2>1, <2>2
<1>3. sweep' \in Time
  BY Parts, Values DEF Sweeps, Tick, SweepReads, SweepEnqueues, SweepFails, Row
<1>4. EditOK' /\ ArchiveOK'
  BY <1>0, Parts, EditKept, ArchiveKept DEF requests
<1>5. TypeInv'
  BY <1>0, <1>1, <1>2, <1>3, <1>4, Parts, TypesKept DEF row, requests, history
<1>6. Quiet
  BY <1>0, <1>1, <1>2 DEF Quiet, row, history
<1>q. QED BY <1>0, <1>5, <1>6 DEF history

\* The statements of requests that move neither the row nor the runs.
RequestWaits ==
  \/ RequestSyncs \/ ArchiveReads \/ ArchiveCancels
  \/ \E active \in {None, TRUE, FALSE}, sched \in {None, Once} \cup Period,
        runAt \in {None} \cup (clock + 1 .. Horizon) : UpdateReads(active, sched, runAt)

(* routines.update computes a row of the right types from the one it read. *)
LEMMA UpdateReadsTypes ==
  ASSUME TypeInv, NEW active \in {None, TRUE, FALSE}, NEW sched \in {None, Once} \cup Period,
         NEW runAt \in {None} \cup (clock + 1 .. Horizon), UpdateReads(active, sched, runAt)
  PROVE  EditOK' /\ edit'.pc = "write"
<1> DEFINE crons == IF sched = None THEN routine.sched ELSE sched
<1>1. routine \in Row /\ clock \in Nat /\ runAt \in Time /\ routine.next \in Time
  BY Parts, RoutineAssumption DEF Row, Time
<1>2. NextDate(crons, clock) \in Time
  BY <1>1, NextDateLater
<1>3. \E on, arms, recalculates, changed :
        edit' = [pc |-> "write", active |-> active, sched |-> sched,
                 next |-> IF ~ on THEN None
                          ELSE IF arms THEN runAt
                          ELSE IF recalculates THEN NextDate(crons, clock)
                          ELSE routine.next,
                 before |-> routine, changed |-> changed]
  BY Zenon DEF UpdateReads
<1>4. /\ edit'.pc = "write" /\ edit'.active = active /\ edit'.sched = sched
      /\ edit'.before = routine
      /\ edit'.next \in {None, runAt, NextDate(crons, clock), routine.next}
  BY <1>3
<1>5. active \in BOOLEAN \cup {None} /\ sched \in Schedule \cup {None}
  BY DEF Schedule
<1>q. QED BY <1>1, <1>2, <1>4, <1>5, Values DEF EditOK

\* The requests under way, unless one more has read the routine.
RequestsMove ==
  /\ \/ edits' = edits + 1
     \/ /\ edits' = edits
        /\ UNCHANGED edit \/ edit' = NoEdit
        /\ UNCHANGED archive \/ archive.pc # "none"
  /\ \A r \in archive'.runs : r \in archive.runs \/ ~ Absent(r)

LEMMA RequestWaitsStep ==
  ASSUME TypeInv, RequestWaits
  PROVE  TypeInv' /\ Quiet /\ RequestsMove /\ UNCHANGED undone
<1>0. /\ UNCHANGED <<clock, row, archived, run, sweep, history>> /\ Budgeted
  BY Parts DEF RequestWaits, RequestSyncs, ArchiveReads, ArchiveCancels, UpdateReads, Request,
               budget, Budgeted
<1>1. CASE RequestSyncs
  <2>1. edit.arm \in Time
    BY <1>1, Parts DEF RequestSyncs, EditOK
  <2>2. Follows /\ wake' \in Time
    BY <1>1, <2>1, UnkeyedWorkers DEF RequestSyncs
  <2>3. EditOK' /\ ArchiveOK'
    BY <1>1, Parts, ArchiveKept DEF RequestSyncs, EditOK, NoEdit
  <2>4. RequestsMove
    BY <1>1 DEF RequestSyncs, RequestsMove, budget
  <2>q. QED
    BY <1>0, <2>2, <2>3, <2>4, Parts, TypesKept DEF Quiet, row, history
<1>2. CASE ArchiveReads
  <2>1. Follows /\ UNCHANGED wake
    BY <1>2, SameWorkers DEF ArchiveReads
  <2>2. EditOK' /\ ArchiveOK'
    BY <1>2, Parts, EditKept DEF ArchiveReads, ArchiveOK
  <2>3. RequestsMove
    BY <1>2 DEF ArchiveReads, RequestsMove, Absent
  <2>q. QED
    BY <1>0, <2>1, <2>2, <2>3, Parts, TypesKept DEF Quiet, row, history
<1>3. CASE ArchiveCancels
  <2>1. Follows /\ wake' \in Time
    <3>1. Enqueue(None) \/ UNCHANGED <<wake, worker>>
      BY <1>3 DEF ArchiveCancels
    <3>q. QED BY <3>1, Parts, Values, UnkeyedWorkers, SameWorkers
  <2>2. EditOK' /\ ArchiveOK' /\ archive'.runs = archive.runs
    BY <1>3, Parts, EditKept DEF ArchiveCancels, ArchiveOK
  <2>3. RequestsMove
    BY <1>3, <2>2 DEF ArchiveCancels, RequestsMove, budget
  <2>q. QED
    BY <1>0, <2>1, <2>2, <2>3, Parts, TypesKept DEF Quiet, row, history
<1>4. ASSUME NEW active \in {None, TRUE, FALSE}, NEW sched \in {None, Once} \cup Period,
             NEW runAt \in {None} \cup (clock + 1 .. Horizon),
             UpdateReads(active, sched, runAt)
      PROVE  TypeInv' /\ Quiet /\ RequestsMove /\ UNCHANGED undone
  <2>1. Follows /\ UNCHANGED <<wake, archive>> /\ edits' = edits + 1
    BY <1>4, SameWorkers DEF UpdateReads, Request
  <2>2. EditOK' /\ ArchiveOK'
    BY <1>4, <2>1, Parts, UpdateReadsTypes, ArchiveKept
  <2>3. RequestsMove
    BY <2>1 DEF RequestsMove
  <2>q. QED
    BY <1>0, <2>1, <2>2, <2>3, Parts, TypesKept DEF Quiet, row, history
<1>q. QED BY <1>1, <1>2, <1>3, <1>4 DEF RequestWaits

-----------------------------------------------------------------------------
(* The steps that move the row.                                            *)

LEMMA WakeDueStep ==
  ASSUME TypeInv, NEW w \in Worker, WakeDue(w)
  PROVE  /\ TypeInv' /\ UNCHANGED <<clock, row, run, requests, history, edits>>
         /\ life = "live"
         /\ \A v \in Worker : v # w => worker'[v] = worker[v]
         /\ worker'[w].pc = "claim" /\ worker'[w].for \in 0 .. clock + Slack
         /\ worker'[w].next # None => worker'[w].next > worker'[w].for
<1>1. /\ UNCHANGED <<clock, row, run, sweep, requests, history, budget>>
      /\ wake \in Nat /\ wake <= clock + Slack /\ wake' = None /\ life = "live"
  BY Parts DEF WakeDue, Taken, Due, Time
<1>2. clock \in Nat /\ routine.ran \in BOOLEAN /\ routine.sched \in Schedule
  BY Parts DEF Row
<1> DEFINE next == NextDate(routine.sched, Later(clock, wake))
           h == [pc |-> "claim", for |-> wake, next |-> next, ran |-> routine.ran,
                 run |-> None, sched |-> routine.sched, keyed |-> TRUE]
<1>3. next \in Time /\ (next # None => next \in Nat /\ next > wake)
  <2>1. Later(clock, wake) \in Nat /\ Later(clock, wake) >= wake
    BY <1>1, <1>2, LaterIsLater
  <2> DEFINE t == Later(clock, wake)
  <2>2. t \in Nat /\ t >= wake
    BY <2>1
  <2> HIDE DEF t
  <2>3. /\ NextDate(routine.sched, t) \in Time
        /\ NextDate(routine.sched, t) # None
             => NextDate(routine.sched, t) \in Nat /\ NextDate(routine.sched, t) > t
    BY <2>2, NextDateLater
  <2>q. QED BY <1>1, <2>2, <2>3 DEF t
<1> HIDE DEF next
<1>4. worker' = [worker EXCEPT ![w] = h]
  BY <1>1 DEF WakeDue, next
<1>5. h \in Handler
  <2>1. wake \in Time
    BY <1>1, Values
  <2>q. QED BY <1>2, <1>3, <2>1 DEF Handler
<1>6. worker \in [Worker -> Handler]
  BY Parts
<1>7. worker' \in [Worker -> Handler] /\ worker'[w] = h
  BY <1>4, <1>5, <1>6
<1>8. TypeInv'
  BY <1>1, <1>7, Parts, EditKept, ArchiveKept, Values
  DEF TypeInv, RoutineTypeOK, row, requests, history, budget, Handler, Runs, ArchiveOK
<1>9. \A v \in Worker : v # w => worker'[v] = worker[v]
  BY <1>4, <1>6
<1>q. QED BY <1>1, <1>2, <1>3, <1>7, <1>8, <1>9 DEF budget

LEMMA ClaimStep ==
  ASSUME TypeInv, NEW w \in Worker, NEW r \in Run, Claim(w, r)
  PROVE  /\ TypeInv' /\ UNCHANGED <<clock, life, requests, history, edits>>
         /\ life = "live" /\ routine.active /\ routine.next = worker[w].for
         /\ routine'.next = worker[w].next /\ (routine'.active <=> worker[w].next # None)
         /\ worker[w].pc = "claim" /\ worker'[w].pc = "enqueue" /\ worker'[w].run = r
         /\ worker'[w].for = worker[w].for /\ worker'[w].next = worker[w].next
         /\ \A v \in Worker : v # w => worker'[v] = worker[v]
         /\ run'[r].status = "active" /\ run'[r].occ = routine.next
         /\ \A q \in Run : q # r => run'[q] = run[q]
         /\ r = Cardinality({s \in Run : ~ Absent(s)}) + 1
<1>0. /\ UNCHANGED <<clock, life, wake, sweep, requests, history, budget>>
      /\ life = "live" /\ routine.active /\ routine.next = worker[w].for
      /\ worker[w].pc = "claim" /\ r = Cardinality({s \in Run : ~ Absent(s)}) + 1
  BY DEF Claim, Claimable, Absent
<1>1. worker \in [Worker -> Handler] /\ routine \in Row /\ run \in Runs
  BY Parts
<1>2. worker' = [worker EXCEPT ![w].pc = "enqueue", ![w].run = r]
  BY DEF Claim
<1>3. /\ worker'[w].pc = "enqueue" /\ worker'[w].run = r
      /\ worker'[w].for = worker[w].for /\ worker'[w].next = worker[w].next
      /\ worker' \in [Worker -> Handler]
      /\ \A v \in Worker : v # w => worker'[v] = worker[v]
  BY <1>1, <1>2 DEF Handler
<1>4. /\ routine' = [routine EXCEPT !.next = worker[w].next, !.ran = TRUE,
                                    !.active = @ /\ worker[w].next # None]
      /\ worker[w].next \in Time
  BY <1>1 DEF Claim, Handler
<1>5. /\ routine'.next = worker[w].next /\ (routine'.active <=> worker[w].next # None)
      /\ routine' \in Row
  <2>1. \E b \in BOOLEAN : /\ b <=> worker[w].next # None
                           /\ routine' = [routine EXCEPT !.next = worker[w].next,
                                                         !.ran = TRUE, !.active = b]
    BY <1>0, <1>4
  <2>2. PICK b \in BOOLEAN : /\ b <=> worker[w].next # None
                             /\ routine' = [routine EXCEPT !.next = worker[w].next,
                                                           !.ran = TRUE, !.active = b]
    BY <2>1
  <2>3. routine'.next = worker[w].next /\ routine'.active = b /\ routine' \in Row
    BY <1>1, <1>4, <2>2 DEF Row
  <2>q. QED BY <2>2, <2>3
<1>6. /\ run'[r].status = "active" /\ run'[r].occ = routine.next /\ run' \in Runs
      /\ \A q \in Run : q # r => run'[q] = run[q]
  BY <1>1 DEF Claim, Row, Runs
<1>7. TypeInv'
  BY <1>0, <1>3, <1>5, <1>6, Parts, EditKept, ArchiveKept, Values
  DEF TypeInv, RoutineTypeOK, requests, history, budget, Handler, Runs, ArchiveOK
<1>q. QED BY <1>0, <1>3, <1>5, <1>6, <1>7 DEF budget

\* Run q, or none, is deleted.
DeletesOnly(q) ==
  \A r \in Run : \/ run'[r] = run[r]
                 \/ r = q /\ run'[r].status = "deleted" /\ run'[r].occ = run[r].occ
                    /\ ~ Absent(r)

LEMMA PutBackTypes ==
  ASSUME NEW t \in Time, again \subseteq Time, again' = PutBack(t)
  PROVE  again' \subseteq Time /\ again \subseteq again'
         /\ \A r \in Run : Stands(r)' /\ run'[r].occ >= t => t \in again'
BY DEF PutBack

LEMMA RestoreStep ==
  ASSUME TypeInv, NEW w \in Worker, Restore(w)
  PROVE  /\ TypeInv' /\ UNCHANGED <<clock, life, requests, undone, edits>>
         /\ Follows /\ worker'[w].pc = "idle" /\ worker[w].pc = "restore"
         /\ DeletesOnly(worker[w].run)
         /\ Restorable(w) => /\ routine'.next = worker[w].for /\ routine'.active
                             /\ again' = PutBack(worker[w].for)
         /\ ~ Restorable(w) => UNCHANGED <<routine, again>>
<1>0. /\ UNCHANGED <<clock, life, sweep, requests, undone, budget>>
      /\ worker[w].pc = "restore" /\ Retry(w)
      /\ again' = IF Restorable(w) THEN PutBack(worker[w].for) ELSE again
  BY DEF Restore
<1>1. worker \in [Worker -> Handler] /\ routine \in Row /\ run \in Runs
  BY Parts
<1>2. Follows /\ wake' \in Time /\ worker'[w].pc = "idle"
  BY <1>0, <1>1, RetriedWorkers, Values DEF Retry
<1>3. worker[w] \in Handler /\ worker[w].for \in Time /\ worker[w].ran \in BOOLEAN
  BY <1>1 DEF Handler
<1>4. /\ Restorable(w) => routine'.next = worker[w].for /\ routine'.active
      /\ ~ Restorable(w) => routine' = routine
      /\ routine' \in Row
  <2>1. routine' = IF Restorable(w)
                   THEN [routine EXCEPT !.next = worker[w].for, !.active = TRUE,
                                        !.ran = worker[w].ran]
                   ELSE routine
    BY DEF Restore
  <2>2. CASE Restorable(w)
    <3>1. routine' = [routine EXCEPT !.next = worker[w].for, !.active = TRUE,
                                     !.ran = worker[w].ran]
      BY <2>1, <2>2
    <3>2. routine' \in Row /\ routine'.next = worker[w].for /\ routine'.active = TRUE
      BY <1>1, <1>3, <3>1 DEF Row
    <3>q. QED BY <2>2, <3>2
  <2>3. CASE ~ Restorable(w)
    BY <1>1, <2>1, <2>3
  <2>q. QED BY <2>2, <2>3
<1>5. DeletesOnly(worker[w].run) /\ run' \in Runs
  <2>1. \/ run' = run
        \/ /\ run[worker[w].run].status = "active"
           /\ run' = [run EXCEPT ![worker[w].run].status = "deleted"]
    BY DEF Restore
  <2>q. QED BY <1>1, <2>1 DEF DeletesOnly, Runs, Absent
<1>6. again' \subseteq Time
  BY <1>0, <1>3, Parts, PutBackTypes
<1>7. TypeInv'
  BY <1>0, <1>2, <1>4, <1>5, <1>6, Parts, EditKept, ArchiveKept
  DEF TypeInv, RoutineTypeOK, requests, budget, Handler, Runs, ArchiveOK, Follows
<1>q. QED BY <1>0, <1>2, <1>4, <1>5, <1>7 DEF budget

Creates == CreateRoutine \/ CreateSchedule

LEMMA CreatesStep ==
  ASSUME TypeInv, Creates
  PROVE  /\ TypeInv' /\ Follows /\ UNCHANGED <<clock, run, worker, archive, history, edits>>
         /\ life = "unborn" /\ life' = "live" /\ routine'.active /\ routine'.next # None
         /\ edit'.pc = "sync"
<1>1. clock \in Nat
  BY Parts
<1>2. PICK s \in Schedule, t \in Nat, tool \in BOOLEAN : Born(s, t, tool)
  <2>1. ASSUME NEW s \in Period, NEW tool \in BOOLEAN, Born(s, NextDate(s, clock), tool)
        PROVE  \E p \in Schedule, t \in Nat, b \in BOOLEAN : Born(p, t, b)
    <3>1. NextDate(s, clock) \in Nat /\ s \in Schedule
      BY <1>1, NextDateLater, Values
    <3>q. QED BY <2>1, <3>1
  <2>2. ASSUME NEW t \in clock + 1 .. Horizon, Born(Once, t, TRUE)
        PROVE  \E p \in Schedule, q \in Nat, b \in BOOLEAN : Born(p, q, b)
    <3>1. t \in Nat /\ TRUE \in BOOLEAN
      BY <1>1, RoutineAssumption
    <3>q. QED BY <2>2, <3>1, Values
  <2>q. QED BY <2>1, <2>2 DEF Creates, CreateRoutine, CreateSchedule
<1>3. /\ routine' = [active |-> TRUE, sched |-> s, next |-> t, ran |-> FALSE]
      /\ edit' = [pc |-> "sync", arm |-> t, tool |-> tool]
      /\ life = "unborn" /\ life' = "live"
      /\ UNCHANGED <<clock, archived, run, wake, worker, sweep, archive, history, budget>>
  BY <1>2 DEF Born, Sync
<1>4. t \in Time /\ t # None
  BY Values, NoneIsNoTime
<1>5. routine' \in Row /\ routine'.active /\ routine'.next # None
  <2>1. routine' \in Row
    BY <1>3, <1>4 DEF Row
  <2>2. routine'.active = TRUE /\ routine'.next = t
    BY <1>3
  <2>q. QED BY <1>4, <2>1, <2>2
<1>6. EditOK' /\ edit'.pc = "sync"
  BY <1>3, <1>4 DEF EditOK
<1>7. Follows
  BY <1>3, SameWorkers
<1>8. TypeInv'
  BY <1>3, <1>5, <1>6, <1>7, Parts, ArchiveKept, TypesKept DEF history, budget, Budgeted
<1>q. QED BY <1>3, <1>5, <1>6, <1>7, <1>8 DEF budget

(* routines.update writes nextRunAt over whatever the row is by then. *)
LEMMA UpdateWritesStep ==
  ASSUME TypeInv, UpdateWrites
  PROVE  /\ TypeInv' /\ Follows
         /\ UNCHANGED <<clock, life, run, worker, archive, undone, edits>>
         /\ edit.pc = "write" /\ edit'.pc # "write" /\ routine'.next = edit.next
         /\ routine'.next # None => again' = PutBack(routine'.next)
         /\ routine'.next = None => UNCHANGED again
<1>1. /\ UNCHANGED <<clock, life, archived, run, wake, worker, sweep, archive, undone, budget>>
      /\ edit.pc = "write" /\ life = "live" /\ routine' = Updated
      /\ again' = IF edit.next # None THEN PutBack(edit.next) ELSE again
  BY DEF UpdateWrites
<1>2. /\ edit.active \in BOOLEAN \cup {None} /\ edit.sched \in Schedule \cup {None}
      /\ edit.next \in Time /\ edit.before \in Row /\ routine \in Row
  BY <1>1, Parts DEF EditOK
<1>3. Updated \in Row /\ Updated.next = edit.next
  <2>1. PICK b \in BOOLEAN, s \in Schedule :
             Updated = [routine EXCEPT !.active = b, !.sched = s, !.next = edit.next]
    <3>1. routine.active \in BOOLEAN /\ routine.sched \in Schedule
      BY <1>2 DEF Row
    <3>2. Updated = [routine EXCEPT
                      !.active = IF edit.active = None THEN routine.active ELSE edit.active,
                      !.sched = IF edit.sched = None THEN routine.sched ELSE edit.sched,
                      !.next = edit.next]
      BY Zenon DEF Updated
    <3>3. (IF edit.sched = None THEN routine.sched ELSE edit.sched) \in Schedule
      BY <1>2, <3>1
    <3>4. (IF edit.active = None THEN routine.active ELSE edit.active) \in BOOLEAN
      BY <1>2, <3>1, Zenon
    <3>q. QED BY <3>2, <3>3, <3>4, Zenon
  <2>q. QED BY <1>2, <2>1 DEF Row
<1>4. Updated.next \in Time
  BY <1>2, <1>3
<1>5. EditOK' /\ edit'.pc # "write"
  <2>1. PICK t \in Time : edit' = NoEdit \/ edit' = [pc |-> "sync", arm |-> t, tool |-> FALSE]
    <3>1. \/ edit' = NoEdit
          \/ edit' = [pc |-> "sync", arm |-> IF Updated.active THEN Updated.next ELSE None,
                      tool |-> FALSE]
      BY Zenon DEF UpdateWrites, Sync
    <3>2. (IF Updated.active THEN Updated.next ELSE None) \in Time
      BY <1>4, Values
    <3>q. QED BY <3>1, <3>2
  <2>2. CASE edit' = NoEdit
    BY <2>2 DEF EditOK, NoEdit
  <2>3. CASE edit' = [pc |-> "sync", arm |-> t, tool |-> FALSE]
    <3>1. edit'.pc = "sync" /\ edit'.arm = t /\ edit'.tool = FALSE
      BY <2>3
    <3>q. QED BY <3>1 DEF EditOK
  <2>q. QED BY <2>1, <2>2, <2>3
<1>6. Follows
  BY <1>1, SameWorkers
<1>7. again' \subseteq Time
  BY <1>1, <1>2, Parts, PutBackTypes
<1>8. TypeInv'
  BY <1>1, <1>3, <1>5, <1>6, <1>7, Parts, ArchiveKept, TypesKept DEF budget, Budgeted
<1>q. QED BY <1>1, <1>3, <1>5, <1>6, <1>8 DEF budget

\* The row goes, or is paused with no time; runs that an archive read are cancelled.
Ends ==
  /\ run' \in Runs
  /\ \A r \in Run :
       \/ run'[r] = run[r]
       \/ /\ r \in archive.runs /\ run[r].status # "deleted"
          /\ run'[r].status = "cancelled" /\ run'[r].occ = run[r].occ
  /\ UNCHANGED again
  /\ \/ routine' \in Row /\ ~ routine'.active /\ routine'.next = None
     \/ UNCHANGED routine
  /\ life' # "unborn" \/ UNCHANGED life

EndsStep == Remove \/ RequestFails \/ ArchiveCommits

LEMMA PausedRow ==
  ASSUME NEW q \in Row
  PROVE  LET p == [q EXCEPT !.active = FALSE, !.next = None]
         IN  p \in Row /\ ~ p.active /\ p.next = None
<1> DEFINE p == [q EXCEPT !.active = FALSE, !.next = None]
<1>1. p.active = FALSE /\ p.next = None
  BY DEF Row
<1>2. p \in Row
  BY Values DEF Row
<1>q. QED BY <1>1, <1>2

LEMMA EndsStepEffect ==
  ASSUME TypeInv, EndsStep
  PROVE  /\ TypeInv' /\ Follows /\ Ends /\ UNCHANGED <<clock, worker, archive>>
         /\ edit' # edit => edit'.pc # "write"
         /\ undone => undone' = TRUE
         /\ \/ edits' = edits + 1
            \/ undone' = TRUE
            \/ archive.pc # "none" /\ edits' = edits
            \/ UNCHANGED <<routine, run, life, edits, undone>>
<1>0. UNCHANGED <<clock, wake, worker, sweep, archive, again>> /\ Follows
  BY SameWorkers DEF EndsStep, Remove, RequestFails, ArchiveCommits, history
<1>1. CASE Remove
  <2>1. /\ UNCHANGED <<routine, archived, run, history>> /\ Budgeted
        /\ life' = "gone" /\ edits' = edits + 1
        /\ edit' = [pc |-> "sync", arm |-> None, tool |-> FALSE]
    BY <1>1, Parts DEF Remove, Request, Sync, Budgeted
  <2>2. EditOK' /\ edit'.pc # "write"
    <3>1. edit'.pc = "sync" /\ edit'.arm = None /\ edit'.tool = FALSE
      BY <2>1
    <3>q. QED BY <3>1, Values DEF EditOK
  <2>3. TypeInv'
    BY <1>0, <2>1, <2>2, Parts, ArchiveKept, TypesKept DEF history
  <2>4. Ends
    BY <1>0, <2>1, Parts DEF Ends
  <2>5. undone => undone' = TRUE
    BY <2>1, Parts DEF history
  <2>q. QED BY <1>0, <2>1, <2>2, <2>3, <2>4, <2>5
<1>2. CASE RequestFails
  <2>1. /\ UNCHANGED <<archived, run, edits>> /\ Budgeted
        /\ edit' = NoEdit /\ undone' = (undone \/ edit.tool) /\ edit.pc = "sync"
        /\ \/ edit.tool /\ life' = "gone" /\ UNCHANGED routine
           \/ /\ edit.tool /\ UNCHANGED life
              /\ routine' = [routine EXCEPT !.active = FALSE, !.next = None]
           \/ ~ edit.tool /\ UNCHANGED row
    BY <1>2, Parts DEF RequestFails, Fault, Budgeted
  <2>2. EditOK' /\ edit'.pc # "write"
    BY <2>1 DEF EditOK, NoEdit
  <2>3. undone \in BOOLEAN /\ edit.tool \in BOOLEAN /\ routine \in Row
    BY <2>1, Parts DEF EditOK
  <2>4. /\ undone' \in BOOLEAN /\ (undone => undone' = TRUE) /\ (edit.tool => undone' = TRUE)
        /\ ~ edit.tool => undone' = undone
    BY <2>1, <2>3, Zenon
  <2>5. routine' \in Row
    BY <2>1, <2>3, PausedRow DEF row
  <2>6. TypeInv'
    BY <1>0, <2>1, <2>2, <2>4, <2>5, Parts, ArchiveKept, TypesKept DEF row
  <2>7. Ends
    BY <1>0, <2>1, <2>3, Parts, PausedRow DEF Ends, row
  <2>8. undone' = TRUE \/ UNCHANGED <<routine, run, life, edits, undone>>
    BY <2>1, <2>4 DEF row
  <2>q. QED BY <1>0, <2>2, <2>4, <2>6, <2>7, <2>8
<1>3. CASE ArchiveCommits
  <2>1. /\ UNCHANGED <<life, edit, undone, edits>> /\ Budgeted /\ archived' = TRUE
        /\ archive.pc # "none"
        /\ routine' = IF life = "live" THEN [routine EXCEPT !.active = FALSE, !.next = None]
                      ELSE routine
        /\ run' = [r \in Run |-> IF r \in archive.runs /\ run[r].status # "deleted"
                                 THEN [run[r] EXCEPT !.status = "cancelled"] ELSE run[r]]
    BY <1>3, Parts DEF ArchiveCommits, history, budget, Budgeted
  <2>2. routine' \in Row /\ (\/ ~ routine'.active /\ routine'.next = None
                             \/ UNCHANGED routine)
    BY <2>1, Parts, PausedRow
  <2>3. run \in Runs
    BY Parts
  <2>4. /\ run' \in Runs
        /\ \A r \in Run :
             \/ run'[r] = run[r]
             \/ /\ r \in archive.runs /\ run[r].status # "deleted"
                /\ run'[r].status = "cancelled" /\ run'[r].occ = run[r].occ
    BY <2>1, <2>3 DEF Runs
  <2>5. Ends
    BY <1>0, <2>1, <2>2, <2>4 DEF Ends
  <2>6. archived' \in BOOLEAN
    BY <2>1, Zenon
  <2>7. TypeInv'
    BY <1>0, <2>1, <2>2, <2>4, <2>6, Parts, EditKept, ArchiveKept, TypesKept
  <2>8. undone => undone' = TRUE
    BY <2>1, Parts
  <2>q. QED BY <1>0, <2>1, <2>5, <2>7, <2>8
<1>q. QED BY <1>1, <1>2, <1>3 DEF EndsStep

(* Every step is one of the steps above. *)
LEMMA Steps ==
  ASSUME [Next]_vars
  PROVE  \/ \E w \in Worker : \/ HandlerWaits(w) \/ WakeDue(w) \/ Restore(w)
                              \/ \E r \in Run : Claim(w, r)
         \/ Sweeps \/ RequestWaits \/ Creates \/ UpdateWrites \/ EndsStep
         \/ UNCHANGED vars
BY DEF Next, Faulty, Requests, WakeRoutine, HandlerWaits, Sweeps, RequestWaits, Creates, EndsStep

LEMMA StutterStep ==
  ASSUME TypeInv, UNCHANGED vars
  PROVE  TypeInv' /\ Quiet /\ UNCHANGED <<requests, undone, edits>>
<1>1. TypeInv'
  BY DEF vars, TypeInv, RoutineTypeOK, EditOK
<1>2. Follows
  BY SameWorkers DEF vars
<1>q. QED BY <1>1, <1>2 DEF vars, Quiet, requests

(* What a step does, whichever it is. *)
QuietStep == Quiet /\ RequestsMove /\ UNCHANGED undone

LEMMA QuietRequests ==
  ASSUME UNCHANGED <<requests, undone, edits>>
  PROVE  RequestsMove
BY DEF requests, RequestsMove

LEMMA StepEffects ==
  ASSUME TypeInv, [Next]_vars
  PROVE  /\ TypeInv'
         /\ \/ QuietStep
            \/ \E w \in Worker : WakeDue(w) \/ Restore(w) \/ \E r \in Run : Claim(w, r)
            \/ Creates \/ UpdateWrites \/ EndsStep
<1>1. CASE \E w \in Worker : HandlerWaits(w)
  BY <1>1, HandlerWaitsStep, QuietRequests DEF QuietStep
<1>2. CASE Sweeps
  BY <1>2, SweepsStep, QuietRequests DEF QuietStep
<1>3. CASE RequestWaits
  BY <1>3, RequestWaitsStep DEF QuietStep
<1>4. CASE UNCHANGED vars
  BY <1>4, StutterStep, QuietRequests DEF QuietStep
<1>5. CASE \E w \in Worker : WakeDue(w) \/ Restore(w) \/ \E r \in Run : Claim(w, r)
  BY <1>5, WakeDueStep, RestoreStep, ClaimStep
<1>6. CASE Creates \/ UpdateWrites \/ EndsStep
  BY <1>6, CreatesStep, UpdateWritesStep, EndsStepEffect
<1>q. QED BY <1>1, <1>2, <1>3, <1>4, <1>5, <1>6, Steps

-----------------------------------------------------------------------------
(* What handlers and runs hold.                                            *)

\* Runs that exist go on existing, and are of the occurrence they were made for.
RunsStay == \A r \in Run : ~ Absent(r) => ~ Absent(r)' /\ run'[r].occ = run[r].occ

LEMMA HandlersFollow ==
  ASSUME TypeInv, HandlersHold, NEW w \in Worker, worker'[w].pc = "idle" \/ Kept(w),
         clock' \in {clock, clock + 1}, RunsStay
  PROVE  worker'[w].pc # "idle" =>
           /\ worker'[w].for \in 0 .. clock' + Slack
           /\ worker'[w].next # None => worker'[w].next > worker'[w].for
           /\ Open(w)' => worker'[w].run # None /\ ~ Absent(worker[w].run)'
                          /\ run'[worker'[w].run].occ = worker'[w].for
<1> SUFFICES ASSUME worker'[w].pc # "idle", Kept(w)
    PROVE  /\ worker'[w].for \in 0 .. clock' + Slack
           /\ worker'[w].next # None => worker'[w].next > worker'[w].for
           /\ Open(w)' => worker'[w].run # None /\ ~ Absent(worker[w].run)'
                          /\ run'[worker'[w].run].occ = worker'[w].for
  OBVIOUS
<1>1. /\ worker'[w].for = worker[w].for /\ worker'[w].next = worker[w].next
      /\ worker'[w].run = worker[w].run /\ worker[w].pc # "idle"
  BY DEF Kept
<1>2. /\ worker[w].for \in 0 .. clock + Slack
      /\ worker[w].next # None => worker[w].next > worker[w].for
  BY <1>1 DEF HandlersHold
<1>3. worker[w].for \in 0 .. clock' + Slack
  BY <1>2, Parts
<1>4. ASSUME Open(w)'
      PROVE  worker'[w].run # None /\ ~ Absent(worker[w].run)'
             /\ run'[worker'[w].run].occ = worker'[w].for
  <2>1. Open(w)
    BY <1>1, <1>4 DEF Kept, Open
  <2>2. /\ worker[w].run # None /\ ~ Absent(worker[w].run)
        /\ run[worker[w].run].occ = worker[w].for
    BY <1>1, <2>1 DEF HandlersHold
  <2>3. PICK r \in Run : r = worker[w].run
    BY <2>2, Parts DEF Handler
  <2>4. ~ Absent(r) /\ run[r].occ = worker[w].for /\ worker'[w].run = r
    BY <1>1, <2>2, <2>3
  <2>5. run'[r].status # "absent" /\ run'[r].occ = worker[w].for
    BY <2>4 DEF RunsStay, Absent
  <2>q. QED BY <1>1, <2>2, <2>4, <2>5 DEF Absent
<1>q. QED BY <1>1, <1>2, <1>3, <1>4

\* No run appears.
SameRuns == \A r \in Run : (Absent(r)' <=> Absent(r)) /\ run'[r].occ = run[r].occ

LEMMA SameRunsHold ==
  ASSUME TypeInv, RunsHold, InOrder, SameRuns, clock' \in {clock, clock + 1},
         \A r \in archive'.runs : r \in archive.runs \/ ~ Absent(r),
         archive'.runs \subseteq Run,
         life' # "unborn" \/ (UNCHANGED life /\ \A w \in Worker : worker'[w].pc = "idle" \/ Kept(w))
  PROVE  RunsHold' /\ InOrder' /\ RunsStay
<1>1. \A r \in Run : ~ Absent(r)' => run'[r].occ \in 0 .. clock' + Slack
  BY Parts DEF RunsHold, SameRuns
<1>2. \A r \in archive'.runs : ~ Absent(r)'
  BY Parts DEF RunsHold, SameRuns, ArchiveOK
<1>3. life' = "unborn" => /\ \A r \in Run : Absent(r)'
                          /\ \A w \in Worker : worker'[w].pc = "idle"
  BY DEF RunsHold, SameRuns, Kept
<1>4. InOrder'
  BY DEF InOrder, SameRuns
<1>5. RunsHold'
  BY <1>1, <1>2, <1>3 DEF RunsHold
<1>q. QED BY <1>4, <1>5 DEF SameRuns, RunsStay

LEMMA CardinalityOfFirst ==
  ASSUME NEW n \in 0 .. MaxRuns, \A r \in Run : Absent(r) <=> r > n
  PROVE  Cardinality({s \in Run : ~ Absent(s)}) = n
<1>1. {s \in Run : ~ Absent(s)} = 1 .. n
  BY RoutineAssumption DEF Run
<1>2. Cardinality(1 .. n) = n
  BY RoutineAssumption, FS_Interval
<1>q. QED BY <1>1, <1>2

(* A claim makes the first run that does not exist yet. *)
LEMMA ClaimIsNext ==
  ASSUME TypeInv, InOrder, NEW w \in Worker, NEW r \in Run, Claim(w, r)
  PROVE  Absent(r) /\ Last(r) /\ InOrder' /\ RunsStay
<1>1. PICK n \in 0 .. MaxRuns : \A s \in Run : Absent(s) <=> s > n
  BY DEF InOrder
<1>2. r = n + 1
  BY <1>1, ClaimStep, CardinalityOfFirst
<1>3. /\ run'[r].status = "active"
      /\ \A q \in Run : q # r => run'[q] = run[q]
  BY ClaimStep
<1>4. Absent(r) /\ Last(r)
  BY <1>1, <1>2 DEF Last, Run
<1>5. n + 1 \in 0 .. MaxRuns
  BY <1>2, RoutineAssumption DEF Run
<1>6. \A s \in Run : Absent(s)' <=> s > n + 1
  BY <1>1, <1>2, <1>3 DEF Absent, Run
<1>7. InOrder'
  BY <1>5, <1>6 DEF InOrder
<1>8. RunsStay
  BY <1>3, <1>4 DEF RunsStay, Absent
<1>q. QED BY <1>4, <1>7, <1>8

LEMMA BaseStep ==
  ASSUME TypeInv, BaseInv, [Next]_vars
  PROVE  BaseInv'
<1>0. HandlersHold /\ RunsHold /\ InOrder /\ TypeInv'
  BY StepEffects DEF BaseInv
<1>a. ASSUME Follows, clock' \in {clock, clock + 1}, RunsStay
      PROVE  HandlersHold'
  <2>1. ASSUME NEW w \in Worker
        PROVE  worker'[w].pc # "idle" =>
                 /\ worker'[w].for \in 0 .. clock' + Slack
                 /\ worker'[w].next # None => worker'[w].next > worker'[w].for
                 /\ Open(w)' => worker'[w].run # None /\ ~ Absent(worker[w].run)'
                                /\ run'[worker'[w].run].occ = worker'[w].for
    BY <1>0, <1>a, HandlersFollow DEF Follows
  <2>q. QED BY <2>1 DEF HandlersHold
<1>b. archive'.runs \subseteq Run
  BY <1>0 DEF TypeInv, RoutineTypeOK
<1>1. CASE QuietStep
  <2>1. /\ SameRuns /\ Follows /\ clock' \in {clock, clock + 1} /\ UNCHANGED life
        /\ \A r \in archive'.runs : r \in archive.runs \/ ~ Absent(r)
    BY <1>1 DEF QuietStep, Quiet, SameRuns, RequestsMove, Absent
  <2>2. RunsHold' /\ InOrder' /\ RunsStay
    BY <1>0, <1>b, <2>1, SameRunsHold DEF Follows
  <2>q. QED BY <1>a, <2>1, <2>2 DEF BaseInv
<1>2. ASSUME NEW w \in Worker, WakeDue(w) PROVE BaseInv'
  <2>1. /\ UNCHANGED <<clock, row, run, requests, history, edits>> /\ life = "live"
        /\ \A v \in Worker : v # w => worker'[v] = worker[v]
        /\ worker'[w].pc = "claim" /\ worker'[w].for \in 0 .. clock + Slack
        /\ worker'[w].next # None => worker'[w].next > worker'[w].for
    BY <1>2, WakeDueStep
  <2>2. SameRuns /\ life' # "unborn" /\ clock' \in {clock, clock + 1}
        /\ \A r \in archive'.runs : r \in archive.runs \/ ~ Absent(r)
    BY <2>1 DEF SameRuns, row, requests, Absent
  <2>3. RunsHold' /\ InOrder' /\ RunsStay
    BY <1>0, <1>b, <2>2, SameRunsHold
  <2>4. \A v \in Worker : v # w => Kept(v)
    BY <2>1 DEF Kept
  <2>5. HandlersHold'
    <3>1. ~ Open(w)'
      BY <2>1 DEF Open
    <3>2. ASSUME NEW v \in Worker
          PROVE  worker'[v].pc # "idle" =>
                   /\ worker'[v].for \in 0 .. clock' + Slack
                   /\ worker'[v].next # None => worker'[v].next > worker'[v].for
                   /\ Open(v)' => worker'[v].run # None /\ ~ Absent(worker[v].run)'
                                  /\ run'[worker'[v].run].occ = worker'[v].for
      <4>1. CASE v = w
        BY <2>1, <3>1, <4>1
      <4>2. CASE v # w
        BY <1>0, <2>2, <2>3, <2>4, <4>2, HandlersFollow
      <4>q. QED BY <4>1, <4>2
    <3>q. QED BY <3>2 DEF HandlersHold
  <2>q. QED BY <2>3, <2>5 DEF BaseInv
<1>3. ASSUME NEW w \in Worker, NEW r \in Run, Claim(w, r) PROVE BaseInv'
  <2>1. /\ UNCHANGED <<clock, life, requests, history, edits>>
        /\ life = "live" /\ routine.next = worker[w].for
        /\ worker[w].pc = "claim" /\ worker'[w].pc = "enqueue" /\ worker'[w].run = r
        /\ worker'[w].for = worker[w].for /\ worker'[w].next = worker[w].next
        /\ \A v \in Worker : v # w => worker'[v] = worker[v]
        /\ run'[r].status = "active" /\ run'[r].occ = routine.next
        /\ \A q \in Run : q # r => run'[q] = run[q]
    BY <1>3, ClaimStep
  <2>2. InOrder' /\ RunsStay
    BY <1>0, <1>3, ClaimIsNext
  <2>3. /\ worker[w].for \in 0 .. clock + Slack
        /\ worker[w].next # None => worker[w].next > worker[w].for
    BY <1>0, <2>1 DEF HandlersHold
  <2>4. RunsHold'
    <3>1. \A q \in Run : ~ Absent(q)' => run'[q].occ \in 0 .. clock' + Slack
      BY <1>0, <2>1, <2>3 DEF RunsHold, Absent
    <3>2. \A q \in archive'.runs : ~ Absent(q)'
      BY <1>0, <1>b, <2>1 DEF RunsHold, Absent, requests
    <3>q. QED BY <2>1, <3>1, <3>2 DEF RunsHold
  <2>5. ASSUME NEW v \in Worker
        PROVE  worker'[v].pc # "idle" =>
                 /\ worker'[v].for \in 0 .. clock' + Slack
                 /\ worker'[v].next # None => worker'[v].next > worker'[v].for
                 /\ Open(v)' => worker'[v].run # None /\ ~ Absent(worker[v].run)'
                                /\ run'[worker'[v].run].occ = worker'[v].for
    <3>1. CASE v = w
      BY <2>1, <2>3, <3>1, NoneIsNoTime DEF Absent
    <3>2. CASE v # w
      <4>1. Kept(v) /\ clock' \in {clock, clock + 1}
        BY <2>1, <3>2 DEF Kept
      <4>q. QED BY <1>0, <2>2, <4>1, HandlersFollow
    <3>q. QED BY <3>1, <3>2
  <2>6. HandlersHold'
    BY <2>5 DEF HandlersHold
  <2>q. QED BY <2>2, <2>4, <2>6 DEF BaseInv
<1>4. ASSUME NEW w \in Worker, Restore(w) PROVE BaseInv'
  <2>1. /\ UNCHANGED <<clock, life, requests>> /\ Follows /\ DeletesOnly(worker[w].run)
    BY <1>4, RestoreStep
  <2>2. /\ SameRuns /\ clock' \in {clock, clock + 1} /\ UNCHANGED life
        /\ \A r \in archive'.runs : r \in archive.runs \/ ~ Absent(r)
    BY <2>1 DEF SameRuns, DeletesOnly, requests, Absent
  <2>3. RunsHold' /\ InOrder' /\ RunsStay
    BY <1>0, <1>b, <2>1, <2>2, SameRunsHold DEF Follows
  <2>q. QED BY <1>a, <2>1, <2>2, <2>3 DEF BaseInv
<1>5. CASE Creates \/ UpdateWrites
  <2>1. /\ UNCHANGED <<clock, run, worker, archive>> /\ Follows
        /\ life' # "unborn" \/ UNCHANGED life
    BY <1>5, CreatesStep, UpdateWritesStep
  <2>2. /\ SameRuns /\ clock' \in {clock, clock + 1}
        /\ \A r \in archive'.runs : r \in archive.runs \/ ~ Absent(r)
    BY <2>1 DEF SameRuns, Absent
  <2>3. RunsHold' /\ InOrder' /\ RunsStay
    BY <1>0, <1>b, <2>1, <2>2, SameRunsHold DEF Follows
  <2>q. QED BY <1>a, <2>1, <2>2, <2>3 DEF BaseInv
<1>6. CASE EndsStep
  <2>1. Follows /\ Ends /\ UNCHANGED <<clock, worker, archive>>
    BY <1>6, EndsStepEffect
  <2>2. /\ SameRuns /\ clock' \in {clock, clock + 1}
        /\ life' # "unborn" \/ UNCHANGED life
        /\ \A r \in archive'.runs : r \in archive.runs \/ ~ Absent(r)
    BY <1>0, <2>1 DEF SameRuns, Ends, RunsHold, Absent
  <2>3. RunsHold' /\ InOrder' /\ RunsStay
    BY <1>0, <1>b, <2>1, <2>2, SameRunsHold DEF Follows
  <2>q. QED BY <1>a, <2>1, <2>2, <2>3 DEF BaseInv
<1>q. QED BY <1>1, <1>2, <1>3, <1>4, <1>5, <1>6, StepEffects

LEMMA InitBase == Init => BaseInv
<1> SUFFICES ASSUME Init PROVE BaseInv
  OBVIOUS
<1>1. \A r \in Run : Absent(r)
  BY DEF Init, NoRun, Absent
<1>2. \A w \in Worker : worker[w].pc = "idle"
  BY Values DEF Init
<1>3. archive.runs = {}
  BY DEF Init, NoArchive
<1>4. InOrder
  BY <1>1, RoutineAssumption DEF InOrder, Run
<1>q. QED BY <1>1, <1>2, <1>3, <1>4 DEF BaseInv, HandlersHold, RunsHold

LEMMA BaseInvariant == Spec => [](TypeInv /\ BaseInv)
<1>1. Init => TypeInv /\ BaseInv
  BY InitType, InitBase
<1>2. TypeInv /\ BaseInv /\ [Next]_vars => (TypeInv /\ BaseInv)'
  BY StepEffects, BaseStep
<1>q. QED BY <1>1, <1>2, PTL DEF Spec

-----------------------------------------------------------------------------
(* One run for an occurrence.                                              *)

(* Where nextRunAt is put back, a run of that time or of a later one is recorded. *)
LEMMA PutBackCovers ==
  ASSUME TypeInv, BaseInv', NEW t \in Nat, routine'.next = t, again' = PutBack(t)
  PROVE  FiresForward' /\ again \subseteq again'
<1>1. again \subseteq again' /\ \A r \in Run : Stands(r)' /\ run'[r].occ >= t => t \in again'
  BY DEF PutBack
<1>2. ASSUME NEW r \in Run, Stands(r)'
      PROVE  routine'.next > run'[r].occ \/ \E u \in again' : u <= run'[r].occ
  <2>1. ~ Absent(r)'
    BY <1>2 DEF Stands, Absent
  <2>2. run'[r].occ \in Int
    BY <2>1 DEF BaseInv, RunsHold
  <2>q. QED BY <1>1, <1>2, <2>2
<1>q. QED BY <1>1, <1>2 DEF FiresForward, Covered

(* Where the row is not moved back, the runs that stand are behind it. *)
LEMMA StandingStays ==
  ASSUME FiresForward, UNCHANGED again,
         \A r \in Run : Stands(r)' => Stands(r) /\ run'[r].occ = run[r].occ,
         routine'.next = None \/ routine'.next = routine.next
  PROVE  FiresForward'
BY DEF FiresForward, Covered

LEMMA ForwardStep ==
  ASSUME TypeInv, BaseInv, FiresForward, [Next]_vars
  PROVE  FiresForward'
<1>0. TypeInv' /\ BaseInv'
  BY StepEffects, BaseStep
<1>1. CASE QuietStep
  BY <1>1, StandingStays DEF QuietStep, Quiet, Stands
<1>2. ASSUME NEW w \in Worker, WakeDue(w) PROVE FiresForward'
  BY <1>2, WakeDueStep, StandingStays DEF Stands, row, history
<1>3. ASSUME NEW w \in Worker, NEW r \in Run, Claim(w, r) PROVE FiresForward'
  <2>1. /\ UNCHANGED again /\ worker[w].pc = "claim"
        /\ routine.next = worker[w].for /\ routine'.next = worker[w].next
        /\ run'[r].occ = routine.next
        /\ \A q \in Run : q # r => run'[q] = run[q]
    BY <1>3, ClaimStep DEF history
  <2>2. /\ worker[w].for \in 0 .. clock + Slack
        /\ worker[w].next # None => worker[w].next > worker[w].for
    BY <2>1 DEF BaseInv, HandlersHold
  <2>3. routine.next # None /\ routine.next \in Nat /\ worker[w].next \in Time
    BY <2>1, <2>2, Parts, NoneIsNoTime DEF Handler
  <2>4. ASSUME NEW q \in Run, Stands(q)', routine'.next # None
        PROVE  routine'.next > run'[q].occ \/ \E u \in again' : u <= run'[q].occ
    <3>1. CASE q = r
      BY <2>1, <2>2, <2>4, <3>1
    <3>2. CASE q # r
      <4>1. run'[q] = run[q] /\ Stands(q)
        BY <2>1, <2>4, <3>2 DEF Stands
      <4>2. routine.next > run[q].occ \/ Covered(run[q].occ)
        BY <2>3, <4>1 DEF FiresForward
      <4>3. run[q].occ \in 0 .. clock + Slack
        BY <4>1 DEF BaseInv, RunsHold, Stands, Absent
      <4>4. worker[w].next \in Nat /\ worker[w].next > routine.next
        BY <2>1, <2>2, <2>3, <2>4 DEF Time
      <4>5. CASE Covered(run[q].occ)
        BY <2>1, <4>1, <4>5 DEF Covered
      <4>6. CASE routine.next > run[q].occ
        BY <2>1, <2>3, <4>1, <4>3, <4>4, <4>6, Parts
      <4>q. QED BY <4>2, <4>5, <4>6
    <3>q. QED BY <3>1, <3>2
  <2>q. QED BY <2>4 DEF FiresForward, Covered
<1>4. ASSUME NEW w \in Worker, Restore(w) PROVE FiresForward'
  <2>1. /\ DeletesOnly(worker[w].run) /\ worker[w].pc = "restore"
        /\ Restorable(w) => /\ routine'.next = worker[w].for /\ routine'.active
                            /\ again' = PutBack(worker[w].for)
        /\ ~ Restorable(w) => UNCHANGED <<routine, again>>
    BY <1>4, RestoreStep
  <2>2. worker[w].for \in Nat
    BY <2>1, Parts DEF BaseInv, HandlersHold
  <2>3. CASE Restorable(w)
    BY <1>0, <2>1, <2>2, <2>3, PutBackCovers
  <2>4. CASE ~ Restorable(w)
    <3>1. \A r \in Run : Stands(r)' => Stands(r) /\ run'[r].occ = run[r].occ
      BY <2>1 DEF DeletesOnly, Stands
    <3>q. QED BY <2>1, <2>4, <3>1, StandingStays
  <2>q. QED BY <2>3, <2>4
<1>5. CASE Creates
  <2>1. UNCHANGED run /\ life = "unborn"
    BY <1>5, CreatesStep
  <2>q. QED BY <2>1 DEF FiresForward, Stands, BaseInv, RunsHold, Absent
<1>6. CASE UpdateWrites
  <2>1. /\ UNCHANGED run /\ routine'.next \in Time
        /\ routine'.next # None => again' = PutBack(routine'.next)
        /\ routine'.next = None => UNCHANGED again
    BY <1>0, <1>6, UpdateWritesStep, Parts DEF TypeInv, RoutineTypeOK, Row
  <2>2. CASE routine'.next = None
    BY <2>1, <2>2, StandingStays DEF Stands
  <2>3. CASE routine'.next # None
    BY <1>0, <2>1, <2>3, PutBackCovers DEF Time
  <2>q. QED BY <2>2, <2>3
<1>7. CASE EndsStep
  <2>1. Ends
    BY <1>7, EndsStepEffect
  <2>2. \A r \in Run : Stands(r)' => Stands(r) /\ run'[r].occ = run[r].occ
    <3>1. \A r \in archive.runs : run[r].status # "absent"
      BY DEF BaseInv, RunsHold, Absent
    <3>2. \A r \in Run : run[r].status \in {"absent", "active", "cancelled", "deleted"}
      BY Parts DEF Runs
    <3>q. QED BY <2>1, <3>1, <3>2 DEF Ends, Stands
  <2>q. QED BY <2>1, <2>2, StandingStays DEF Ends
<1>q. QED BY <1>1, <1>2, <1>3, <1>4, <1>5, <1>6, <1>7, StepEffects

LEMMA ForwardInvariant == Spec => []FiresForward
<1>1. Init => FiresForward
  BY DEF Init, NoRun, Stands, FiresForward
<1>2. TypeInv /\ BaseInv /\ FiresForward /\ [Next]_vars => FiresForward'
  BY ForwardStep
<1>q. QED BY <1>1, <1>2, BaseInvariant, PTL DEF Spec

(* wakeRoutine: the row, the jobs and the handlers keep their types; no run is made more than
   the tolerated slack before the time that its routine was set for, whatever becomes of the
   jobs; and the row, which moves past what was fired, early or not, stays past it unless a
   request or a late restore puts it back. *)
THEOREM FiredIsPassed == Spec => []RoutineInv
<1>1. TypeInv /\ BaseInv => RoutineTypeOK /\ EarlyBySlackAtMost
  BY Parts DEF EarlyBySlackAtMost, BaseInv, RunsHold, Absent, TypeInv
<1>2. TypeInv /\ BaseInv /\ FiresForward => RoutineInv
  BY <1>1 DEF RoutineInv
<1>q. QED BY <1>2, BaseInvariant, ForwardInvariant, PTL

OnceEach ==
  \A r, s \in Run : r # s /\ Stands(r) /\ Stands(s) /\ run[r].occ = run[s].occ
    => Covered(run[r].occ)

LEMMA OnceStep ==
  ASSUME TypeInv, BaseInv, FiresForward, OnceEach, [Next]_vars
  PROVE  OnceEach'
<1>a. ASSUME again \subseteq again',
             \A r \in Run : Stands(r)' => Stands(r) /\ run'[r].occ = run[r].occ
      PROVE  OnceEach'
  BY <1>a DEF OnceEach, Covered
<1>1. CASE QuietStep \/ Creates \/ UpdateWrites \/ \E w \in Worker : WakeDue(w)
  <2>1. UNCHANGED run
    BY <1>1, CreatesStep, UpdateWritesStep, WakeDueStep DEF QuietStep, Quiet
  <2>2. again \subseteq again'
    <3>1. CASE UpdateWrites
      BY <3>1, UpdateWritesStep DEF PutBack
    <3>2. CASE ~ UpdateWrites
      BY <1>1, <3>2, CreatesStep, WakeDueStep DEF QuietStep, Quiet, history
    <3>q. QED BY <3>1, <3>2
  <2>q. QED BY <1>a, <2>1, <2>2 DEF Stands
<1>2. ASSUME NEW w \in Worker, NEW r \in Run, Claim(w, r) PROVE OnceEach'
  <2>1. /\ UNCHANGED again /\ worker[w].pc = "claim" /\ routine.next = worker[w].for
        /\ run'[r].occ = routine.next
        /\ \A q \in Run : q # r => run'[q] = run[q]
    BY <1>2, ClaimStep DEF history
  <2>2. routine.next \in 0 .. clock + Slack /\ routine.next # None
    BY <2>1, Parts, NoneIsNoTime DEF BaseInv, HandlersHold
  <2>3. ASSUME NEW q \in Run, q # r, Stands(q)', run'[q].occ = routine.next
        PROVE  \E u \in again' : u <= routine.next
    <3>1. run[q].occ = routine.next /\ Stands(q)
      BY <2>1, <2>3 DEF Stands
    <3>2. routine.next > run[q].occ \/ Covered(run[q].occ)
      BY <2>2, <3>1 DEF FiresForward
    <3>3. ~ (routine.next > run[q].occ)
      BY <2>2, <3>1
    <3>q. QED BY <2>1, <3>1, <3>2, <3>3 DEF Covered
  <2>4. ASSUME NEW p \in Run, NEW q \in Run, p # q, Stands(p)', Stands(q)',
               run'[p].occ = run'[q].occ
        PROVE  \E u \in again' : u <= run'[p].occ
    <3>1. CASE p = r \/ q = r
      BY <2>1, <2>3, <2>4, <3>1
    <3>2. CASE p # r /\ q # r
      BY <2>1, <2>4, <3>2 DEF OnceEach, Covered, Stands
    <3>q. QED BY <3>1, <3>2
  <2>q. QED BY <2>4 DEF OnceEach, Covered
<1>3. ASSUME NEW w \in Worker, Restore(w) PROVE OnceEach'
  BY <1>a, <1>3, RestoreStep DEF DeletesOnly, Stands, PutBack
<1>4. CASE EndsStep
  <2>1. Ends
    BY <1>4, EndsStepEffect
  <2>2. \A r \in archive.runs : run[r].status # "absent"
    BY DEF BaseInv, RunsHold, Absent
  <2>3. \A r \in Run : run[r].status \in {"absent", "active", "cancelled", "deleted"}
    BY Parts DEF Runs
  <2>q. QED BY <1>a, <2>1, <2>2, <2>3 DEF Ends, Stands
<1>q. QED BY <1>1, <1>2, <1>3, <1>4, StepEffects

(* wakeRoutine claims an occurrence once: it makes a second run for it only when an update
   or a restore has put nextRunAt back over a run of it or of a later one. *)
THEOREM OneRunForEach == Spec => []OneRunPerOccurrence
<1>1. Init => OnceEach
  BY DEF Init, NoRun, OnceEach, Stands
<1>2. TypeInv /\ BaseInv /\ FiresForward /\ OnceEach /\ [Next]_vars => OnceEach'
  BY OnceStep
<1>3. TypeInv /\ OnceEach => OneRunPerOccurrence
  <2> SUFFICES ASSUME TypeInv, OnceEach, NEW r \in Run, NEW s \in Run, r # s,
                      run[r].occ = run[s].occ,
                      {run[r].status, run[s].status} \cap {"absent", "deleted"} = {}
               PROVE  \E t \in again : t <= run[r].occ
    BY DEF OneRunPerOccurrence
  <2>1. \A q \in Run : run[q].status \in {"absent", "active", "cancelled", "deleted"}
    BY Parts DEF Runs
  <2>2. Stands(r) /\ Stands(s)
    BY <2>1 DEF Stands
  <2>q. QED BY <2>2 DEF OnceEach, Covered
<1>q. QED BY <1>1, <1>2, <1>3, BaseInvariant, ForwardInvariant, PTL DEF Spec

-----------------------------------------------------------------------------
(* Nothing is lost.                                                        *)

\* The row and the runs stay, and no claim is opened.
SameRow ==
  /\ UNCHANGED <<life, routine, run>>
  /\ \A w \in Worker : Open(w)' => /\ Open(w) /\ worker'[w].for = worker[w].for
                                   /\ worker'[w].next = worker[w].next
                                   /\ worker'[w].run = worker[w].run

LEMMA FollowsSameRow == UNCHANGED <<life, routine, run>> /\ Follows => SameRow
BY DEF SameRow, Follows, Kept, Open

LEMMA WakeDueSameRow ==
  ASSUME TypeInv, NEW w \in Worker, WakeDue(w)
  PROVE  SameRow
<1>1. UNCHANGED row /\ UNCHANGED run /\ worker'[w].pc = "claim"
      /\ \A v \in Worker : v # w => worker'[v] = worker[v]
  BY WakeDueStep
<1>q. QED BY <1>1 DEF SameRow, Open, row

LEMMA UntouchedStep ==
  ASSUME TypeInv, UntouchedMeans, [Next]_vars, Untouched'
  PROVE  /\ UntouchedMeans' /\ Untouched
         /\ \/ SameRow \/ Creates
            \/ \E w \in Worker : Restore(w) \/ \E r \in Run : Claim(w, r)
<1>0. /\ edits \in Nat /\ undone \in BOOLEAN /\ edits' = 0 /\ ~ undone'
      /\ Untouched => edit.pc # "write" /\ archive.pc = "none" /\ life # "gone"
  BY Parts DEF Untouched, UntouchedMeans
<1>1. CASE QuietStep
  <2>1. UNCHANGED <<life, undone>> /\ RequestsMove /\ SameRow
    BY <1>1, FollowsSameRow DEF QuietStep, Quiet
  <2>2. edits = 0 /\ edits' = edits /\ Untouched
    BY <1>0, <2>1 DEF RequestsMove, Untouched
  <2>3. UntouchedMeans'
    BY <1>0, <2>1, <2>2 DEF RequestsMove, UntouchedMeans, NoEdit
  <2>q. QED BY <2>1, <2>2, <2>3
<1>2. CASE \E w \in Worker : WakeDue(w) \/ Restore(w) \/ \E r \in Run : Claim(w, r)
  <2>1. UNCHANGED <<life, requests, undone, edits>>
    BY <1>2, WakeDueStep, RestoreStep, ClaimStep DEF row, history
  <2>2. Untouched /\ UntouchedMeans'
    BY <1>0, <2>1 DEF Untouched, UntouchedMeans, requests
  <2>q. QED BY <1>2, <2>2, WakeDueSameRow
<1>3. CASE Creates
  <2>1. /\ UNCHANGED <<archive, history, edits>> /\ life' = "live" /\ edit'.pc = "sync"
    BY <1>3, CreatesStep
  <2>2. Untouched /\ UntouchedMeans'
    BY <1>0, <2>1 DEF Untouched, UntouchedMeans, history
  <2>q. QED BY <1>3, <2>2
<1>4. CASE UpdateWrites
  <2>1. UNCHANGED <<edits, undone>> /\ edit.pc = "write"
    BY <1>4, UpdateWritesStep
  <2>q. QED BY <1>0, <2>1 DEF Untouched
<1>5. CASE EndsStep
  <2>1. /\ edit' # edit => edit'.pc # "write"
        /\ undone => undone' = TRUE
        /\ UNCHANGED archive /\ Follows
        /\ \/ edits' = edits + 1
           \/ undone' = TRUE
           \/ archive.pc # "none" /\ edits' = edits
           \/ UNCHANGED <<routine, run, life, edits, undone>>
    BY <1>5, EndsStepEffect
  <2>2. edits = 0 /\ ~ undone
    BY <1>0, <2>1
  <2>3. Untouched
    BY <2>2 DEF Untouched
  <2>4. UNCHANGED <<routine, run, life>>
    BY <1>0, <2>1, <2>3
  <2>5. UntouchedMeans'
    BY <1>0, <2>1, <2>3, <2>4 DEF UntouchedMeans
  <2>q. QED BY <2>1, <2>3, <2>4, <2>5, FollowsSameRow
<1>q. QED BY <1>1, <1>2, <1>3, <1>4, <1>5, StepEffects

(* The parts of Restores. *)
Aligned == routine.active <=> routine.next # None
Apart ==
  \A v, w \in Worker : Open(v) /\ Open(w) /\ v # w =>
    Before(worker[v].next, worker[w].for) \/ Before(worker[w].next, worker[v].for)
Behind == \A w \in Worker : Open(w) => AtMost(worker[w].next, routine.next)
LastIsHeld ==
  \A w \in Worker : Open(w) /\ Last(worker[w].run) => routine.next = worker[w].next
LastIsDue ==
  \A r \in Run : run[r].status = "deleted" /\ Last(r) =>
    routine.next # None /\ routine.next <= run[r].occ
Recovers == Aligned /\ Apart /\ Behind /\ LastIsHeld /\ LastIsDue

LEMMA RestoresMeans == Restores <=> (Untouched /\ life = "live" => Recovers)
BY DEF Restores, Recovers, Aligned, Apart, Behind, LastIsHeld, LastIsDue

LEMMA SameRowRecovers ==
  ASSUME TypeInv, Recovers, SameRow
  PROVE  Recovers'
<1>1. \A w \in Worker : Open(w)' => /\ Open(w) /\ worker'[w].for = worker[w].for
                                    /\ worker'[w].next = worker[w].next
                                    /\ worker'[w].run = worker[w].run
  BY DEF SameRow
<1>2. UNCHANGED <<routine, run>>
  BY DEF SameRow
<1>3. Aligned' /\ LastIsDue'
  BY <1>2 DEF Recovers, Aligned, LastIsDue, Last, Absent
<1>4. Apart' /\ Behind'
  BY <1>1, <1>2 DEF Recovers, Apart, Behind
<1>5. LastIsHeld'
  <2> SUFFICES ASSUME NEW w \in Worker, Open(w)', Last(worker[w].run)'
               PROVE  routine'.next = worker'[w].next
    BY DEF LastIsHeld
  <2>1. Open(w) /\ worker'[w].next = worker[w].next /\ worker'[w].run = worker[w].run
    BY <1>1
  <2>2. Last(worker[w].run)
    BY <1>2, <2>1 DEF Last, Absent
  <2>q. QED BY <1>2, <2>1, <2>2 DEF Recovers, LastIsHeld
<1>q. QED BY <1>3, <1>4, <1>5 DEF Recovers

(* What Recovers says of a handler that holds a claim, with the types its values have. *)
LEMMA OpenFacts ==
  ASSUME TypeInv, BaseInv, NEW w \in Worker, Open(w) \/ worker[w].pc = "claim"
  PROVE  /\ worker[w].for \in Nat /\ worker[w].next \in Time
         /\ worker[w].next # None => worker[w].next \in Nat /\ worker[w].next > worker[w].for
<1>1. worker[w].pc # "idle" /\ worker[w].next \in Time
  BY Parts DEF Open, Handler
<1>2. /\ worker[w].for \in 0 .. clock + Slack
      /\ worker[w].next # None => worker[w].next > worker[w].for
  BY <1>1 DEF BaseInv, HandlersHold
<1>q. QED BY <1>1, <1>2, Parts DEF Time

LEMMA CreatesRecovers ==
  ASSUME TypeInv, BaseInv, Creates
  PROVE  Recovers'
<1>1. /\ UNCHANGED <<run, worker>> /\ life = "unborn" /\ routine'.active /\ routine'.next # None
  BY CreatesStep
<1>2. (\A r \in Run : run'[r].status = "absent") /\ (\A w \in Worker : worker'[w].pc = "idle")
  BY <1>1 DEF BaseInv, RunsHold, Absent
<1>q. QED
  BY <1>1, <1>2 DEF Recovers, Aligned, Apart, Behind, LastIsHeld, LastIsDue, Open

(* The claim moves the row past every claim that may still be taken back. *)
LEMMA ClaimRecovers ==
  ASSUME TypeInv, BaseInv, Recovers, NEW w \in Worker, NEW r \in Run, Claim(w, r)
  PROVE  Recovers'
<1>1. /\ routine.active /\ routine.next = worker[w].for
      /\ routine'.next = worker[w].next /\ (routine'.active <=> worker[w].next # None)
      /\ worker[w].pc = "claim" /\ worker'[w].pc = "enqueue" /\ worker'[w].run = r
      /\ worker'[w].for = worker[w].for /\ worker'[w].next = worker[w].next
      /\ \A v \in Worker : v # w => worker'[v] = worker[v]
      /\ run'[r].status = "active"
      /\ \A q \in Run : q # r => run'[q] = run[q]
  BY ClaimStep
<1>2. Absent(r) /\ Last(r)
  BY ClaimIsNext DEF BaseInv
<1>3. /\ worker[w].for \in Nat /\ worker[w].next \in Time
      /\ worker[w].next # None => worker[w].next \in Nat /\ worker[w].next > worker[w].for
  BY <1>1, OpenFacts
<1>4. ASSUME NEW v \in Worker, Open(v)', v # w
      PROVE  /\ Open(v) /\ worker'[v] = worker[v]
             /\ Before(worker[v].next, worker[w].for)
             /\ worker[v].next \in Nat
  <2>1. Open(v) /\ worker'[v] = worker[v]
    BY <1>1, <1>4 DEF Open
  <2>2. AtMost(worker[v].next, worker[w].for)
    BY <1>1, <2>1 DEF Recovers, Behind
  <2>3. worker[w].for # None
    BY <1>3, NoneIsNoTime
  <2>q. QED BY <2>1, <2>2, <2>3, OpenFacts DEF AtMost, Before
<1>5. Aligned'
  BY <1>1 DEF Aligned
<1>6. Apart'
  <2> SUFFICES ASSUME NEW u \in Worker, NEW v \in Worker, Open(u)', Open(v)', u # v
               PROVE  \/ Before(worker'[u].next, worker'[v].for)
                      \/ Before(worker'[v].next, worker'[u].for)
    BY DEF Apart
  <2>1. CASE u = w
    BY <1>1, <1>4, <2>1
  <2>2. CASE v = w
    BY <1>1, <1>4, <2>2
  <2>3. CASE u # w /\ v # w
    BY <1>4, <2>3 DEF Recovers, Apart
  <2>q. QED BY <2>1, <2>2, <2>3
<1>7. Behind'
  <2> SUFFICES ASSUME NEW v \in Worker, Open(v)'
               PROVE  AtMost(worker'[v].next, routine'.next)
    BY DEF Behind
  <2>1. CASE v = w
    BY <1>1, <1>3, <2>1 DEF AtMost
  <2>2. CASE v # w
    <3>1. /\ worker'[v].next = worker[v].next /\ worker[v].next \in Nat
          /\ worker[v].next <= worker[w].for /\ worker[v].next # None
      BY <1>4, <2>2 DEF Before
    <3>q. QED BY <1>1, <1>3, <3>1 DEF AtMost
  <2>q. QED BY <2>1, <2>2
<1>8. LastIsHeld'
  <2> SUFFICES ASSUME NEW v \in Worker, Open(v)', Last(worker[v].run)'
               PROVE  routine'.next = worker'[v].next
    BY DEF LastIsHeld
  <2>1. CASE v = w
    BY <1>1, <2>1
  <2>2. CASE v # w
    <3>1. Open(v) /\ worker'[v].run = worker[v].run
      BY <1>4, <2>2
    <3>2. worker[v].pc # "idle" /\ worker[v].run # None /\ ~ Absent(worker[v].run)
      BY <3>1 DEF BaseInv, HandlersHold, Open
    <3>3. PICK q \in Run : q = worker[v].run
      BY <3>2, Parts DEF Handler
    <3>4. q < r
      BY <1>2, <3>2, <3>3 DEF Last, Run
    <3>5. ~ Last(q)'
      BY <1>1, <3>4 DEF Last, Absent, Run
    <3>q. QED BY <3>1, <3>3, <3>5 DEF Last
  <2>q. QED BY <2>1, <2>2
<1>9. LastIsDue'
  <2> SUFFICES ASSUME NEW q \in Run, run'[q].status = "deleted", Last(q)'
               PROVE  FALSE
    BY DEF LastIsDue
  <2>1. q # r /\ run[q].status = "deleted"
    BY <1>1
  <2>2. q < r
    BY <1>2, <2>1 DEF Last, Absent, Run
  <2>q. QED BY <1>1, <2>2 DEF Last, Absent, Run
<1>q. QED BY <1>5, <1>6, <1>7, <1>8, <1>9 DEF Recovers

LEMMA RestoreRecovers ==
  ASSUME TypeInv, BaseInv, Recovers, life = "live", NEW w \in Worker, Restore(w)
  PROVE  Recovers'
<1>1. /\ Follows /\ worker'[w].pc = "idle" /\ worker[w].pc = "restore"
      /\ DeletesOnly(worker[w].run)
      /\ Restorable(w) => routine'.next = worker[w].for /\ routine'.active
      /\ ~ Restorable(w) => UNCHANGED routine
  BY RestoreStep
<1>2. /\ Open(w) /\ worker[w].for \in Nat /\ worker[w].next \in Time
      /\ worker[w].next # None => worker[w].next \in Nat /\ worker[w].next > worker[w].for
  BY <1>1, OpenFacts DEF Open
<1>3. PICK r \in Run : r = worker[w].run /\ run[r].occ = worker[w].for
  BY <1>1, <1>2, Parts DEF BaseInv, HandlersHold, Handler
<1>4. \A q \in Run : /\ Absent(q)' <=> Absent(q)
                     /\ run'[q].occ = run[q].occ
                     /\ run'[q].status = "deleted" => run[q].status = "deleted" \/ q = r
  BY <1>1, <1>3 DEF DeletesOnly, Absent
<1>5. \A q \in Run : Last(q)' <=> Last(q)
  BY <1>4 DEF Last, Absent
<1>6. ASSUME NEW v \in Worker, Open(v)'
      PROVE  /\ Open(v) /\ v # w /\ worker'[v].for = worker[v].for
             /\ worker'[v].next = worker[v].next /\ worker'[v].run = worker[v].run
  BY <1>1, <1>6 DEF Follows, Kept, Open
<1>7. Apart'
  BY <1>6 DEF Recovers, Apart
<1>8. CASE ~ Restorable(w)
  <2>1. UNCHANGED routine
    BY <1>1, <1>8
  <2>2. Aligned' /\ Behind'
    BY <1>6, <2>1 DEF Recovers, Aligned, Behind
  <2>3. LastIsHeld'
    <3> SUFFICES ASSUME NEW v \in Worker, Open(v)', Last(worker[v].run)'
                 PROVE  routine'.next = worker'[v].next
      BY DEF LastIsHeld
    <3>1. Open(v) /\ worker'[v].next = worker[v].next /\ worker'[v].run = worker[v].run
      BY <1>6
    <3>2. Last(worker[v].run)
      BY <1>4, <3>1 DEF Last, Absent
    <3>q. QED BY <2>1, <3>1, <3>2 DEF Recovers, LastIsHeld
  <2>4. ~ Last(r)
    <3> SUFFICES ASSUME Last(r) PROVE FALSE
      OBVIOUS
    <3>1. routine.next = worker[w].next
      BY <1>2, <1>3 DEF Recovers, LastIsHeld
    <3>2. worker[w].next = None => ~ routine.active
      BY <3>1 DEF Recovers, Aligned
    <3>q. QED BY <1>8, <3>1, <3>2 DEF Restorable
  <2>5. LastIsDue'
    BY <1>4, <1>5, <2>1, <2>4 DEF Recovers, LastIsDue
  <2>q. QED BY <1>7, <2>2, <2>3, <2>5 DEF Recovers
<1>9. CASE Restorable(w)
  <2>1. /\ routine'.next = worker[w].for /\ routine'.active /\ routine.next = worker[w].next
        /\ worker[w].for # None
    BY <1>1, <1>2, <1>9, NoneIsNoTime DEF Restorable
  <2>2. ASSUME NEW v \in Worker, Open(v), v # w
        PROVE  /\ Before(worker[v].next, worker[w].for) /\ routine.next # worker[v].next
               /\ worker[v].next \in Nat
    <3>1. /\ worker[v].for \in Nat /\ worker[v].next \in Time
          /\ worker[v].next # None => worker[v].next \in Nat /\ worker[v].next > worker[v].for
      BY <2>2, OpenFacts
    <3>2. \/ Before(worker[v].next, worker[w].for)
          \/ Before(worker[w].next, worker[v].for)
      BY <1>2, <2>2 DEF Recovers, Apart
    <3>3. AtMost(worker[v].next, worker[w].next)
      BY <2>1, <2>2 DEF Recovers, Behind
    <3>4. ~ Before(worker[w].next, worker[v].for)
      BY <1>2, <3>1, <3>3 DEF Before, AtMost
    <3>5. Before(worker[v].next, worker[w].for)
      BY <3>2, <3>4
    <3>6. worker[v].next \in Nat /\ worker[v].next <= worker[w].for
      BY <3>1, <3>5 DEF Before
    <3>7. routine.next # worker[v].next
      BY <1>2, <2>1, <3>6, NoneIsNoTime
    <3>q. QED BY <3>5, <3>6, <3>7
  <2>3. Aligned'
    BY <2>1 DEF Aligned
  <2>4. Behind'
    <3> SUFFICES ASSUME NEW v \in Worker, Open(v)'
                 PROVE  AtMost(worker'[v].next, routine'.next)
      BY DEF Behind
    <3>1. Open(v) /\ v # w /\ worker'[v].next = worker[v].next
      BY <1>6
    <3>q. QED BY <2>1, <2>2, <3>1 DEF Before, AtMost
  <2>5. LastIsHeld'
    <3> SUFFICES ASSUME NEW v \in Worker, Open(v)', Last(worker[v].run)'
                 PROVE  FALSE
      BY DEF LastIsHeld
    <3>1. Open(v) /\ v # w /\ worker'[v].run = worker[v].run
      BY <1>6
    <3>2. Last(worker[v].run)
      BY <1>4, <3>1 DEF Last, Absent
    <3>q. QED BY <2>2, <3>1, <3>2 DEF Recovers, LastIsHeld
  <2>6. LastIsDue'
    <3> SUFFICES ASSUME NEW q \in Run, run'[q].status = "deleted", Last(q)'
                 PROVE  routine'.next # None /\ routine'.next <= run'[q].occ
      BY DEF LastIsDue
    <3>1. CASE q = r
      BY <1>2, <1>3, <1>4, <2>1, <3>1
    <3>2. CASE q # r
      <4>1. run[q].status = "deleted" /\ Last(q) /\ run'[q].occ = run[q].occ
        BY <1>4, <1>5, <3>2
      <4>2. routine.next # None /\ routine.next <= run[q].occ
        BY <4>1 DEF Recovers, LastIsDue
      <4>3. run[q].occ \in Nat
        BY <4>1, Parts DEF BaseInv, RunsHold, Absent
      <4>q. QED BY <1>2, <2>1, <4>1, <4>2, <4>3
    <3>q. QED BY <3>1, <3>2
  <2>q. QED BY <1>7, <2>3, <2>4, <2>5, <2>6 DEF Recovers
<1>q. QED BY <1>8, <1>9

LEMMA RestoresStep ==
  ASSUME TypeInv, BaseInv, UntouchedMeans, Restores, [Next]_vars
  PROVE  UntouchedMeans' /\ Restores'
<1>0. CASE ~ Untouched'
  BY <1>0 DEF UntouchedMeans, Restores
<1>1. CASE Untouched'
  <2>1. /\ UntouchedMeans' /\ Untouched
        /\ \/ SameRow \/ Creates
           \/ \E w \in Worker : Restore(w) \/ \E r \in Run : Claim(w, r)
    BY <1>1, UntouchedStep
  <2>2. ASSUME life' = "live" PROVE Recovers'
    <3>1. CASE SameRow
      BY <2>1, <2>2, <3>1, RestoresMeans, SameRowRecovers DEF SameRow
    <3>2. CASE Creates
      BY <3>2, CreatesRecovers
    <3>3. ASSUME NEW w \in Worker, NEW r \in Run, Claim(w, r) PROVE Recovers'
      BY <2>1, <3>3, ClaimStep, RestoresMeans, ClaimRecovers
    <3>4. ASSUME NEW w \in Worker, Restore(w) PROVE Recovers'
      BY <2>1, <2>2, <3>4, RestoreStep, RestoresMeans, RestoreRecovers
    <3>q. QED BY <2>1, <3>1, <3>2, <3>3, <3>4
  <2>3. Restores'
    BY <2>2 DEF Restores, Recovers, Aligned, Apart, Behind, LastIsHeld, LastIsDue
  <2>q. QED BY <2>1, <2>3
<1>q. QED BY <1>0, <1>1

(* wakeRoutine: while only handlers move the row, an occurrence whose run was taken back is
   due again, or one before it is, or the routine has fired since. *)
THEOREM ClaimsAreNotLost == Spec => []NothingLost
<1>1. Init => UntouchedMeans /\ Restores
  <2> SUFFICES ASSUME Init PROVE UntouchedMeans /\ Restores
    OBVIOUS
  <2>1. UntouchedMeans
    BY DEF Init, UntouchedMeans, NoEdit, NoArchive
  <2>2. life = "live" => routine.active /\ routine.next # None
    <3>1. life = "live" => routine = [active |-> TRUE, sched |-> Broken, next |-> 1, ran |-> TRUE]
      BY DEF Init
    <3>q. QED BY <3>1, NoneIsNoTime
  <2>3. /\ \A w \in Worker : ~ Open(w)
        /\ \A r \in Run : run[r].status = "absent"
    BY Values DEF Init, Open, NoRun
  <2>q. QED BY <2>1, <2>2, <2>3 DEF Restores
<1>2. TypeInv /\ BaseInv /\ UntouchedMeans /\ Restores /\ [Next]_vars
      => UntouchedMeans' /\ Restores'
  BY RestoresStep
<1>3. TypeInv /\ BaseInv /\ Restores => NothingLost
  <2> SUFFICES ASSUME TypeInv, BaseInv, Restores, Untouched, life = "live", NEW r \in Run,
                      run[r].status = "deleted", \A s \in Run : s > r => Absent(s)
               PROVE  routine.active /\ routine.next # None /\ routine.next <= run[r].occ
    BY DEF NothingLost, Untouched, Absent
  <2>1. Aligned /\ LastIsDue
    BY RestoresMeans DEF Recovers
  <2>q. QED BY <2>1 DEF Aligned, LastIsDue, Last
<1>q. QED BY <1>1, <1>2, <1>3, BaseInvariant, PTL DEF Spec

-----------------------------------------------------------------------------
(* A paused routine.                                                       *)

(* routines.update alone makes a paused row due or starts it; a handler that takes its claim
   back starts only a row that its own claim had ended, or one that an update left due. *)
THEOREM OnlyUpdatesStart == Spec => PausedStaysPaused
<1> DEFINE
     Torn == ~ routine'.active /\ routine'.next # None
             => UpdateWrites \/ (~ routine.active /\ routine.next = routine'.next)
     Started == ~ routine.active /\ routine'.active
             => \/ UpdateWrites
                \/ routine.next # None
                \/ \E w \in Worker : worker[w].pc = "restore" /\ worker[w].next = None
<1>1. ASSUME TypeInv, life = "live", [Next]_vars
      PROVE  Torn /\ Started
  <2>1. CASE QuietStep \/ \E w \in Worker : WakeDue(w)
    <3>1. UNCHANGED routine
      BY <1>1, <2>1, WakeDueStep DEF QuietStep, Quiet, row
    <3>q. QED BY <3>1
  <2>2. ASSUME NEW w \in Worker, NEW r \in Run, Claim(w, r) PROVE Torn /\ Started
    <3>1. /\ routine.active /\ routine'.next = worker[w].next
          /\ routine'.active <=> worker[w].next # None
      BY <1>1, <2>2, ClaimStep
    <3>q. QED BY <3>1
  <2>3. ASSUME NEW w \in Worker, Restore(w) PROVE Torn /\ Started
    <3>1. /\ worker[w].pc = "restore"
          /\ Restorable(w) => routine'.active
          /\ ~ Restorable(w) => UNCHANGED routine
      BY <1>1, <2>3, RestoreStep
    <3>2. CASE Restorable(w)
      BY <3>1, <3>2 DEF Restorable
    <3>3. CASE ~ Restorable(w)
      BY <3>1, <3>3
    <3>q. QED BY <3>2, <3>3
  <2>4. CASE Creates
    BY <1>1, <2>4, CreatesStep
  <2>5. CASE EndsStep
    <3>1. \/ ~ routine'.active /\ routine'.next = None
          \/ UNCHANGED routine
      BY <1>1, <2>5, EndsStepEffect DEF Ends
    <3>q. QED BY <3>1
  <2>q. QED BY <1>1, <2>1, <2>2, <2>3, <2>4, <2>5, StepEffects
<1>2. TypeInv /\ [Next]_vars => [life = "live" => Torn /\ Started]_vars
  BY <1>1
<1>3. [](TypeInv /\ BaseInv) /\ [][Next]_vars => [][life = "live" => Torn /\ Started]_vars
  BY <1>2, PTL
<1>q. QED BY <1>3, BaseInvariant, PTL DEF Spec, PausedStaysPaused
=============================================================================
