---------------------------- MODULE JobReconciler ----------------------------
(***************************************************************************)
(* The reconciler: one elected process scans the runs, the routines and    *)
(* the controlled computers that need a job, a page at a time, and         *)
(* enqueues the job of every row it read.  A scan resumes behind its       *)
(* cursor, a (time, id) pair, while the rows move, leave and arrive.       *)
(***************************************************************************)
EXTENDS Integers, FiniteSets

CONSTANTS
  Process,    \* processes that run a reconciler
  Nobody,     \* the advisory lock is free
  Run, Routine, Computer,  \* ids of the rows of the three tables
  Never,      \* a null controlLeaseExpiresAt: "asc" sorts it after every time
  Off,        \* the row does not match the scan's conditions
  NoCursor,   \* the cursor is undefined
  BatchSize,
  Lookahead,  \* ROUTINE_LOOKAHEAD_MS and CONTROL_LOOKAHEAD_MS
  Horizon,    \* bound: the clock stops here
  MaxMoves,   \* bound: rows that arrive or move
  MaxFaults   \* bound: failed enqueues, lost jobs, lost connections, crashes, stops

ASSUME ReconcilerAssumption ==
  /\ Nobody \notin Process
  /\ Run \subseteq Nat /\ Routine \subseteq Nat /\ Computer \subseteq Nat
  /\ IsFiniteSet(Run) /\ IsFiniteSet(Routine) /\ IsFiniteSet(Computer)
  /\ Never \in Nat /\ Horizon \in Nat /\ Lookahead \in Nat
  /\ Horizon + Lookahead < Never
  /\ Off \notin Nat
  /\ NoCursor \notin [at : Nat, id : Nat]
  /\ BatchSize \in Nat \ {0}
  /\ MaxMoves \in Nat /\ MaxFaults \in Nat

VARIABLES
  clock,
  at,         \* updatedAt, nextRunAt or controlLeaseExpiresAt of each row, or Off
  jobs,       \* rows whose job is in the table
  lock,       \* the session that holds the advisory lock
  leads,      \* leaderClient is set: what a process believes
  pc,         \* "enqueue" between the reads and the enqueues of a pass
  page,       \* what the pass read, per table: the rows and the cursor after them
  cursor,     \* where the next pass of a process resumes, per table
  deadline,   \* controlScanDeadline; Never is undefined
  owed,       \* history: rows that matched when the process's scan of their table
              \* began, have not moved since, and were not enqueued by it since
  moves, faults

vars == <<clock, at, jobs, lock, leads, pc, page, cursor, deadline, owed, moves, faults>>
election == <<lock, leads>>
scan == <<pc, page, cursor, deadline, owed>>
budget == <<moves, faults>>

Table == {"run", "routine", "computer"}
Ids == [run |-> Run, routine |-> Routine, computer |-> Computer]
Key == [at : Nat, id : Nat]
Cursor == Key \cup {NoCursor}
NoPage == [t \in Table |-> [rows |-> {}, next |-> NoCursor]]
NoCursors == [t \in Table |-> NoCursor]
NoneOwed == [t \in Table |-> {}]

Init ==
  /\ clock = 0
  /\ \E due \in Table :
       at = [t \in Table |-> [i \in Ids[t] |->
              IF t # due THEN Off ELSE IF t = "computer" THEN Lookahead + 1 ELSE 0]]
  /\ jobs = [t \in Table |-> {}]
  /\ lock = Nobody
  /\ leads = [p \in Process |-> FALSE]
  /\ pc = [p \in Process |-> "idle"]
  /\ page = [p \in Process |-> NoPage]
  /\ cursor = [p \in Process |-> NoCursors]
  /\ deadline = [p \in Process |-> Never]
  /\ owed = [p \in Process |-> NoneOwed]
  /\ moves = 0
  /\ faults = 0

-----------------------------------------------------------------------------
(* What one query returns.                                                 *)

Before(j, k) == j.at < k.at \/ (j.at = k.at /\ j.id < k.id)

\* controlScanDeadline ??= now + CONTROL_LOOKAHEAD_MS
DeadlineOf(p) == IF deadline[p] = Never THEN clock + Lookahead ELSE deadline[p]

\* Slip: lte leaves out the leases that have no expiry.
WantedWithExpiry(p, t, a) ==
  CASE t = "run" -> TRUE
    [] t = "routine" -> a <= clock + Lookahead
    [] t = "computer" -> a <= DeadlineOf(p)

\* The conditions of the query, cursor aside.
Wanted(p, t, a) ==
  CASE t = "run" -> TRUE
    [] t = "routine" -> a <= clock + Lookahead
    [] t = "computer" -> a = Never \/ a <= DeadlineOf(p)

Matching(p, t) ==
  {k \in {[at |-> at[t][i], id |-> i] : i \in {j \in Ids[t] : at[t][j] # Off}} :
     Wanted(p, t, k.at)}

\* Slip: a cursor without its id skips the rows that share its time.
BehindByTime(p, t) ==
  {k \in Matching(p, t) : cursor[p][t] = NoCursor \/ cursor[p][t].at < k.at}

Behind(p, t) ==
  {k \in Matching(p, t) : cursor[p][t] = NoCursor \/ Before(cursor[p][t], k)}

\* ORDER BY (time, id) LIMIT BatchSize, and the cursor after it.
IsPage(pg, rows) ==
  /\ \A j \in pg.rows, k \in rows \ pg.rows : Before(j, k)
  /\ IF pg.rows = rows /\ Cardinality(rows) < BatchSize
     THEN pg.next = NoCursor
     ELSE /\ Cardinality(pg.rows) = BatchSize
          /\ pg.next \in pg.rows
          /\ \A j \in pg.rows : j = pg.next \/ Before(j, pg.next)

Pages(p, t) ==
  LET rows == Behind(p, t)
  IN {pg \in [rows : SUBSET rows, next : rows \cup {NoCursor}] : IsPage(pg, rows)}

-----------------------------------------------------------------------------
(* One pass.                                                               *)

\* tryAcquire: the process believes it leads, or it gets the lock now.
Leads(p) ==
  \/ leads[p] /\ UNCHANGED election
  \/ /\ ~ leads[p] /\ lock = Nobody
     /\ lock' = p
     /\ leads' = [leads EXCEPT ![p] = TRUE]

PassReads(p) ==
  /\ pc[p] = "idle"
  /\ Leads(p)
  /\ pc' = [pc EXCEPT ![p] = "enqueue"]
  /\ deadline' = [deadline EXCEPT ![p] = DeadlineOf(p)]
  /\ \E r \in Pages(p, "run"), o \in Pages(p, "routine"), c \in Pages(p, "computer") :
       page' = [page EXCEPT ![p] = [run |-> r, routine |-> o, computer |-> c]]
  /\ owed' = [owed EXCEPT ![p] =
       [t \in Table |-> IF cursor[p][t] = NoCursor THEN Matching(p, t) ELSE owed[p][t]]]
  /\ UNCHANGED <<clock, at, jobs, cursor, budget>>

IdsOf(keys) == {k.id : k \in keys}

\* Every enqueue of the pass was answered.
PassEnds(p) ==
  /\ pc[p] = "enqueue"
  /\ pc' = [pc EXCEPT ![p] = "idle"]
  /\ jobs' = [t \in Table |-> jobs[t] \cup IdsOf(page[p][t].rows)]
  /\ cursor' = [cursor EXCEPT ![p] = [t \in Table |-> page[p][t].next]]
  /\ deadline' = [deadline EXCEPT ![p] =
       IF page[p]["computer"].next = NoCursor THEN Never ELSE @]
  /\ owed' = [owed EXCEPT ![p] = [t \in Table |-> owed[p][t] \ page[p][t].rows]]
  /\ page' = [page EXCEPT ![p] = NoPage]
  /\ UNCHANGED <<clock, at, election, budget>>

\* One of them is refused: the rejection leaves the cursors where they were.
PassFails(p) ==
  /\ pc[p] = "enqueue"
  /\ faults < MaxFaults /\ faults' = faults + 1
  /\ pc' = [pc EXCEPT ![p] = "idle"]
  /\ \E landed \in SUBSET UNION {{t} \X page[p][t].rows : t \in Table} :
       jobs' = [t \in Table |-> jobs[t] \cup {k.id : k \in {j \in page[p][t].rows :
                                                         <<t, j>> \in landed}}]
  /\ page' = [page EXCEPT ![p] = NoPage]
  /\ UNCHANGED <<clock, at, election, cursor, deadline, owed, moves>>

-----------------------------------------------------------------------------
(* Leadership.                                                             *)

\* The leader's connection breaks: the server frees the lock at once ...
ConnectionLost ==
  /\ lock # Nobody
  /\ faults < MaxFaults /\ faults' = faults + 1
  /\ lock' = Nobody
  /\ UNCHANGED <<clock, at, jobs, leads, scan, moves>>

\* ... and the process learns of it later, perhaps after another one leads.
LeaderNotices(p) ==
  /\ leads[p] /\ lock # p
  /\ leads' = [leads EXCEPT ![p] = FALSE]
  /\ UNCHANGED <<clock, at, jobs, lock, scan, budget>>

\* The process stops, or dies in the middle of a pass; its successor remembers nothing.
Restarts(p) ==
  /\ faults < MaxFaults /\ faults' = faults + 1
  /\ lock' = IF lock = p THEN Nobody ELSE lock
  /\ leads' = [leads EXCEPT ![p] = FALSE]
  /\ pc' = [pc EXCEPT ![p] = "idle"]
  /\ page' = [page EXCEPT ![p] = NoPage]
  /\ cursor' = [cursor EXCEPT ![p] = NoCursors]
  /\ deadline' = [deadline EXCEPT ![p] = Never]
  /\ owed' = [owed EXCEPT ![p] = NoneOwed]
  /\ UNCHANGED <<clock, at, jobs, moves>>

-----------------------------------------------------------------------------
(* The rows and their jobs, as the rest of the system moves them.          *)

Tick ==
  /\ clock < Horizon
  /\ clock' = clock + 1
  /\ UNCHANGED <<at, jobs, election, scan, budget>>

\* Times a row may be given: now, a time beyond the lookahead, no expiry at all.
TimesFor(t) ==
  CASE t = "run" -> {clock}
    [] t = "routine" -> {clock, clock + Lookahead + 1}
    [] t = "computer" -> {clock + Lookahead + 1, Never}

Place(t, i, a) ==
  /\ at' = [at EXCEPT ![t][i] = a]
  /\ owed' = [p \in Process |-> [owed[p] EXCEPT ![t] = {k \in @ : k.id # i}]]

RowMoves(t, i) ==
  /\ moves < MaxMoves /\ moves' = moves + 1
  /\ \E a \in TimesFor(t) : a # at[t][i] /\ Place(t, i, a)
  /\ UNCHANGED <<clock, jobs, election, pc, page, cursor, deadline, faults>>

\* The job of the row runs, and the row needs none any more.
JobRuns(t, i) ==
  /\ i \in jobs[t]
  /\ jobs' = [jobs EXCEPT ![t] = @ \ {i}]
  /\ Place(t, i, Off)
  /\ UNCHANGED <<clock, election, pc, page, cursor, deadline, budget>>

JobLost(t, i) ==
  /\ i \in jobs[t]
  /\ faults < MaxFaults /\ faults' = faults + 1
  /\ jobs' = [jobs EXCEPT ![t] = @ \ {i}]
  /\ UNCHANGED <<clock, at, election, scan, moves>>

Next ==
  \/ Tick \/ ConnectionLost
  \/ \E p \in Process : PassReads(p) \/ PassEnds(p) \/ PassFails(p)
                        \/ LeaderNotices(p) \/ Restarts(p)
  \/ \E t \in Table : \E i \in Ids[t] : RowMoves(t, i) \/ JobRuns(t, i) \/ JobLost(t, i)

\* The interval of every process keeps firing; a broken connection reports its error.
Fairness ==
  /\ WF_vars(Tick)
  /\ \A p \in Process : WF_vars(PassReads(p)) /\ WF_vars(PassEnds(p))
                        /\ WF_vars(LeaderNotices(p))

Spec == Init /\ [][Next]_vars /\ Fairness

-----------------------------------------------------------------------------
(* Properties.                                                             *)

\* The page that ends the scan of a table holds every row that needed a job when the scan
\* began, has not moved since and was not on a page before: whatever ties, full pages,
\* failed passes, rows that move around the cursor and changes of leader came between.
ScanCovers ==
  \A p \in Process, t \in Table :
    pc[p] = "enqueue" /\ page[p][t].next = NoCursor => owed[p][t] \subseteq page[p][t].rows

\* A row that needs a job, and goes on needing it, gets one: in the end some process leads, and its scan comes by.
NeedsJob(t, i) ==
  at[t][i] # Off /\ (t = "run" \/ at[t][i] = Never \/ at[t][i] <= clock + Lookahead)
NeedyIsServed ==
  \A t \in Table : \A i \in Ids[t] : NeedsJob(t, i) ~> (i \in jobs[t] \/ ~ NeedsJob(t, i))
=============================================================================
