---------------------------- MODULE RunLifecycle ----------------------------
(***************************************************************************)
(* The life of a run: the row in the "runs" table, its attempt, the       *)
(* run.continue jobs that wake it, and the worker slots that execute       *)
(* continueRun.  A slot runs the handler one database statement at a time, *)
(* so that other slots, the API and the reconciler interleave with it.     *)
(*                                                                         *)
(* Time is abstracted to what the code compares: a lease is "live" until   *)
(* leaseExpiresAt has passed and "lapsed" after that.                      *)
(***************************************************************************)
EXTENDS Integers, Sequences, FiniteSets

CONSTANTS
  Run,        \* run ids
  Worker,     \* handler slots: the job runners execute several at once
  OwnerId,    \* values of workerId (the process id of a worker process)
  Owner,      \* the workerId every slot passes to continueRun
  NoOwner,    \* leaseOwner = null
  NoRun,      \* the run of an idle slot
  MaxFence,   \* bound: no user action requeues a run above this fence
  MaxFaults,  \* bound: crashes, stalls, lost enqueues, busy computers
  MaxStalls   \* bound: leases that lapse although their handler is alive

ASSUME RunAssumption ==
  /\ Owner \in [Worker -> OwnerId]
  /\ NoOwner \notin OwnerId \cup Worker
  /\ NoRun \notin Run
  /\ MaxFence \in Nat /\ MaxFaults \in Nat /\ MaxStalls \in Nat

VARIABLES
  run,        \* the rows: status, leaseOwner, leaseFence, lease, checkpoint
  asks,       \* unanswered ask messages of a run
  finals,     \* completion messages written for a run
  attempt,    \* the attempt row a slot's handler created
  jobs,       \* run.continue jobs a slot may pick up
  sending,    \* runs whose enqueue call has started and not yet landed
  stopping,   \* run ids a request has read as active and not yet cancelled
  locked,     \* that request is a transaction that holds the thread's row
  worker,     \* the local variables of a slot's continueRun
  faults,     \* faults so far
  stalls      \* stalls so far

vars == <<run, asks, finals, attempt, jobs, sending, stopping, locked, worker,
          faults, stalls>>
cancels == <<stopping, locked>>
thread == <<asks, finals>>
budget == <<faults, stalls>>

Active == {"queued", "leased", "running", "waiting_input", "waiting_takeover"}
Terminal == {"completed", "failed", "cancelled"}
Status == {"absent"} \cup Active \cup Terminal
Claimed == {"leased", "running"}
Resume == {"none", "takeover", "takeover-skipped"}
AttemptStatus == {"none", "running", "closed"}

RunRow == [status: Status, owner: OwnerId \cup {NoOwner}, fence: Nat,
           lease: {"none", "live", "lapsed"}, checkpoint: Resume]
NoRow == [status |-> "absent", owner |-> NoOwner, fence |-> 0,
          lease |-> "none", checkpoint |-> "none"]
Idle == [pc |-> "idle", run |-> NoRun, fence |-> 0, resume |-> "none"]
Handler == [pc: {"entered", "leased", "started", "working"}, run: Run, fence: Nat,
            resume: Resume]

Init ==
  /\ run = [r \in Run |-> NoRow]
  /\ asks = [r \in Run |-> 0]
  /\ finals = [r \in Run |-> 0]
  /\ attempt = [w \in Worker |-> "none"]
  /\ jobs = [r \in Run |-> {}]
  /\ sending = {}
  /\ stopping = {}
  /\ locked = FALSE
  /\ worker = [w \in Worker |-> Idle]
  /\ faults = 0
  /\ stalls = 0

-----------------------------------------------------------------------------
(* What a handler knows and what the guarded updates compare.              *)

AllowedTransitions ==
  [queued           |-> {"leased", "cancelled"},
   leased           |-> {"running", "queued", "cancelled"},
   running          |-> {"waiting_input", "waiting_takeover", "completed", "failed",
                         "cancelled", "leased"},
   waiting_input    |-> {"queued", "leased", "cancelled"},
   waiting_takeover |-> {"queued", "leased", "cancelled"},
   completed        |-> {},
   failed           |-> {"queued"},
   cancelled        |-> {}]

CanTransition(from, to) == to \in AllowedTransitions[from]

NextFence(current) == current + 1

Busy(w) == worker[w].pc # "idle"
InRun(w, r) == Busy(w) /\ worker[w].run = r

\* The row still carries the owner and fence this handler wrote.
Token(w) ==
  /\ worker[w].pc \in {"leased", "started", "working"}
  /\ run[worker[w].run].owner = Owner[w]
  /\ run[worker[w].run].fence = worker[w].fence

\* Slip: the where clause forgets the status.
HoldsWithoutStatus(w) == Token(w)

\* The where clause of every write a handler makes to the row of its run.
Holds(w) == Token(w) /\ run[worker[w].run].status = "running"

\* Slip: the row is leased by id, trusting the status that was read before.
LeasableById(row) == row.status # "absent"

\* A run whose lease a new handler may take.
Leasable(row) ==
  \/ row.status \in {"queued", "waiting_input", "waiting_takeover"}
  \/ row.status \in Claimed /\ row.lease = "lapsed"

\* The handler returns.  Whatever it wrote, finally leaves no attempt running.
Exit(w) ==
  /\ worker' = [worker EXCEPT ![w] = Idle]
  /\ attempt' = [attempt EXCEPT ![w] = "none"]
Goto(w, pc) == worker' = [worker EXCEPT ![w].pc = pc]
Retry(r) == jobs' = [jobs EXCEPT ![r] = @ \cup {"retry"}]
Send(r) == sending' = sending \cup {r}
Fault == faults < MaxFaults /\ faults' = faults + 1 /\ UNCHANGED stalls

-----------------------------------------------------------------------------
(* Jobs and the reconciler.                                                *)

\* The enqueue call reaches the job table; the job key keeps one pending job.
EnqueueLands(r) ==
  /\ r \in sending
  /\ sending' = sending \ {r}
  /\ jobs' = [jobs EXCEPT ![r] = @ \cup {"keyed"}]
  /\ UNCHANGED <<run, thread, attempt, cancels, worker, budget>>

\* The process that committed the row dies, or the call fails, before it lands.
EnqueueLost(r) ==
  /\ r \in sending
  /\ Fault
  /\ sending' = sending \ {r}
  /\ UNCHANGED <<run, thread, attempt, jobs, cancels, worker>>

\* Slip: the scan forgets the runs whose handler died.
DueWhenQueued(r) == run[r].status = "queued"

Due(r) == run[r].status = "queued" \/ (run[r].status \in Claimed /\ run[r].lease = "lapsed")

\* The scan reads the due runs; its enqueue calls land afterwards.
Reconcile ==
  /\ \E r \in Run : Due(r)
  /\ sending' = sending \cup {r \in Run : Due(r)}
  /\ UNCHANGED <<run, thread, attempt, jobs, cancels, worker, budget>>

\* Wall-clock time passes leaseExpiresAt and no handler is renewing the lease.
LapseAbandoned(r) ==
  /\ run[r].status \in Claimed /\ run[r].lease = "live"
  /\ ~ \E w \in Worker : InRun(w, r) /\ Token(w)
  /\ run' = [run EXCEPT ![r].lease = "lapsed"]
  /\ UNCHANGED <<thread, attempt, jobs, sending, cancels, worker, budget>>

\* The same although its handler is alive: the process was frozen for five minutes.
LapseStalled(r) ==
  /\ run[r].status \in Claimed /\ run[r].lease = "live"
  /\ stalls < MaxStalls
  /\ stalls' = stalls + 1
  /\ run' = [run EXCEPT ![r].lease = "lapsed"]
  /\ UNCHANGED <<thread, attempt, jobs, sending, cancels, worker, faults>>

-----------------------------------------------------------------------------
(* continueRun, one database statement at a time.                          *)

\* A slot picks up a job and reads the row.  Fence and checkpoint are computed
\* from this read, and used after it.
EnterRun(w, r) ==
  /\ ~Busy(w)
  /\ \E j \in jobs[r] : jobs' = [jobs EXCEPT ![r] = @ \ {j}]
  /\ IF run[r].status \in Terminal
     THEN UNCHANGED worker
     ELSE worker' = [worker EXCEPT ![w] =
            [pc |-> "entered", run |-> r, fence |-> NextFence(run[r].fence),
             resume |-> run[r].checkpoint]]
  /\ UNCHANGED <<run, thread, attempt, sending, cancels, budget>>

LeasedRow(w) ==
  [status |-> "leased", owner |-> Owner[w], fence |-> worker[w].fence,
   lease |-> "live", checkpoint |-> "none"]

LeaseRun(w) ==
  LET r == worker[w].run IN
  /\ worker[w].pc = "entered"
  /\ IF Leasable(run[r])
     THEN /\ run' = [run EXCEPT ![r] = LeasedRow(w)]
          /\ Goto(w, "leased")
          /\ UNCHANGED attempt
     ELSE Exit(w) /\ UNCHANGED run
  /\ UNCHANGED <<thread, jobs, sending, cancels, budget>>

\* The row is read again and must be able to start.  assertTransition throws when
\* that read already shows a row no longer leased, and the job is retried; a row
\* that changed after the read fails the guarded update and the handler returns.
StartRun(w) ==
  LET r == worker[w].run IN
  /\ worker[w].pc = "leased"
  /\ IF Token(w) /\ run[r].status = "leased"
     THEN /\ run' = [run EXCEPT ![r].status = "running"]
          /\ Goto(w, "started")
          /\ UNCHANGED <<jobs, attempt>>
     ELSE /\ Exit(w)
          /\ UNCHANGED run
          /\ \/ UNCHANGED jobs
             \/ /\ run[r].status \in Active \ {"running"}
                /\ ~CanTransition(run[r].status, "running")
                /\ Retry(r)
  /\ UNCHANGED <<thread, sending, cancels, budget>>

QueuedAgain(w) ==
  [run[worker[w].run] EXCEPT !.status = "queued", !.owner = NoOwner, !.lease = "none",
                             !.checkpoint = worker[w].resume]

\* The computer is switching or busy: the run goes back to the queue.
RequeueComputerRun(w) ==
  LET r == worker[w].run IN
  /\ worker[w].pc = "started"
  /\ Fault
  /\ IF Holds(w)
     THEN run' = [run EXCEPT ![r] = QueuedAgain(w)] /\ Send(r)
     ELSE UNCHANGED <<run, sending>>
  /\ Exit(w)
  /\ UNCHANGED <<thread, jobs, cancels>>

\* No computer, or a database error, before the attempt exists: the job is retried
\* and the row stays "running" until its lease lapses.
PrepareThrows(w) ==
  /\ worker[w].pc = "started"
  /\ Fault
  /\ Exit(w)
  /\ Retry(worker[w].run)
  /\ UNCHANGED <<run, thread, sending, cancels>>

BeginAttempt(w) ==
  /\ worker[w].pc = "started"
  /\ attempt' = [attempt EXCEPT ![w] = "running"]
  /\ Goto(w, "working")
  /\ UNCHANGED <<run, thread, jobs, sending, cancels, budget>>

\* The heartbeat, and the renewal before every commit; expiry is not consulted.
RenewRunLease(w) ==
  /\ worker[w].pc = "working"
  /\ Holds(w)
  /\ run' = [run EXCEPT ![worker[w].run].lease = "live"]
  /\ UNCHANGED <<thread, attempt, jobs, sending, cancels, worker, budget>>

\* Setup fails after the attempt began: back to the queue with the checkpoint the
\* handler consumed; a busy computer enqueues, any other error retries the job.
SetupFails(w) ==
  LET r == worker[w].run IN
  /\ worker[w].pc = "working"
  /\ Fault
  /\ IF Holds(w)
     THEN /\ run' = [run EXCEPT ![r] = QueuedAgain(w)]
          /\ \/ Send(r) /\ UNCHANGED jobs
             \/ Retry(r) /\ UNCHANGED sending
     ELSE UNCHANGED <<run, jobs, sending>>
  /\ Exit(w)
  /\ UNCHANGED <<thread, cancels>>

\* A transaction that moves the row away from its handler and closes the attempt
\* with it; with no open attempt it throws and is rolled back.  Every
\* transaction that writes to the thread locks the thread's row first.
Commit(w, status) ==
  LET r == worker[w].run IN
  /\ worker[w].pc = "working"
  /\ Holds(w)
  /\ attempt[w] = "running"
  /\ ~locked
  /\ run' = [run EXCEPT ![r].status = status, ![r].owner = NoOwner, ![r].lease = "none"]
  /\ Exit(w)
  /\ UNCHANGED <<jobs, sending, cancels, budget>>

PauseRunForInput(w) ==
  /\ Commit(w, "waiting_input")
  /\ asks' = [asks EXCEPT ![worker[w].run] = @ + 1]
  /\ UNCHANGED finals

PauseRunForTakeover(w) == Commit(w, "waiting_takeover") /\ UNCHANGED thread

FinalizeRun(w, outcome) ==
  /\ Commit(w, outcome)
  /\ finals' = [finals EXCEPT ![worker[w].run] = IF outcome = "completed" THEN @ + 1 ELSE @]
  /\ UNCHANGED asks

\* The lease check between events, or a refused commit, ends a handler that lost
\* its row without another write to it.
AbandonRun(w) ==
  /\ worker[w].pc = "working"
  /\ ~Holds(w)
  /\ Exit(w)
  /\ UNCHANGED <<run, thread, jobs, sending, cancels, budget>>

\* The heartbeat fails (a database error, or the computer lease is gone) while the
\* row is still its own: the handler stops and the row waits for the lease to lapse.
HeartbeatFails(w) ==
  /\ worker[w].pc = "working"
  /\ Holds(w)
  /\ Fault
  /\ Exit(w)
  /\ UNCHANGED <<run, thread, jobs, sending, cancels>>

\* The process dies: nothing is written; the job queue may hand the job out again.
Crash(w) ==
  /\ Busy(w)
  /\ Fault
  /\ Exit(w)
  /\ UNCHANGED jobs \/ Retry(worker[w].run)
  /\ UNCHANGED <<run, thread, sending, cancels>>

-----------------------------------------------------------------------------
(* Requests.  Each commits one transaction and then enqueues.              *)

\* A message, a routine or another bot creates the run.
SendUserMessage(r) ==
  /\ ~locked
  /\ run[r].status = "absent"
  /\ run' = [run EXCEPT ![r].status = "queued"]
  /\ Send(r)
  /\ UNCHANGED <<thread, attempt, jobs, cancels, worker, budget>>

AnswerRunInput(r) ==
  /\ ~locked
  /\ run[r].status = "waiting_input" /\ asks[r] > 0
  /\ run[r].fence <= MaxFence
  /\ run' = [run EXCEPT ![r].status = "queued"]
  /\ asks' = [asks EXCEPT ![r] = @ - 1]
  /\ Send(r)
  /\ UNCHANGED <<finals, attempt, jobs, cancels, worker, budget>>

ReleaseControl(r, resume) ==
  /\ ~locked
  /\ run[r].status = "waiting_takeover"
  /\ run[r].fence <= MaxFence
  /\ run' = [run EXCEPT ![r].status = "queued", ![r].checkpoint = resume]
  /\ Send(r)
  /\ UNCHANGED <<thread, attempt, jobs, cancels, worker, budget>>

\* stopThreadRuns reads the ids of the active runs; it takes no lock.  (Bound:
\* one request at a time is between its read and its write.)
StopReadsRuns ==
  /\ stopping = {} /\ ~locked
  /\ stopping' = {r \in Run : run[r].status \in Active}
  /\ UNCHANGED <<run, thread, attempt, jobs, sending, locked, worker, budget>>

\* A later message reads the queued runs it supersedes, in its own transaction: other
\* sessions may lease and start them before it cancels them.
SupersedeReadsRuns ==
  /\ stopping = {} /\ ~locked
  /\ \E r \in Run : run[r].status = "queued"
  /\ stopping' = {r \in Run : run[r].status = "queued"}
  /\ locked' = TRUE
  /\ UNCHANGED <<run, thread, attempt, jobs, sending, worker, budget>>

\* Both then cancel by id, whatever the status is by now.
CancelById ==
  /\ run' = [r \in Run |-> IF r \in stopping THEN [run[r] EXCEPT !.status = "cancelled"]
                                             ELSE run[r]]
  /\ stopping' = {}
  /\ UNCHANGED <<thread, attempt, jobs, sending, worker, budget>>

StopCancelsRuns == stopping # {} /\ ~locked /\ CancelById /\ UNCHANGED locked

CancelSupersededQueuedRuns == locked /\ CancelById /\ locked' = FALSE

\* Slip: every attempt is closed but only the runs nobody executes are cancelled.
ClearThreadKeepsClaimed ==
  LET hit == {r \in Run : run[r].status \in Active \ Claimed} IN
  /\ run' = [r \in Run |-> IF r \in hit THEN [run[r] EXCEPT !.status = "cancelled",
                                                !.owner = NoOwner, !.lease = "none"]
                                        ELSE run[r]]
  /\ attempt' = [w \in Worker |-> IF attempt[w] = "running" THEN "closed" ELSE attempt[w]]
  /\ asks' = [r \in Run |-> 0]
  /\ UNCHANGED <<finals, jobs, sending, cancels, worker, budget>>

\* clearThread cancels under the thread lock and deletes the thread's messages.
ClearThread ==
  LET hit == {r \in Run : run[r].status \in Active} IN
  /\ ~locked
  /\ run' = [r \in Run |-> IF r \in hit THEN [run[r] EXCEPT !.status = "cancelled",
                                                !.owner = NoOwner, !.lease = "none"]
                                        ELSE run[r]]
  /\ attempt' = [w \in Worker |->
                   IF attempt[w] = "running" /\ worker[w].run \in hit THEN "closed"
                                                                     ELSE attempt[w]]
  /\ asks' = [r \in Run |-> 0]
  /\ UNCHANGED <<finals, jobs, sending, cancels, worker, budget>>

-----------------------------------------------------------------------------
\* What a handler does when nothing goes wrong.
HandlerStep(w) ==
  \/ LeaseRun(w)
  \/ StartRun(w)
  \/ BeginAttempt(w)
  \/ PauseRunForInput(w)
  \/ PauseRunForTakeover(w)
  \/ \E outcome \in {"completed", "failed"} : FinalizeRun(w, outcome)
  \/ AbandonRun(w)

HandlerFault(w) ==
  \/ RequeueComputerRun(w)
  \/ PrepareThrows(w)
  \/ SetupFails(w)
  \/ HeartbeatFails(w)
  \/ Crash(w)

Next ==
  \/ \E w \in Worker : HandlerStep(w) \/ HandlerFault(w) \/ RenewRunLease(w)
  \/ \E w \in Worker, r \in Run : EnterRun(w, r)
  \/ \E r \in Run : EnqueueLands(r) \/ EnqueueLost(r) \/ LapseAbandoned(r) \/ LapseStalled(r)
  \/ Reconcile
  \/ \E r \in Run : SendUserMessage(r) \/ AnswerRunInput(r)
  \/ \E r \in Run, resume \in Resume \ {"none"} : ReleaseControl(r, resume)
  \/ StopReadsRuns \/ StopCancelsRuns \/ ClearThread
  \/ SupersedeReadsRuns \/ CancelSupersededQueuedRuns

Spec == Init /\ [][Next]_vars

\* The scheduler runs every slot, the job queue hands out every job in the end, the
\* reconciler's timer fires, time passes and a transaction ends.  No user and no fault is fair.
Fairness ==
  /\ \A w \in Worker : WF_vars(HandlerStep(w))
  /\ \A r \in Run : SF_vars(\E w \in Worker : EnterRun(w, r))
  /\ \A r \in Run : WF_vars(EnqueueLands(r)) /\ WF_vars(LapseAbandoned(r))
  /\ WF_vars(Reconcile)
  /\ WF_vars(CancelSupersededQueuedRuns)

FairSpec == Spec /\ Fairness
-----------------------------------------------------------------------------
(* Properties.                                                             *)

\* Types of the variables.
TypeOK ==
  /\ run \in [Run -> RunRow]
  /\ asks \in [Run -> Nat]
  /\ finals \in [Run -> Nat]
  /\ attempt \in [Worker -> AttemptStatus]
  /\ jobs \in [Run -> SUBSET {"keyed", "retry"}]
  /\ sending \subseteq Run
  /\ stopping \subseteq Run
  /\ locked \in BOOLEAN
  /\ worker \in [Worker -> Handler \cup {Idle}]
  /\ faults \in Nat
  /\ stalls \in Nat

\* At most one handler passes the where clause of a commit for a run: leaseOwner and
\* leaseFence name it.
HoldsAlone ==
  \A v, w \in Worker :
    v # w /\ Token(v) /\ Token(w) /\ run[worker[v].run].status \in Claimed
      => worker[v].run # worker[w].run

\* Two handlers never both pass the where clause of a commit for the same run, although
\* the fence a handler writes was computed from a row it read earlier and the slots of a
\* process share a workerId: as long as no lease has lapsed under a living handler, the
\* guarded lease lets in one of those that read the same fence.
OneHolder == stalls = 0 => HoldsAlone

\* A handler that may still commit finds its attempt open, so the transactions'
\* "attempt was not available" rollback is never what strands a run.
HolderCanCommit ==
  \A w \in Worker : worker[w].pc = "working" /\ Holds(w) => attempt[w] = "running"

\* finalizeRun writes at most one completion message per run, whatever crashes,
\* retries, stolen leases and duplicate jobs happen, and never leaves the run alive.
OneFinalMessage ==
  \A r \in Run : finals[r] <= 1 /\ (finals[r] = 1 => run[r].status \in Terminal)

\* The strengthening that makes the invariants above inductive.  A row that nobody
\* claims carries no owner; an attempt is open until its run is over; and until a
\* handler has stalled, each keeps its row until it leaves it or the run is over, so that
\* a lapsed lease has no handler left.
PastLease(w) == worker[w].pc \in {"leased", "started", "working"}

FreeRowsHaveNoOwner ==
  \A r \in Run : run[r].status \notin Claimed \cup {"cancelled"} => run[r].owner = NoOwner

AttemptsFollowHandlers ==
  \A w \in Worker :
    /\ worker[w].pc = "working" => attempt[w] # "none"
    /\ attempt[w] # "none" => worker[w].pc = "working"
    /\ attempt[w] = "closed" => run[worker[w].run].status \in Terminal

HandlersKeepRows ==
  \A w \in Worker : PastLease(w) =>
    \/ run[worker[w].run].status \in Terminal
    \/ Token(w) /\ run[worker[w].run].status \in Claimed /\ run[worker[w].run].lease = "live"

RunInv ==
  /\ FreeRowsHaveNoOwner
  /\ AttemptsFollowHandlers
  /\ OneFinalMessage
  /\ stalls = 0 => HandlersKeepRows /\ HoldsAlone

\* Once cancelled (stop, clear, superseded) a run stays cancelled and nothing more is
\* written to its thread, even by a handler that was about to commit.
CancelledIsSilent ==
  [][\A r \in Run : run[r].status = "cancelled" =>
       /\ run'[r].status = "cancelled"
       /\ finals'[r] = finals[r]
       /\ asks'[r] <= asks[r]]_vars

\* Every run that is queued or claimed is settled in the end, through crashes, lost
\* enqueues, busy computers and stalls: it finishes, or it waits for the user.
RunSettles ==
  \A r \in Run : run[r].status \in {"queued"} \cup Claimed
                 ~> run[r].status \in Terminal \cup {"waiting_input", "waiting_takeover"}

\* The abstract view of the tables: what a user can tell about a run.
PhaseOf(status) ==
  CASE status = "absent" -> "new"
    [] status = "queued" -> "ready"
    [] status \in Claimed -> "held"
    [] status \in {"waiting_input", "waiting_takeover"} -> "parked"
    [] status \in Terminal -> "over"

Holding(w, r) == InRun(w, r) /\ Token(w) /\ run[r].status \in Claimed

HolderOf(r) ==
  IF \E w \in Worker : Holding(w, r) THEN CHOOSE w \in Worker : Holding(w, r) ELSE NoOwner

Promise == INSTANCE RunPromise WITH
  phase <- [r \in Run |-> PhaseOf(run[r].status)],
  holder <- [r \in Run |-> HolderOf(r)],
  delivered <- finals,
  Nobody <- NoOwner

\* The tables and the handlers implement the promise: one handler at a time, which
\* alone parks, hands back or delivers, at most once, and nothing after the end.
KeepsPromise == Promise!Spec

\* run-state.test.ts:15, "never leaves a terminal state except failed retry".
TerminalIsFinal ==
  [][\A r \in Run : run[r].status \in {"completed", "cancelled"} =>
       run'[r].status = run[r].status]_vars

=============================================================================
