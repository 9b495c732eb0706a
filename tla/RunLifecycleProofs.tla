------------------------- MODULE RunLifecycleProofs -------------------------
(* Theorems about RunLifecycle for every number of runs, slots and faults, *)
(* the implementation of RunPromise included.                              *)
EXTENDS RunLifecycle, TLAPS

(* The two halves of a request that cancels runs by the ids it read. *)
ReadsRuns == StopReadsRuns \/ SupersedeReadsRuns
CancelsById == StopCancelsRuns \/ CancelSupersededQueuedRuns

(* The domains of the rows and of the handlers' locals. *)
LEMMA RowFacts ==
  /\ NoRow \in RunRow
  /\ Idle \notin Handler /\ Idle.pc = "idle"
  /\ \A h \in Handler : h.pc # "idle" /\ h.run \in Run /\ h.fence \in Nat /\ h.resume \in Resume
BY RunAssumption DEF NoRow, RunRow, Status, Active, Terminal, Resume, Idle, Handler

LEMMA InitType == Init => TypeOK
<1> SUFFICES ASSUME Init PROVE TypeOK
  OBVIOUS
<1>1. locked \in BOOLEAN
  BY Zenon DEF Init
<1>2. /\ run \in [Run -> RunRow] /\ asks \in [Run -> Nat] /\ finals \in [Run -> Nat]
      /\ attempt \in [Worker -> AttemptStatus]
      /\ jobs \in [Run -> SUBSET {"keyed", "retry"}]
      /\ sending \subseteq Run /\ stopping \subseteq Run
      /\ worker \in [Worker -> Handler \cup {Idle}]
      /\ faults \in Nat /\ stalls \in Nat
  BY RowFacts DEF Init, AttemptStatus
<1>q. QED BY <1>1, <1>2 DEF TypeOK

(* What a busy slot's locals are, from the type invariant. *)
LEMMA BusyHandler ==
  ASSUME TypeOK, NEW w \in Worker, worker[w].pc # "idle"
  PROVE  /\ worker[w] \in Handler
         /\ worker[w].run \in Run /\ worker[w].fence \in Nat /\ worker[w].resume \in Resume
         /\ Owner[w] \in OwnerId
BY RowFacts, RunAssumption DEF TypeOK

(* An idle slot and a slot that moves on keep the type of worker. *)
LEMMA WorkerType ==
  ASSUME TypeOK, NEW w \in Worker
  PROVE  /\ [worker EXCEPT ![w] = Idle] \in [Worker -> Handler \cup {Idle}]
         /\ \A pc \in {"leased", "started", "working"} :
              worker[w].pc # "idle" =>
                [worker EXCEPT ![w].pc = pc] \in [Worker -> Handler \cup {Idle}]
<1>1. [worker EXCEPT ![w] = Idle] \in [Worker -> Handler \cup {Idle}]
  BY DEF TypeOK
<1>2. ASSUME NEW pc \in {"leased", "started", "working"}, worker[w].pc # "idle"
      PROVE  [worker EXCEPT ![w].pc = pc] \in [Worker -> Handler \cup {Idle}]
  <2>1. worker[w] \in Handler
    BY <1>2, BusyHandler
  <2>2. [worker[w] EXCEPT !.pc = pc] \in Handler
    BY <2>1, <1>2 DEF Handler
  <2>q. QED
    BY <2>2 DEF TypeOK
<1>q. QED BY <1>1, <1>2

(* The rows the handlers write. *)
LEMMA RowType ==
  ASSUME TypeOK, NEW r \in Run
  PROVE  /\ run[r] \in RunRow
         /\ \A s \in Status : [run[r] EXCEPT !.status = s] \in RunRow
         /\ \A l \in {"none", "live", "lapsed"} : [run[r] EXCEPT !.lease = l] \in RunRow
         /\ \A s \in Status, c \in Resume :
              [run[r] EXCEPT !.status = s, !.checkpoint = c] \in RunRow
         /\ \A s \in Status :
              [run[r] EXCEPT !.status = s, !.owner = NoOwner, !.lease = "none"] \in RunRow
<1>1. run[r] \in RunRow
  BY DEF TypeOK
<1>q. QED BY <1>1 DEF RunRow

LEMMA HandlerRowType ==
  ASSUME TypeOK, NEW w \in Worker, worker[w].pc # "idle"
  PROVE  LeasedRow(w) \in RunRow /\ QueuedAgain(w) \in RunRow
<1>1. worker[w].run \in Run /\ worker[w].fence \in Nat /\ worker[w].resume \in Resume
      /\ Owner[w] \in OwnerId
  BY BusyHandler
<1>2. run[worker[w].run] \in RunRow
  BY <1>1 DEF TypeOK
<1>3. LeasedRow(w) \in RunRow
  BY <1>1 DEF LeasedRow, RunRow, Status, Active, Resume
<1>4. QueuedAgain(w) \in RunRow
  BY <1>1, <1>2 DEF QueuedAgain, RunRow, Status, Active, Resume
<1>q. QED BY <1>3, <1>4

LEMMA HandlerStepType ==
  ASSUME TypeOK, NEW w \in Worker, HandlerStep(w)
  PROVE  TypeOK'
<1>b. worker[w].pc # "idle"
  BY DEF HandlerStep, LeaseRun, StartRun, BeginAttempt, PauseRunForInput, PauseRunForTakeover,
         FinalizeRun, AbandonRun, Commit
<1>w. worker[w].run \in Run
  BY <1>b, BusyHandler
<1>s. {"running", "waiting_input", "waiting_takeover", "completed", "failed"} \subseteq Status
  BY DEF Status, Active, Terminal
<1>1. CASE LeaseRun(w)
  <2>1. LeasedRow(w) \in RunRow
    BY <1>b, HandlerRowType
  <2>q. QED
    BY <1>1, <1>b, <1>w, <2>1, WorkerType
    DEF LeaseRun, Goto, Exit, TypeOK, thread, budget, AttemptStatus, cancels
<1>2. CASE StartRun(w)
  <2>1. CASE Token(w) /\ run[worker[w].run].status = "leased"
    <3>0. [run[worker[w].run] EXCEPT !.status = "running"] \in RunRow
      BY <1>w, <1>s, RowType
    <3>1. run' \in [Run -> RunRow]
      BY <1>2, <2>1, <1>w, <3>0 DEF StartRun, TypeOK, cancels
    <3>2. worker' \in [Worker -> Handler \cup {Idle}]
      BY <1>2, <2>1, <1>b, WorkerType DEF StartRun, Goto
    <3>q. QED
      BY <1>2, <2>1, <3>1, <3>2 DEF StartRun, TypeOK, thread, budget, cancels
  <2>2. CASE ~(Token(w) /\ run[worker[w].run].status = "leased")
    <3>1. worker' \in [Worker -> Handler \cup {Idle}] /\ attempt' \in [Worker -> AttemptStatus]
      BY <1>2, <2>2, WorkerType DEF StartRun, Exit, TypeOK, AttemptStatus, cancels
    <3>2. jobs' \in [Run -> SUBSET {"keyed", "retry"}]
      BY <1>2, <2>2, <1>w DEF StartRun, Retry, TypeOK, cancels
    <3>q. QED
      BY <1>2, <2>2, <3>1, <3>2 DEF StartRun, TypeOK, thread, budget, cancels
  <2>q. QED
    BY <2>1, <2>2
<1>3. CASE BeginAttempt(w)
  BY <1>3, <1>b, WorkerType DEF BeginAttempt, Goto, TypeOK, thread, budget, AttemptStatus, cancels
<1>4. ASSUME NEW s \in {"waiting_input", "waiting_takeover", "completed", "failed"}, Commit(w, s)
      PROVE  /\ run' \in [Run -> RunRow]
             /\ attempt' \in [Worker -> AttemptStatus]
             /\ worker' \in [Worker -> Handler \cup {Idle}]
             /\ UNCHANGED <<jobs, sending, stopping, locked, faults, stalls>>
  BY <1>4, <1>w, <1>s, WorkerType, RowType
  DEF Commit, Exit, TypeOK, AttemptStatus, budget, cancels
<1>5. CASE PauseRunForInput(w)
  <2>1. asks' \in [Run -> Nat] /\ finals' = finals
    BY <1>5, <1>w DEF PauseRunForInput, TypeOK, cancels
  <2>q. QED
    BY <1>5, <1>4, <2>1 DEF PauseRunForInput, TypeOK, cancels
<1>6. CASE PauseRunForTakeover(w)
  BY <1>6, <1>4 DEF PauseRunForTakeover, TypeOK, thread, cancels
<1>7. ASSUME NEW outcome \in {"completed", "failed"}, FinalizeRun(w, outcome) PROVE TypeOK'
  <2>1. finals' \in [Run -> Nat] /\ asks' = asks
    BY <1>7, <1>w DEF FinalizeRun, TypeOK, cancels
  <2>q. QED
    BY <1>7, <1>4, <2>1 DEF FinalizeRun, TypeOK, cancels
<1>8. CASE AbandonRun(w)
  BY <1>8, WorkerType DEF AbandonRun, Exit, TypeOK, thread, budget, AttemptStatus, cancels
<1>q. QED
  BY <1>1, <1>2, <1>3, <1>5, <1>6, <1>7, <1>8 DEF HandlerStep

LEMMA HandlerFaultType ==
  ASSUME TypeOK, NEW w \in Worker, HandlerFault(w) \/ RenewRunLease(w)
  PROVE  TypeOK'
<1>b. worker[w].pc # "idle"
  BY DEF HandlerFault, RequeueComputerRun, PrepareThrows, SetupFails, HeartbeatFails, Crash,
         RenewRunLease, Busy
<1>w. worker[w].run \in Run /\ QueuedAgain(w) \in RunRow
  BY <1>b, BusyHandler, HandlerRowType
<1>f. Fault => faults' \in Nat /\ stalls' = stalls
  BY DEF Fault, TypeOK, cancels
<1>1. CASE RequeueComputerRun(w)
  BY <1>1, <1>w, <1>f, WorkerType
  DEF RequeueComputerRun, Exit, Send, TypeOK, thread, AttemptStatus, cancels
<1>2. CASE PrepareThrows(w)
  BY <1>2, <1>w, <1>f, WorkerType
  DEF PrepareThrows, Exit, Retry, TypeOK, thread, AttemptStatus, cancels
<1>3. CASE SetupFails(w)
  BY <1>3, <1>w, <1>f, WorkerType
  DEF SetupFails, Exit, Send, Retry, TypeOK, thread, AttemptStatus, cancels
<1>4. CASE HeartbeatFails(w)
  BY <1>4, <1>f, WorkerType DEF HeartbeatFails, Exit, TypeOK, thread, AttemptStatus, cancels
<1>5. CASE Crash(w)
  BY <1>5, <1>w, <1>f, WorkerType DEF Crash, Exit, Retry, TypeOK, thread, AttemptStatus, cancels
<1>6. CASE RenewRunLease(w)
  BY <1>6, <1>w, RowType DEF RenewRunLease, TypeOK, thread, budget, cancels
<1>q. QED
  BY <1>1, <1>2, <1>3, <1>4, <1>5, <1>6 DEF HandlerFault

LEMMA JobStepType ==
  ASSUME TypeOK, NEW r \in Run,
         EnqueueLands(r) \/ EnqueueLost(r) \/ Reconcile \/ LapseAbandoned(r) \/ LapseStalled(r)
  PROVE  TypeOK'
<1>1. CASE EnqueueLands(r)
  BY <1>1 DEF EnqueueLands, TypeOK, thread, budget, cancels
<1>2. CASE EnqueueLost(r)
  BY <1>2 DEF EnqueueLost, Fault, TypeOK, thread, budget, cancels
<1>3. CASE Reconcile
  BY <1>3 DEF Reconcile, TypeOK, thread, budget, cancels
<1>4. CASE LapseAbandoned(r)
  BY <1>4, RowType DEF LapseAbandoned, TypeOK, thread, budget, cancels
<1>5. CASE LapseStalled(r)
  <2>1. stalls' \in Nat
    BY <1>5 DEF LapseStalled, TypeOK
  <2>2. [run[r] EXCEPT !.lease = "lapsed"] \in RunRow
    BY RowType
  <2>3. run' \in [Run -> RunRow]
    BY <1>5, <2>2 DEF LapseStalled, TypeOK
  <2>q. QED
    BY <1>5, <2>1, <2>3 DEF LapseStalled, TypeOK, thread, cancels
<1>q. QED BY <1>1, <1>2, <1>3, <1>4, <1>5

LEMMA EnterType ==
  ASSUME TypeOK, NEW w \in Worker, NEW r \in Run, EnterRun(w, r)
  PROVE  TypeOK'
<1>1. run[r] \in RunRow
  BY DEF TypeOK
<1>2. [pc |-> "entered", run |-> r, fence |-> NextFence(run[r].fence),
       resume |-> run[r].checkpoint] \in Handler
  BY <1>1 DEF RunRow, Handler, NextFence
<1>3. worker' \in [Worker -> Handler \cup {Idle}]
  BY <1>2 DEF EnterRun, TypeOK
<1>4. jobs' \in [Run -> SUBSET {"keyed", "retry"}]
  BY DEF EnterRun, TypeOK
<1>q. QED BY <1>3, <1>4 DEF EnterRun, TypeOK, thread, budget, cancels

LEMMA RequestType ==
  ASSUME TypeOK, NEW r \in Run, NEW c \in Resume,
         \/ SendUserMessage(r) \/ AnswerRunInput(r)
         \/ ReleaseControl(r, c) \/ ReadsRuns \/ CancelsById \/ ClearThread
  PROVE  TypeOK'
<1>s. {"queued", "cancelled"} \subseteq Status
  BY DEF Status, Active, Terminal
<1>1. CASE SendUserMessage(r)
  BY <1>1, <1>s, RowType DEF SendUserMessage, Send, TypeOK, thread, budget, cancels
<1>2. CASE AnswerRunInput(r)
  <2>1. asks' \in [Run -> Nat]
    BY <1>2 DEF AnswerRunInput, TypeOK
  <2>q. QED
    BY <1>2, <1>s, <2>1, RowType DEF AnswerRunInput, Send, TypeOK, budget, cancels
<1>4. CASE ReleaseControl(r, c)
  <2>1. [run[r] EXCEPT !.status = "queued", !.checkpoint = c] \in RunRow
    BY <1>s, RowType
  <2>q. QED
    BY <1>4, <2>1 DEF ReleaseControl, Send, TypeOK, thread, budget, cancels
<1>5. CASE ReadsRuns
  BY <1>5 DEF ReadsRuns, StopReadsRuns, SupersedeReadsRuns, TypeOK, thread, budget, cancels
<1>6. CASE CancelsById
  <2>1. \A q \in Run : run[q] \in RunRow /\ [run[q] EXCEPT !.status = "cancelled"] \in RunRow
    BY <1>s, RowType
  <2>q. QED
    BY <1>6, <2>1
    DEF CancelsById, StopCancelsRuns, CancelSupersededQueuedRuns, CancelById, TypeOK, thread,
        budget, cancels
<1>7. CASE ClearThread
  <2>1. \A q \in Run : run[q] \in RunRow
          /\ [run[q] EXCEPT !.status = "cancelled", !.owner = NoOwner, !.lease = "none"] \in RunRow
    BY <1>s, RowType
  <2>2. run' \in [Run -> RunRow]
    BY <1>7, <2>1 DEF ClearThread
  <2>3. attempt' \in [Worker -> AttemptStatus] /\ asks' \in [Run -> Nat]
    BY <1>7 DEF ClearThread, TypeOK, AttemptStatus
  <2>q. QED
    BY <1>7, <2>2, <2>3 DEF ClearThread, TypeOK, budget, cancels
<1>q. QED BY <1>1, <1>2, <1>4, <1>5, <1>6, <1>7

LEMMA NextType == TypeOK /\ [Next]_vars => TypeOK'
<1> SUFFICES ASSUME TypeOK, [Next]_vars PROVE TypeOK'
  OBVIOUS
<1>1. CASE UNCHANGED vars
  BY <1>1 DEF vars, TypeOK
<1>2. ASSUME NEW w \in Worker, HandlerStep(w) \/ HandlerFault(w) \/ RenewRunLease(w)
      PROVE  TypeOK'
  BY <1>2, HandlerStepType, HandlerFaultType
<1>3. ASSUME NEW w \in Worker, NEW r \in Run, EnterRun(w, r) PROVE TypeOK'
  BY <1>3, EnterType
<1>4. ASSUME NEW r \in Run,
             EnqueueLands(r) \/ EnqueueLost(r) \/ LapseAbandoned(r) \/ LapseStalled(r)
      PROVE  TypeOK'
  BY <1>4, JobStepType
<1>5. CASE Reconcile
  BY <1>5 DEF Reconcile, TypeOK, thread, budget, cancels
<1>6. ASSUME NEW r \in Run,
             SendUserMessage(r) \/ AnswerRunInput(r)
      PROVE  TypeOK'
  <2>1. "none" \in Resume
    BY DEF Resume
  <2>q. QED BY <1>6, <2>1, RequestType
<1>7. ASSUME NEW r \in Run, NEW c \in Resume \ {"none"}, ReleaseControl(r, c) PROVE TypeOK'
  BY <1>7, RequestType
<1>8. CASE ReadsRuns
  BY <1>8 DEF ReadsRuns, StopReadsRuns, SupersedeReadsRuns, TypeOK, thread, budget, cancels
<1>9. CASE CancelsById \/ ClearThread
  <2>1. CASE Run = {}
    BY <1>9, <2>1
    DEF CancelsById, StopCancelsRuns, CancelSupersededQueuedRuns, CancelById, ClearThread, TypeOK,
        thread, budget, AttemptStatus, cancels
  <2>2. ASSUME NEW r \in Run PROVE TypeOK'
    <3>1. "none" \in Resume
      BY DEF Resume
    <3>q. QED BY <1>9, <3>1, RequestType
  <2>q. QED BY <2>1, <2>2
<1>q. QED
  BY <1>1, <1>2, <1>3, <1>4, <1>5, <1>6, <1>7, <1>8, <1>9 DEF Next, ReadsRuns, CancelsById

(* Every reachable state has the declared types. *)
THEOREM TypeCorrect == Spec => []TypeOK
BY InitType, NextType, PTL DEF Spec

-----------------------------------------------------------------------------
(* The inductive invariant behind the safety theorems.                      *)

LEMMA StatusFacts ==
  /\ Claimed \cap Terminal = {} /\ "cancelled" \in Terminal
  /\ "queued" \notin Terminal \cup Claimed /\ "absent" \notin Terminal \cup Claimed
  /\ "running" \in Claimed /\ "leased" \in Claimed
  /\ "completed" \in Terminal /\ "failed" \in Terminal
  /\ "waiting_input" \notin Terminal \cup Claimed
  /\ "waiting_takeover" \notin Terminal \cup Claimed
BY DEF Claimed, Terminal

LEMMA InitInv == Init => RunInv
BY RunAssumption, StatusFacts
DEF Init, RunInv, FreeRowsHaveNoOwner, AttemptsFollowHandlers, OneFinalMessage, HandlersKeepRows,
    HoldsAlone, PastLease, Token, Idle, NoRow

(* The effect of every action on the rows, the handlers and the attempts, field by
   field: what the invariance proofs below need of the definitions. *)
Rest(r) == \A q \in Run \ {r} : run'[q] = run[q]
Others(w) == \A v \in Worker \ {w} : worker'[v] = worker[v] /\ attempt'[v] = attempt[v]
Leaves(w) == worker'[w].pc = "idle" /\ attempt'[w] = "none" /\ Others(w)
Moves(w, pc) ==
  /\ Others(w)
  /\ worker'[w].pc = pc /\ worker'[w].run = worker[w].run /\ worker'[w].fence = worker[w].fence
KeepsToken(r) == run'[r].owner = run[r].owner /\ run'[r].fence = run[r].fence

LEMMA LeavesByExit ==
  ASSUME TypeOK, NEW w \in Worker, Exit(w)
  PROVE  Leaves(w)
BY DEF Exit, Leaves, Others, TypeOK, Idle

LEMMA LeaseEffect ==
  ASSUME TypeOK, NEW w \in Worker, LeaseRun(w)
  PROVE  /\ worker[w].pc = "entered" /\ worker[w].run \in Run
         /\ UNCHANGED <<finals, asks, stalls>>
         /\ \/ run' = run /\ Leaves(w)
            \/ /\ Leasable(run[worker[w].run]) /\ Rest(worker[w].run)
               /\ attempt' = attempt /\ Moves(w, "leased")
               /\ run'[worker[w].run].status = "leased" /\ run'[worker[w].run].owner = Owner[w]
               /\ run'[worker[w].run].fence = worker[w].fence
               /\ run'[worker[w].run].lease = "live"
<1>1. worker[w].run \in Run /\ worker[w].pc = "entered"
  BY BusyHandler DEF LeaseRun
<1>2. CASE Leasable(run[worker[w].run])
  <2>1. worker[w] \in Handler
    BY <1>1, BusyHandler
  <2>2. Moves(w, "leased")
    BY <1>2, <2>1 DEF LeaseRun, Goto, Moves, Others, TypeOK, Handler
  <2>3. run' = [run EXCEPT ![worker[w].run] = LeasedRow(w)]
    BY <1>2 DEF LeaseRun
  <2>4. Rest(worker[w].run) /\ run'[worker[w].run] = LeasedRow(w)
    BY <1>1, <2>3 DEF Rest, TypeOK
  <2>q. QED
    BY <1>1, <1>2, <2>2, <2>4 DEF LeaseRun, LeasedRow, thread, budget, cancels
<1>3. CASE ~Leasable(run[worker[w].run])
  BY <1>1, <1>3, LeavesByExit DEF LeaseRun, thread, budget, cancels
<1>q. QED BY <1>2, <1>3

LEMMA StartEffect ==
  ASSUME TypeOK, NEW w \in Worker, StartRun(w)
  PROVE  /\ worker[w].pc = "leased" /\ worker[w].run \in Run
         /\ UNCHANGED <<finals, asks, stalls>>
         /\ \/ run' = run /\ Leaves(w)
            \/ /\ Token(w) /\ run[worker[w].run].status = "leased" /\ Rest(worker[w].run)
               /\ attempt' = attempt /\ Moves(w, "started") /\ KeepsToken(worker[w].run)
               /\ run'[worker[w].run].status = "running"
               /\ run'[worker[w].run].lease = run[worker[w].run].lease
<1>1. worker[w].run \in Run /\ worker[w].pc = "leased" /\ worker[w] \in Handler
  BY BusyHandler DEF StartRun
<1>2. CASE Token(w) /\ run[worker[w].run].status = "leased"
  <2>1. Moves(w, "started")
    BY <1>1, <1>2 DEF StartRun, Goto, Moves, Others, TypeOK, Handler
  <2>2. run' = [run EXCEPT ![worker[w].run].status = "running"]
    BY <1>2 DEF StartRun
  <2>q. QED
    BY <1>1, <1>2, <2>1, <2>2
    DEF StartRun, Rest, KeepsToken, TypeOK, RunRow, thread, budget, cancels
<1>3. CASE ~(Token(w) /\ run[worker[w].run].status = "leased")
  BY <1>1, <1>3, LeavesByExit DEF StartRun, thread, budget, cancels
<1>q. QED BY <1>2, <1>3

LEMMA BeginEffect ==
  ASSUME TypeOK, NEW w \in Worker, BeginAttempt(w)
  PROVE  /\ worker[w].pc = "started" /\ worker[w].run \in Run
         /\ UNCHANGED <<run, finals, asks, stalls>>
         /\ attempt'[w] = "running" /\ Moves(w, "working")
<1>1. worker[w].run \in Run /\ worker[w] \in Handler
  BY BusyHandler DEF BeginAttempt
<1>q. QED
  BY <1>1 DEF BeginAttempt, Goto, Moves, Others, TypeOK, Handler, thread, budget, cancels

LEMMA CommitEffect ==
  ASSUME TypeOK, NEW w \in Worker, NEW s, Commit(w, s)
  PROVE  /\ worker[w].pc = "working" /\ worker[w].run \in Run /\ Holds(w)
         /\ Rest(worker[w].run) /\ Leaves(w) /\ UNCHANGED stalls
         /\ run'[worker[w].run].status = s /\ run'[worker[w].run].owner = NoOwner
<1>1. worker[w].run \in Run
  BY BusyHandler DEF Commit
<1>2. run[worker[w].run] \in RunRow
  BY <1>1 DEF TypeOK
<1>q. QED
  BY <1>1, <1>2, LeavesByExit DEF Commit, Rest, TypeOK, RunRow, budget, cancels

\* The faults of a handler: it leaves, and its row is untouched or queued again.
LEMMA FaultEffect ==
  ASSUME TypeOK, NEW w \in Worker, HandlerFault(w) \/ AbandonRun(w)
  PROVE  /\ worker[w].run \in Run /\ Leaves(w) /\ UNCHANGED <<finals, asks, stalls>>
         /\ \/ run' = run
            \/ /\ Holds(w) /\ Rest(worker[w].run)
               /\ run'[worker[w].run].status = "queued" /\ run'[worker[w].run].owner = NoOwner
<1>1. worker[w].pc # "idle"
  BY DEF HandlerFault, RequeueComputerRun, PrepareThrows, SetupFails, HeartbeatFails, Crash,
         AbandonRun, Busy
<1>2. worker[w].run \in Run
  BY <1>1, BusyHandler
<1>x. /\ QueuedAgain(w).status = "queued" /\ QueuedAgain(w).owner = NoOwner
  <2>1. run[worker[w].run] \in RunRow
    BY <1>2 DEF TypeOK
  <2>q. QED BY <2>1 DEF QueuedAgain, RunRow
<1>y. ASSUME run' = [run EXCEPT ![worker[w].run] = QueuedAgain(w)]
      PROVE  /\ Rest(worker[w].run)
             /\ run'[worker[w].run].status = "queued" /\ run'[worker[w].run].owner = NoOwner
  BY <1>2, <1>x, <1>y DEF Rest, TypeOK
<1>3. CASE RequeueComputerRun(w)
  <2>1. Leaves(w) /\ UNCHANGED <<finals, asks, stalls>>
    BY <1>3, LeavesByExit DEF RequeueComputerRun, Fault, thread, cancels
  <2>2. CASE Holds(w)
    BY <1>2, <1>3, <1>y, <2>1, <2>2 DEF RequeueComputerRun
  <2>3. CASE ~Holds(w)
    BY <1>2, <1>3, <2>1, <2>3 DEF RequeueComputerRun
  <2>q. QED BY <2>2, <2>3
<1>4. CASE SetupFails(w)
  <2>1. Leaves(w) /\ UNCHANGED <<finals, asks, stalls>>
    BY <1>4, LeavesByExit DEF SetupFails, Fault, thread, cancels
  <2>2. CASE Holds(w)
    BY <1>2, <1>4, <1>y, <2>1, <2>2 DEF SetupFails
  <2>3. CASE ~Holds(w)
    BY <1>2, <1>4, <2>1, <2>3 DEF SetupFails
  <2>q. QED BY <2>2, <2>3
<1>5. CASE PrepareThrows(w) \/ HeartbeatFails(w) \/ Crash(w) \/ AbandonRun(w)
  BY <1>2, <1>5, LeavesByExit
  DEF PrepareThrows, HeartbeatFails, Crash, AbandonRun, Fault, thread, budget, cancels
<1>q. QED
  BY <1>3, <1>4, <1>5 DEF HandlerFault

LEMMA RenewEffect ==
  ASSUME TypeOK, NEW w \in Worker, RenewRunLease(w)
  PROVE  /\ worker[w].run \in Run /\ Rest(worker[w].run) /\ KeepsToken(worker[w].run)
         /\ UNCHANGED <<worker, attempt, finals, asks, stalls>>
         /\ run'[worker[w].run].status = run[worker[w].run].status
         /\ run'[worker[w].run].lease = "live"
<1>1. worker[w].run \in Run
  BY BusyHandler DEF RenewRunLease
<1>2. run[worker[w].run] \in RunRow
  BY <1>1 DEF TypeOK
<1>q. QED
  BY <1>1, <1>2 DEF RenewRunLease, Rest, KeepsToken, TypeOK, RunRow, thread, budget, cancels

\* A slot enters a run: it holds no lease yet and its attempt does not exist.
LEMMA EnterEffect ==
  ASSUME TypeOK, NEW w \in Worker, NEW r \in Run, EnterRun(w, r)
  PROVE  /\ UNCHANGED <<run, attempt, finals, asks, stalls>> /\ worker[w].pc = "idle"
         /\ Others(w) /\ worker'[w].pc \in {"idle", "entered"}
BY DEF EnterRun, Busy, Others, TypeOK, thread, budget, Idle, cancels

\* Enqueues, the scan, and time: at most a lease lapses.
LEMMA LapseEffect ==
  ASSUME TypeOK, NEW r \in Run,
         \/ EnqueueLands(r) \/ EnqueueLost(r) \/ Reconcile \/ ReadsRuns
         \/ LapseAbandoned(r) \/ LapseStalled(r)
  PROVE  /\ UNCHANGED <<worker, attempt, finals, asks>>
         /\ \/ run' = run
            \/ /\ Rest(r) /\ KeepsToken(r) /\ run'[r].status = run[r].status
               /\ run'[r].lease = "lapsed"
               /\ \/ ~ \E w \in Worker : InRun(w, r) /\ Token(w)
                  \/ stalls' = stalls + 1
<1>1. run[r] \in RunRow
  BY DEF TypeOK
<1>2. CASE EnqueueLands(r) \/ EnqueueLost(r) \/ Reconcile \/ ReadsRuns
  BY <1>2
  DEF EnqueueLands, EnqueueLost, Reconcile, ReadsRuns, StopReadsRuns, SupersedeReadsRuns, Fault,
      thread, budget, cancels
<1>3. CASE LapseAbandoned(r) \/ LapseStalled(r)
  BY <1>1, <1>3
  DEF LapseAbandoned, LapseStalled, Rest, KeepsToken, TypeOK, RunRow, thread, budget, cancels
<1>q. QED BY <1>2, <1>3

LEMMA RequestEffect ==
  ASSUME TypeOK, NEW r \in Run, NEW c \in Resume,
         \/ SendUserMessage(r) \/ AnswerRunInput(r)
         \/ ReleaseControl(r, c)
  PROVE  /\ UNCHANGED <<worker, attempt, finals, stalls>> /\ Rest(r)
         /\ run[r].status \notin Claimed \cup Terminal
         /\ run'[r].status \in {"queued", "cancelled"}
         /\ run'[r].owner = run[r].owner
<1>1. run[r] \in RunRow
  BY DEF TypeOK
<1>2. CASE SendUserMessage(r)
  BY <1>1, <1>2 DEF SendUserMessage, Rest, Claimed, Terminal, TypeOK,
                    RunRow, thread, budget, cancels
<1>3. CASE AnswerRunInput(r)
  BY <1>1, <1>3 DEF AnswerRunInput, Rest, Claimed, Terminal, TypeOK, RunRow, budget, cancels
<1>4. CASE ReleaseControl(r, c)
  BY <1>1, <1>4
  DEF ReleaseControl, Rest, Claimed, Terminal, TypeOK, RunRow, thread, budget, cancels
<1>q. QED BY <1>2, <1>3, <1>4

LEMMA EndEffect ==
  ASSUME TypeOK, CancelsById \/ ClearThread
  PROVE  /\ UNCHANGED <<worker, finals, stalls>>
         /\ \A q \in Run : run'[q] = run[q] \/ run'[q].status = "cancelled"
         /\ \A w \in Worker :
              \/ attempt'[w] = attempt[w]
              \/ /\ attempt[w] = "running" /\ attempt'[w] = "closed"
                 /\ worker[w].run \in Run => run'[worker[w].run].status = "cancelled"
<1>1. CASE CancelsById
  BY <1>1
  DEF CancelsById, StopCancelsRuns, CancelSupersededQueuedRuns, CancelById, TypeOK, RunRow,
      thread, budget, cancels
<1>2. CASE ClearThread
  <2>0. \A q \in Run : run'[q] = IF q \in {r \in Run : run[r].status \in Active}
                                THEN [run[q] EXCEPT !.status = "cancelled", !.owner = NoOwner,
                                                    !.lease = "none"]
                                ELSE run[q]
    BY <1>2 DEF ClearThread
  <2>1. ASSUME NEW q \in Run
        PROVE  /\ run'[q] = run[q] \/ run'[q].status = "cancelled"
               /\ run[q].status \in Active => run'[q].status = "cancelled"
    <3>1. run[q] \in RunRow
      BY DEF TypeOK
    <3>q. QED BY <2>0, <3>1 DEF RunRow
  <2>2. ASSUME NEW w \in Worker, attempt'[w] # attempt[w]
        PROVE  /\ attempt[w] = "running" /\ attempt'[w] = "closed"
               /\ worker[w].run \in Run => run'[worker[w].run].status = "cancelled"
    <3>1. /\ attempt[w] = "running" /\ attempt'[w] = "closed"
          /\ worker[w].run \in {r \in Run : run[r].status \in Active}
      BY <1>2, <2>2 DEF ClearThread
    <3>q. QED BY <3>1, <2>1
  <2>q. QED
    BY <1>2, <2>1, <2>2 DEF ClearThread, budget, cancels
<1>q. QED BY <1>1, <1>2

LEMMA FreeRowsStep == TypeOK /\ RunInv /\ Next => FreeRowsHaveNoOwner'
<1> SUFFICES ASSUME TypeOK, RunInv, Next, NEW q \in Run,
                    run'[q].status \notin Claimed \cup {"cancelled"}
             PROVE  run'[q].owner = NoOwner
  BY DEF FreeRowsHaveNoOwner
<1>0. run[q].status \notin Claimed \cup {"cancelled"} => run[q].owner = NoOwner
  BY DEF RunInv, FreeRowsHaveNoOwner
<1>1. ASSUME NEW w \in Worker, LeaseRun(w) PROVE run'[q].owner = NoOwner
  BY <1>0, <1>1, LeaseEffect, StatusFacts DEF Rest
<1>2. ASSUME NEW w \in Worker, StartRun(w) PROVE run'[q].owner = NoOwner
  BY <1>0, <1>2, StartEffect, StatusFacts DEF Rest
<1>3. ASSUME NEW w \in Worker, BeginAttempt(w) PROVE run'[q].owner = NoOwner
  BY <1>0, <1>3, BeginEffect
<1>4. ASSUME NEW w \in Worker, NEW s, Commit(w, s) PROVE run'[q].owner = NoOwner
  BY <1>0, <1>4, CommitEffect DEF Rest
<1>5. ASSUME NEW w \in Worker, HandlerFault(w) \/ AbandonRun(w) PROVE run'[q].owner = NoOwner
  BY <1>0, <1>5, FaultEffect DEF Rest
<1>6. ASSUME NEW w \in Worker, RenewRunLease(w) PROVE run'[q].owner = NoOwner
  BY <1>0, <1>6, RenewEffect DEF Rest, KeepsToken
<1>7. ASSUME NEW w \in Worker, NEW r \in Run, EnterRun(w, r) PROVE run'[q].owner = NoOwner
  BY <1>0, <1>7, EnterEffect
<1>8. ASSUME NEW r \in Run, \/ EnqueueLands(r) \/ EnqueueLost(r) \/ Reconcile \/ ReadsRuns
                            \/ LapseAbandoned(r) \/ LapseStalled(r)
      PROVE  run'[q].owner = NoOwner
  BY <1>0, <1>8, LapseEffect DEF Rest, KeepsToken
<1>9. ASSUME NEW r \in Run, NEW c \in Resume,
             \/ SendUserMessage(r) \/ AnswerRunInput(r)
             \/ ReleaseControl(r, c)
      PROVE  run'[q].owner = NoOwner
  BY <1>0, <1>9, RequestEffect, StatusFacts DEF Rest
<1>10. CASE CancelsById \/ ClearThread
  BY <1>0, <1>10, EndEffect
<1>11. "none" \in Resume
  BY DEF Resume
<1>q. QED
  BY <1>1, <1>2, <1>3, <1>4, <1>5, <1>6, <1>7, <1>8, <1>9, <1>10, <1>11
  DEF Next, ReadsRuns, CancelsById, HandlerStep, PauseRunForInput, PauseRunForTakeover,
      FinalizeRun

LEMMA AttemptsStep == TypeOK /\ RunInv /\ Next => AttemptsFollowHandlers'
<1> SUFFICES ASSUME TypeOK, RunInv, Next, NEW v \in Worker
             PROVE  /\ worker'[v].pc = "working" => attempt'[v] # "none"
                    /\ attempt'[v] # "none" => worker'[v].pc = "working"
                    /\ attempt'[v] = "closed" => run'[worker'[v].run].status \in Terminal
  BY DEF AttemptsFollowHandlers
<1> DEFINE Goal == /\ worker'[v].pc = "working" => attempt'[v] # "none"
                   /\ attempt'[v] # "none" => worker'[v].pc = "working"
                   /\ attempt'[v] = "closed" => run'[worker'[v].run].status \in Terminal
<1>0. /\ worker[v].pc = "working" => attempt[v] # "none"
      /\ attempt[v] # "none" => worker[v].pc = "working"
      /\ attempt[v] = "closed" => run[worker[v].run].status \in Terminal
      /\ attempt[v] # "none" => worker[v].run \in Run
  <2>1. /\ worker[v].pc = "working" => attempt[v] # "none"
        /\ attempt[v] # "none" => worker[v].pc = "working"
        /\ attempt[v] = "closed" => run[worker[v].run].status \in Terminal
    BY DEF RunInv, AttemptsFollowHandlers
  <2>q. QED BY <2>1, BusyHandler
<1> HIDE DEF Goal
<1>1. ASSUME NEW w \in Worker, LeaseRun(w) PROVE Goal
  BY <1>0, <1>1, LeaseEffect, StatusFacts
  DEF Goal, Rest, Leaves, Moves, Others, Leasable, Claimed, Terminal
<1>2. ASSUME NEW w \in Worker, StartRun(w) PROVE Goal
  BY <1>0, <1>2, StartEffect, StatusFacts DEF Goal, Rest, Leaves, Moves, Others, Claimed, Terminal
<1>3. ASSUME NEW w \in Worker, BeginAttempt(w) PROVE Goal
  BY <1>0, <1>3, BeginEffect DEF Goal, Moves, Others
<1>4. ASSUME NEW w \in Worker, NEW s, Commit(w, s) PROVE Goal
  BY <1>0, <1>4, CommitEffect, StatusFacts
  DEF Goal, Rest, Leaves, Others, Holds, Claimed, Terminal
<1>5. ASSUME NEW w \in Worker, HandlerFault(w) \/ AbandonRun(w) PROVE Goal
  BY <1>0, <1>5, FaultEffect, StatusFacts DEF Goal, Rest, Leaves, Others, Holds, Claimed, Terminal
<1>6. ASSUME NEW w \in Worker, RenewRunLease(w) PROVE Goal
  BY <1>0, <1>6, RenewEffect DEF Goal, Rest
<1>7. ASSUME NEW w \in Worker, NEW r \in Run, EnterRun(w, r) PROVE Goal
  BY <1>0, <1>7, EnterEffect DEF Goal, Others
<1>8. ASSUME NEW r \in Run, \/ EnqueueLands(r) \/ EnqueueLost(r) \/ Reconcile \/ ReadsRuns
                            \/ LapseAbandoned(r) \/ LapseStalled(r)
      PROVE  Goal
  BY <1>0, <1>8, LapseEffect DEF Goal, Rest
<1>9. ASSUME NEW r \in Run, NEW c \in Resume,
             \/ SendUserMessage(r) \/ AnswerRunInput(r)
             \/ ReleaseControl(r, c)
      PROVE  Goal
  BY <1>0, <1>9, RequestEffect, StatusFacts DEF Goal, Rest
<1>10. ASSUME ReadsRuns \/ Reconcile PROVE Goal
  BY <1>0, <1>10
  DEF ReadsRuns, StopReadsRuns, SupersedeReadsRuns, Reconcile, Goal, thread, cancels
<1>11. ASSUME CancelsById \/ ClearThread PROVE Goal
  BY <1>0, <1>11, EndEffect, StatusFacts DEF Goal
<1>q. QED
  <2>1. ASSUME NEW w \in Worker, HandlerStep(w) \/ HandlerFault(w) \/ RenewRunLease(w) PROVE Goal
    BY <2>1, <1>1, <1>2, <1>3, <1>4, <1>5, <1>6
    DEF HandlerStep, PauseRunForInput, PauseRunForTakeover, FinalizeRun
  <2>2. ASSUME NEW r \in Run,
               SendUserMessage(r) \/ AnswerRunInput(r)
        PROVE  Goal
    BY <2>2, <1>9 DEF Resume
  <2>3. Goal
    BY <2>1, <2>2, <1>7, <1>8, <1>9, <1>10, <1>11 DEF Next, ReadsRuns, CancelsById
  <2>q. QED BY <2>3 DEF Goal

\* A message is written by the commit that ends the run, and by nothing else.
LEMMA FinalEffect ==
  ASSUME TypeOK, NEW w \in Worker, NEW outcome \in {"completed", "failed"},
         FinalizeRun(w, outcome)
  PROVE  /\ worker[w].run \in Run /\ Holds(w) /\ Rest(worker[w].run)
         /\ run'[worker[w].run].status \in Terminal
         /\ finals'[worker[w].run] <= finals[worker[w].run] + 1
         /\ finals'[worker[w].run] \in Nat
         /\ \A q \in Run \ {worker[w].run} : finals'[q] = finals[q]
<1>1. Commit(w, outcome)
  BY DEF FinalizeRun
<1>2. worker[w].run \in Run /\ Holds(w) /\ Rest(worker[w].run)
      /\ run'[worker[w].run].status \in Terminal
  BY <1>1, CommitEffect, StatusFacts
<1>q. QED
  BY <1>2 DEF FinalizeRun, TypeOK

LEMMA OneFinalStep == TypeOK /\ RunInv /\ Next => OneFinalMessage'
<1> SUFFICES ASSUME TypeOK, RunInv, Next, NEW q \in Run
             PROVE  finals'[q] <= 1 /\ (finals'[q] = 1 => run'[q].status \in Terminal)
  BY DEF OneFinalMessage
<1> DEFINE Goal == finals'[q] <= 1 /\ (finals'[q] = 1 => run'[q].status \in Terminal)
<1>0. /\ finals[q] \in Nat /\ finals[q] <= 1 
      /\ finals[q] = 1 => run[q].status \in Terminal
  BY DEF RunInv, OneFinalMessage, TypeOK
<1> HIDE DEF Goal
<1>1. ASSUME NEW w \in Worker, LeaseRun(w) PROVE Goal
  BY <1>0, <1>1, LeaseEffect, StatusFacts DEF Goal, Rest, Leasable, Claimed, Terminal
<1>2. ASSUME NEW w \in Worker, StartRun(w) PROVE Goal
  BY <1>0, <1>2, StartEffect, StatusFacts DEF Goal, Rest, Claimed, Terminal
<1>3. ASSUME NEW w \in Worker, BeginAttempt(w) PROVE Goal
  BY <1>0, <1>3, BeginEffect DEF Goal
<1>4. ASSUME NEW w \in Worker, NEW s, Commit(w, s), finals' = finals PROVE Goal
  BY <1>0, <1>4, CommitEffect, StatusFacts DEF Goal, Rest, Holds, Claimed, Terminal
<1>4a. ASSUME NEW w \in Worker, NEW outcome \in {"completed", "failed"}, FinalizeRun(w, outcome)
       PROVE  Goal
  BY <1>0, <1>4a, FinalEffect, StatusFacts DEF Goal, Rest, Holds, Claimed, Terminal
<1>5. ASSUME NEW w \in Worker, HandlerFault(w) \/ AbandonRun(w) PROVE Goal
  BY <1>0, <1>5, FaultEffect, StatusFacts DEF Goal, Rest, Holds, Claimed, Terminal
<1>6. ASSUME NEW w \in Worker, RenewRunLease(w) PROVE Goal
  BY <1>0, <1>6, RenewEffect DEF Goal, Rest
<1>7. ASSUME NEW w \in Worker, NEW r \in Run, EnterRun(w, r) PROVE Goal
  BY <1>0, <1>7, EnterEffect DEF Goal
<1>8. ASSUME NEW r \in Run, \/ EnqueueLands(r) \/ EnqueueLost(r) \/ Reconcile \/ ReadsRuns
                            \/ LapseAbandoned(r) \/ LapseStalled(r)
      PROVE  Goal
  BY <1>0, <1>8, LapseEffect DEF Goal, Rest
<1>9. ASSUME NEW r \in Run, NEW c \in Resume,
             \/ SendUserMessage(r) \/ AnswerRunInput(r)
             \/ ReleaseControl(r, c)
      PROVE  Goal
  BY <1>0, <1>9, RequestEffect, StatusFacts DEF Goal, Rest
<1>10. ASSUME ReadsRuns \/ Reconcile PROVE Goal
  BY <1>0, <1>10
  DEF ReadsRuns, StopReadsRuns, SupersedeReadsRuns, Reconcile, Goal, thread, cancels
<1>11. ASSUME CancelsById \/ ClearThread PROVE Goal
  BY <1>0, <1>11, EndEffect, StatusFacts DEF Goal
<1>q. QED
  <2>1. ASSUME NEW w \in Worker, HandlerStep(w) \/ HandlerFault(w) \/ RenewRunLease(w) PROVE Goal
    BY <2>1, <1>1, <1>2, <1>3, <1>4, <1>4a, <1>5, <1>6
    DEF HandlerStep, PauseRunForInput, PauseRunForTakeover, thread, cancels
  <2>2. ASSUME NEW r \in Run,
               SendUserMessage(r) \/ AnswerRunInput(r)
        PROVE  Goal
    BY <2>2, <1>9 DEF Resume
  <2>3. Goal
    BY <2>1, <2>2, <1>7, <1>8, <1>9, <1>10, <1>11 DEF Next, ReadsRuns, CancelsById
  <2>q. QED BY <2>3 DEF Goal

\* Until one has stalled: what a handler past its lease knows of its row.
KeepsRow(v) ==
  \/ run[worker[v].run].status \in Terminal
  \/ /\ run[worker[v].run].owner = Owner[v] /\ run[worker[v].run].fence = worker[v].fence
     /\ run[worker[v].run].status \in Claimed /\ run[worker[v].run].lease = "live"

LEMMA KeepsRowMeaning ==
  /\ HandlersKeepRows <=> \A v \in Worker : PastLease(v) => KeepsRow(v)
  /\ HandlersKeepRows' <=> \A v \in Worker : PastLease(v)' => KeepsRow(v)'
BY DEF HandlersKeepRows, KeepsRow, Token, PastLease

LEMMA KeepRowsStep == TypeOK /\ RunInv /\ Next /\ stalls = 0 /\ stalls' = 0 => HandlersKeepRows'
<1> SUFFICES ASSUME TypeOK, RunInv, Next, stalls = 0, stalls' = 0, NEW v \in Worker, PastLease(v)'
             PROVE  KeepsRow(v)'
  BY KeepsRowMeaning
<1>0. /\ PastLease(v) => KeepsRow(v) /\ worker[v].run \in Run
      /\ \A w \in Worker \ {v} :
           Token(v) /\ Token(w) /\ run[worker[v].run].status \in Claimed
             => worker[v].run # worker[w].run
      /\ stalls = 0 /\ stalls' = 0
  <2>1. PastLease(v) => worker[v].run \in Run
    BY BusyHandler DEF PastLease
  <2>q. QED BY <2>1, KeepsRowMeaning DEF RunInv, HoldsAlone, TypeOK
<1>1. ASSUME NEW w \in Worker, LeaseRun(w) PROVE KeepsRow(v)'
  BY <1>0, <1>1, LeaseEffect, StatusFacts
  DEF KeepsRow, PastLease, Rest, Leaves, Moves, Others, Leasable, Claimed, Terminal
<1>2. ASSUME NEW w \in Worker, StartRun(w) PROVE KeepsRow(v)'
  BY <1>0, <1>2, StartEffect, StatusFacts
  DEF KeepsRow, PastLease, Rest, Leaves, Moves, Others, KeepsToken
<1>3. ASSUME NEW w \in Worker, BeginAttempt(w) PROVE KeepsRow(v)'
  BY <1>0, <1>3, BeginEffect DEF KeepsRow, PastLease, Moves, Others
<1>4. ASSUME NEW w \in Worker, NEW s, Commit(w, s) PROVE KeepsRow(v)'
  BY <1>0, <1>4, CommitEffect, StatusFacts
  DEF KeepsRow, PastLease, Rest, Leaves, Others, Holds, Token, Claimed, Terminal
<1>5. ASSUME NEW w \in Worker, HandlerFault(w) \/ AbandonRun(w) PROVE KeepsRow(v)'
  BY <1>0, <1>5, FaultEffect, StatusFacts
  DEF KeepsRow, PastLease, Rest, Leaves, Others, Holds, Token, Claimed, Terminal
<1>6. ASSUME NEW w \in Worker, RenewRunLease(w) PROVE KeepsRow(v)'
  BY <1>0, <1>6, RenewEffect DEF KeepsRow, PastLease, Rest, KeepsToken
<1>7. ASSUME NEW w \in Worker, NEW r \in Run, EnterRun(w, r) PROVE KeepsRow(v)'
  BY <1>0, <1>7, EnterEffect DEF KeepsRow, PastLease, Others
<1>8. ASSUME NEW r \in Run, \/ EnqueueLands(r) \/ EnqueueLost(r) \/ Reconcile \/ ReadsRuns
                            \/ LapseAbandoned(r) \/ LapseStalled(r)
      PROVE  KeepsRow(v)'
  BY <1>0, <1>8, LapseEffect, StatusFacts
  DEF KeepsRow, PastLease, Rest, KeepsToken, InRun, Busy, Token
<1>9. ASSUME NEW r \in Run, NEW c \in Resume,
             \/ SendUserMessage(r) \/ AnswerRunInput(r)
             \/ ReleaseControl(r, c)
      PROVE  KeepsRow(v)'
  BY <1>0, <1>9, RequestEffect, StatusFacts DEF KeepsRow, PastLease, Rest
<1>10. ASSUME ReadsRuns \/ Reconcile PROVE KeepsRow(v)'
  BY <1>0, <1>10 DEF ReadsRuns, StopReadsRuns, SupersedeReadsRuns, Reconcile, KeepsRow, PastLease
<1>11. ASSUME CancelsById \/ ClearThread PROVE KeepsRow(v)'
  BY <1>0, <1>11, EndEffect, StatusFacts DEF KeepsRow, PastLease
<1>q. QED
  <2>1. ASSUME NEW w \in Worker, HandlerStep(w) \/ HandlerFault(w) \/ RenewRunLease(w)
        PROVE  KeepsRow(v)'
    BY <2>1, <1>1, <1>2, <1>3, <1>4, <1>5, <1>6
    DEF HandlerStep, PauseRunForInput, PauseRunForTakeover, FinalizeRun
  <2>2. ASSUME NEW r \in Run,
               SendUserMessage(r) \/ AnswerRunInput(r)
        PROVE  KeepsRow(v)'
    BY <2>2, <1>9 DEF Resume
  <2>q. QED BY <2>1, <2>2, <1>7, <1>8, <1>9, <1>10, <1>11 DEF Next, ReadsRuns, CancelsById

\* Two handlers that share a row, fence and owner after a step did so before it,
\* unless the step is the lease of one of them; and then the other had let go.
LEMMA HoldsAloneStep == TypeOK /\ RunInv /\ Next /\ stalls = 0 /\ stalls' = 0 => HoldsAlone'
<1> SUFFICES ASSUME TypeOK, RunInv, Next, stalls = 0, stalls' = 0, NEW u \in Worker, NEW v \in Worker,
                    u # v, Token(u)', Token(v)', run'[worker'[u].run].status \in Claimed,
                    worker'[u].run = worker'[v].run
             PROVE  FALSE
  BY DEF HoldsAlone
<1> DEFINE Shared == /\ Token(u) /\ Token(v) /\ run[worker[u].run].status \in Claimed
                     /\ worker[u].run = worker[v].run
<1>0. /\ ~Shared
      /\ PastLease(u) => KeepsRow(u) /\ worker[u].run \in Run
      /\ PastLease(v) => KeepsRow(v) /\ worker[v].run \in Run
      /\ Owner[u] \in OwnerId /\ Owner[v] \in OwnerId /\ NoOwner \notin OwnerId
      /\ PastLease(u)' /\ PastLease(v)'
      /\ run'[worker'[u].run].owner = Owner[u] /\ run'[worker'[u].run].fence = worker'[u].fence
      /\ run'[worker'[v].run].owner = Owner[v] /\ run'[worker'[v].run].fence = worker'[v].fence
  <2>1. \A w \in Worker : PastLease(w) => KeepsRow(w) /\ worker[w].run \in Run
    BY KeepsRowMeaning, BusyHandler DEF RunInv, PastLease
  <2>q. QED BY <2>1, RunAssumption DEF RunInv, HoldsAlone, Token, PastLease
<1> HIDE DEF Shared
<1> DEFINE Kept(x) == /\ PastLease(x) /\ worker'[x].run = worker[x].run
                      /\ worker'[x].fence = worker[x].fence
           row == worker'[u].run
<1>k. ASSUME Kept(u), Kept(v) PROVE row \in Run /\ row = worker[u].run /\ row = worker[v].run
  BY <1>0, <1>k
<1>s. ASSUME Kept(u), Kept(v), KeepsToken(row), run[row].status \in Claimed PROVE FALSE
  BY <1>0, <1>k, <1>s DEF Shared, Token, PastLease, KeepsToken
<1> HIDE DEF Kept, row
<1>u. row = worker'[u].run /\ run'[row].owner \in OwnerId /\ run'[row].status \in Claimed
  BY <1>0 DEF row
<1>1. ASSUME NEW w \in Worker, LeaseRun(w) PROVE FALSE
  BY <1>0, <1>1, LeaseEffect, StatusFacts
  DEF Shared, Token, KeepsRow, PastLease, Rest, Leaves, Moves, Others, Leasable, Claimed, Terminal
<1>2. ASSUME NEW w \in Worker, StartRun(w) PROVE FALSE
  <2>1. Kept(u) /\ Kept(v)
    BY <1>0, <1>2, StartEffect DEF Kept, PastLease, Leaves, Moves, Others
  <2>2. KeepsToken(row) /\ run[row].status \in Claimed
    BY <1>2, <1>k, <1>u, <2>1, StartEffect, StatusFacts DEF Rest, KeepsToken
  <2>q. QED BY <1>s, <2>1, <2>2
<1>3. ASSUME NEW w \in Worker, BeginAttempt(w) PROVE FALSE
  <2>1. Kept(u) /\ Kept(v)
    BY <1>0, <1>3, BeginEffect DEF Kept, PastLease, Leaves, Moves, Others
  <2>2. KeepsToken(row) /\ run[row].status \in Claimed
    BY <1>0, <1>3, <1>k, <1>u, <2>1, BeginEffect, StatusFacts DEF Rest, KeepsToken
  <2>q. QED BY <1>s, <2>1, <2>2
<1>4. ASSUME NEW w \in Worker, NEW s, Commit(w, s) PROVE FALSE
  <2>1. Kept(u) /\ Kept(v)
    BY <1>0, <1>4, CommitEffect DEF Kept, PastLease, Leaves, Moves, Others
  <2>2. KeepsToken(row) /\ run[row].status \in Claimed
    BY <1>0, <1>4, <1>k, <1>u, <2>1, CommitEffect, StatusFacts DEF Rest, KeepsToken
  <2>q. QED BY <1>s, <2>1, <2>2
<1>5. ASSUME NEW w \in Worker, HandlerFault(w) \/ AbandonRun(w) PROVE FALSE
  <2>1. Kept(u) /\ Kept(v)
    BY <1>0, <1>5, FaultEffect DEF Kept, PastLease, Leaves, Moves, Others
  <2>2. KeepsToken(row) /\ run[row].status \in Claimed
    BY <1>0, <1>5, <1>k, <1>u, <2>1, FaultEffect, StatusFacts DEF Rest, KeepsToken
  <2>q. QED BY <1>s, <2>1, <2>2
<1>6. ASSUME NEW w \in Worker, RenewRunLease(w) PROVE FALSE
  <2>1. Kept(u) /\ Kept(v)
    BY <1>0, <1>6, RenewEffect DEF Kept, PastLease, Leaves, Moves, Others
  <2>2. KeepsToken(row) /\ run[row].status \in Claimed
    BY <1>0, <1>6, <1>k, <1>u, <2>1, RenewEffect, StatusFacts DEF Rest, KeepsToken
  <2>q. QED BY <1>s, <2>1, <2>2
<1>7. ASSUME NEW w \in Worker, NEW r \in Run, EnterRun(w, r) PROVE FALSE
  <2>1. Kept(u) /\ Kept(v)
    BY <1>0, <1>7, EnterEffect DEF Kept, PastLease, Leaves, Moves, Others
  <2>2. KeepsToken(row) /\ run[row].status \in Claimed
    BY <1>0, <1>7, <1>k, <1>u, <2>1, EnterEffect, StatusFacts DEF Rest, KeepsToken
  <2>q. QED BY <1>s, <2>1, <2>2
<1>8. ASSUME NEW r \in Run, \/ EnqueueLands(r) \/ EnqueueLost(r) \/ Reconcile \/ ReadsRuns
                            \/ LapseAbandoned(r) \/ LapseStalled(r)
      PROVE  FALSE
  <2>1. Kept(u) /\ Kept(v)
    BY <1>0, <1>8, LapseEffect DEF Kept, PastLease
  <2>2. KeepsToken(row) /\ run[row].status \in Claimed
    BY <1>8, <1>k, <1>u, <2>1, LapseEffect DEF Rest, KeepsToken
  <2>q. QED BY <1>s, <2>1, <2>2
<1>9. ASSUME NEW r \in Run, NEW c \in Resume,
             \/ SendUserMessage(r) \/ AnswerRunInput(r)
             \/ ReleaseControl(r, c)
      PROVE  FALSE
  <2>1. Kept(u) /\ Kept(v)
    BY <1>0, <1>9, RequestEffect DEF Kept, PastLease
  <2>2. KeepsToken(row) /\ run[row].status \in Claimed
    BY <1>9, <1>k, <1>u, <2>1, RequestEffect, StatusFacts DEF Rest, KeepsToken, Claimed
  <2>q. QED BY <1>s, <2>1, <2>2
<1>10. ASSUME ReadsRuns \/ Reconcile PROVE FALSE
  <2>1. Kept(u) /\ Kept(v) /\ run' = run
    BY <1>0, <1>10 DEF ReadsRuns, StopReadsRuns, SupersedeReadsRuns, Reconcile, Kept, PastLease
  <2>q. QED BY <1>s, <1>u, <2>1 DEF KeepsToken
<1>11. ASSUME CancelsById \/ ClearThread PROVE FALSE
  <2>1. Kept(u) /\ Kept(v)
    BY <1>0, <1>11, EndEffect DEF Kept, PastLease
  <2>2. run'[row] = run[row]
    BY <1>11, <1>k, <1>u, <2>1, EndEffect, StatusFacts DEF Claimed
  <2>q. QED BY <1>s, <1>u, <2>1, <2>2 DEF KeepsToken
<1>q. QED
  <2>1. ASSUME NEW w \in Worker, HandlerStep(w) \/ HandlerFault(w) \/ RenewRunLease(w)
        PROVE  FALSE
    BY <2>1, <1>1, <1>2, <1>3, <1>4, <1>5, <1>6
    DEF HandlerStep, PauseRunForInput, PauseRunForTakeover, FinalizeRun
  <2>2. ASSUME NEW r \in Run,
               SendUserMessage(r) \/ AnswerRunInput(r)
        PROVE  FALSE
    BY <2>2, <1>9 DEF Resume
  <2>q. QED BY <2>1, <2>2, <1>7, <1>8, <1>9, <1>10, <1>11 DEF Next, ReadsRuns, CancelsById

\* A stall is counted, up to the bound: no step takes the count back.
LEMMA StallStep ==
  ASSUME TypeOK, [Next]_vars
  PROVE  stalls' = stalls \/ (stalls < MaxStalls /\ stalls' = stalls + 1)
<1>1. ASSUME NEW w \in Worker, HandlerStep(w) \/ HandlerFault(w) \/ RenewRunLease(w)
      PROVE  stalls' = stalls
  BY <1>1, LeaseEffect, StartEffect, BeginEffect, CommitEffect, FaultEffect, RenewEffect
  DEF HandlerStep, PauseRunForInput, PauseRunForTakeover, FinalizeRun
<1>2. ASSUME NEW w \in Worker, NEW r \in Run, EnterRun(w, r) PROVE stalls' = stalls
  BY <1>2, EnterEffect
<1>3. ASSUME NEW r \in Run, EnqueueLands(r) \/ EnqueueLost(r) \/ LapseAbandoned(r)
      PROVE  stalls' = stalls
  BY <1>3 DEF EnqueueLands, EnqueueLost, LapseAbandoned, Fault, budget
<1>4. ASSUME NEW r \in Run, LapseStalled(r)
      PROVE  stalls < MaxStalls /\ stalls' = stalls + 1
  BY <1>4 DEF LapseStalled
<1>5. ASSUME NEW r \in Run, NEW c \in Resume,
             SendUserMessage(r) \/ AnswerRunInput(r) \/ ReleaseControl(r, c)
      PROVE  stalls' = stalls
  BY <1>5, RequestEffect
<1>6. ASSUME Reconcile \/ ReadsRuns \/ UNCHANGED vars PROVE stalls' = stalls
  BY <1>6 DEF Reconcile, ReadsRuns, StopReadsRuns, SupersedeReadsRuns, vars, budget
<1>7. ASSUME CancelsById \/ ClearThread PROVE stalls' = stalls
  BY <1>7, EndEffect
<1>8. "none" \in Resume
  BY DEF Resume
<1>q. QED
  BY <1>1, <1>2, <1>3, <1>4, <1>5, <1>6, <1>7, <1>8 DEF Next, ReadsRuns, CancelsById

LEMMA RunInvStep == TypeOK /\ RunInv /\ [Next]_vars => RunInv'
<1> SUFFICES ASSUME TypeOK, RunInv, [Next]_vars PROVE RunInv'
  OBVIOUS
<1>1. CASE Next
  <2>1. stalls' = 0 => stalls = 0
    BY StallStep DEF TypeOK
  <2>q. QED
    BY <1>1, <2>1, FreeRowsStep, AttemptsStep, OneFinalStep, KeepRowsStep, HoldsAloneStep
    DEF RunInv
<1>2. CASE UNCHANGED vars
  BY <1>2 DEF vars, RunInv, FreeRowsHaveNoOwner, AttemptsFollowHandlers, OneFinalMessage,
              HandlersKeepRows, HoldsAlone, PastLease, Token
<1>q. QED BY <1>1, <1>2

(* The inductive invariant holds for any number of runs, slots, processes and faults. *)
THEOREM RunInvariant == Spec => [](TypeOK /\ RunInv)
BY InitType, InitInv, NextType, RunInvStep, PTL DEF Spec

(* finalizeRun completes a run at most once, and its message ends the run: over every
   crash, retry, stall, stolen lease and duplicate job. *)
THEOREM FinalMessageOnce == Spec => []OneFinalMessage
<1>1. RunInv => OneFinalMessage
  BY DEF RunInv
<1>q. QED BY <1>1, RunInvariant, PTL

(* The transactions that commit a pause or an end find the attempt they close open:
   continueRun never strands a run whose row it still holds. *)
THEOREM CommitsFindAttempt == Spec => []HolderCanCommit
<1>1. TypeOK /\ RunInv => HolderCanCommit
  <2> SUFFICES ASSUME TypeOK, RunInv, NEW w \in Worker, worker[w].pc = "working", Holds(w)
               PROVE  attempt[w] = "running"
    BY DEF HolderCanCommit
  <2>1. attempt[w] \in AttemptStatus
    BY DEF TypeOK
  <2>2. attempt[w] # "none" /\ (attempt[w] = "closed" => run[worker[w].run].status \in Terminal)
    BY DEF RunInv, AttemptsFollowHandlers
  <2>q. QED BY <2>1, <2>2 DEF Holds, Terminal, AttemptStatus
<1>q. QED BY <1>1, RunInvariant, PTL

\* Every slot has a workerId of its own.
OwnersDistinct == \A v, w \in Worker : Owner[v] = Owner[w] => v = w

(* continueRun: until a lease has lapsed under a living handler, one handler at a time holds
   a run, whatever crashes, retries and duplicate jobs happen and whichever slots share a
   workerId: the guarded lease lets in one of those that read the same fence. *)
THEOREM OneHolderAtATime == Spec => []OneHolder
<1>1. RunInv => OneHolder
  BY DEF RunInv, OneHolder
<1>q. QED BY <1>1, RunInvariant, PTL

(* When every slot has a workerId of its own, or no lease ever lapses under a living
   handler, one handler at a time holds a run without more ado. *)
LEMMA AlwaysAlone ==
  ASSUME OwnersDistinct \/ MaxStalls = 0
  PROVE  Spec => []HoldsAlone
<1> DEFINE Bounded == stalls <= MaxStalls
<1>1. Init => Bounded
  BY RunAssumption DEF Init
<1>2. TypeOK /\ Bounded /\ [Next]_vars => Bounded'
  BY StallStep, RunAssumption DEF TypeOK
<1>3. TypeOK /\ RunInv /\ Bounded => HoldsAlone
  <2>1. CASE OwnersDistinct
    BY <2>1 DEF HoldsAlone, Token, OwnersDistinct
  <2>2. CASE MaxStalls = 0
    BY <2>2 DEF RunInv, TypeOK
  <2>q. QED BY <2>1, <2>2
<1> HIDE DEF Bounded
<1>q. QED BY <1>1, <1>2, <1>3, RunInvariant, PTL DEF Spec

Silent(q) == run'[q].status = "cancelled" /\ finals'[q] = finals[q] /\ asks'[q] <= asks[q]

LEMMA SilentStep ==
  ASSUME TypeOK, Next, NEW q \in Run, run[q].status = "cancelled"
  PROVE  Silent(q)
<1>0. /\ asks[q] \in Nat
      /\ run[q].status \in Terminal /\ run[q].status \notin Claimed
      /\ \A w \in Worker : Holds(w) => worker[w].run # q
  BY StatusFacts DEF TypeOK, Holds
<1>1. ASSUME NEW w \in Worker, LeaseRun(w) PROVE Silent(q)
  BY <1>0, <1>1, LeaseEffect DEF Silent, Rest, Leasable
<1>2. ASSUME NEW w \in Worker, StartRun(w) PROVE Silent(q)
  BY <1>0, <1>2, StartEffect, StatusFacts DEF Silent, Rest
<1>3. ASSUME NEW w \in Worker, BeginAttempt(w) PROVE Silent(q)
  BY <1>0, <1>3, BeginEffect DEF Silent
<1>4. ASSUME NEW w \in Worker, PauseRunForInput(w) PROVE Silent(q)
  <2>1. worker[w].run # q /\ run'[q] = run[q]
    BY <1>0, <1>4, CommitEffect DEF PauseRunForInput, Rest
  <2>2. asks'[q] = asks[q] /\ finals' = finals
    BY <1>4, <2>1 DEF PauseRunForInput, TypeOK
  <2>q. QED BY <1>0, <2>1, <2>2 DEF Silent
<1>5. ASSUME NEW w \in Worker, PauseRunForTakeover(w) PROVE Silent(q)
  BY <1>0, <1>5, CommitEffect DEF PauseRunForTakeover, Silent, Rest, thread, cancels
<1>6. ASSUME NEW w \in Worker, NEW outcome \in {"completed", "failed"}, FinalizeRun(w, outcome)
      PROVE  Silent(q)
  <2>1. worker[w].run # q /\ run'[q] = run[q] /\ finals'[q] = finals[q]
    BY <1>0, <1>6, FinalEffect DEF Rest
  <2>2. asks' = asks
    BY <1>6 DEF FinalizeRun
  <2>q. QED BY <1>0, <2>1, <2>2 DEF Silent
<1>7. ASSUME NEW w \in Worker, HandlerFault(w) \/ AbandonRun(w) PROVE Silent(q)
  BY <1>0, <1>7, FaultEffect DEF Silent, Rest
<1>8. ASSUME NEW w \in Worker, RenewRunLease(w) PROVE Silent(q)
  BY <1>0, <1>8, RenewEffect DEF Silent, Rest
<1>9. ASSUME NEW w \in Worker, NEW r \in Run, EnterRun(w, r) PROVE Silent(q)
  BY <1>0, <1>9, EnterEffect DEF Silent
<1>10. ASSUME NEW r \in Run, \/ EnqueueLands(r) \/ EnqueueLost(r) \/ Reconcile \/ ReadsRuns
                             \/ LapseAbandoned(r) \/ LapseStalled(r)
       PROVE  Silent(q)
  BY <1>0, <1>10, LapseEffect DEF Silent, Rest
<1>11. ASSUME NEW r \in Run, NEW c \in Resume,
              \/ SendUserMessage(r) \/ AnswerRunInput(r)
              \/ ReleaseControl(r, c)
       PROVE  Silent(q)
  <2>1. r # q /\ run'[q] = run[q] /\ finals' = finals
    BY <1>0, <1>11, RequestEffect DEF Rest
  <2>2. CASE AnswerRunInput(r)
    BY <2>1, <2>2, <1>0 DEF AnswerRunInput, TypeOK, Silent
  <2>3. CASE ~AnswerRunInput(r)
    BY <1>0, <1>11, <2>1, <2>3
    DEF SendUserMessage, ReleaseControl, thread, Silent, cancels
  <2>q. QED BY <2>2, <2>3
<1>12. ASSUME CancelsById \/ ClearThread PROVE Silent(q)
  <2>1. asks' = asks \/ asks'[q] = 0
    BY <1>12
    DEF CancelsById, StopCancelsRuns, CancelSupersededQueuedRuns, CancelById, ClearThread,
        thread, cancels
  <2>2. asks'[q] <= asks[q]
    BY <1>0, <2>1
  <2>q. QED BY <1>0, <1>12, <2>2, EndEffect DEF Silent
<1>q. QED
  <2>1. ASSUME NEW w \in Worker, HandlerStep(w) \/ HandlerFault(w) \/ RenewRunLease(w)
        PROVE  Silent(q)
    BY <2>1, <1>1, <1>2, <1>3, <1>4, <1>5, <1>6, <1>7, <1>8 DEF HandlerStep
  <2>2. ASSUME NEW r \in Run,
               SendUserMessage(r) \/ AnswerRunInput(r)
        PROVE  Silent(q)
    BY <2>2, <1>11 DEF Resume
  <2>3. ASSUME ReadsRuns \/ Reconcile PROVE Silent(q)
    BY <2>3, <1>10
  <2>q. QED BY <2>1, <2>2, <2>3, <1>9, <1>10, <1>11, <1>12 DEF Next, ReadsRuns, CancelsById

(* stopThreadRuns, clearThread and a superseding message end a run for good: no
   handler that was about to commit revives it or writes to its thread again. *)
THEOREM CancelIsForGood == Spec => CancelledIsSilent
<1>1. TypeOK /\ [Next]_vars =>
        [\A r \in Run : run[r].status = "cancelled" =>
           /\ run'[r].status = "cancelled"
           /\ finals'[r] = finals[r]
           /\ asks'[r] <= asks[r]]_vars
  BY SilentStep DEF Silent
<1>q. QED BY <1>1, TypeCorrect, PTL DEF Spec, CancelledIsSilent

-----------------------------------------------------------------------------
(***************************************************************************)
(* RunLifecycle implements RunPromise for every number of runs, slots and  *)
(* faults: every step of the tables and handlers is one step of the        *)
(* promise, or none.                                                       *)
(***************************************************************************)

\* What a stop has read, and not yet cancelled, are runs that exist.
StopsExist == \A r \in stopping : run[r].status # "absent"

PromiseInv == TypeOK /\ RunInv /\ HoldsAlone /\ StopsExist

Phase(r) == PhaseOf(run[r].status)

\* The promise sees nothing happen to run q.
Same(q) == Phase(q)' = Phase(q) /\ HolderOf(q)' = HolderOf(q)

\* What the invariant says before and after a step, as the lemmas below use it.
Sound == PromiseInv /\ HoldsAlone'

(* PhaseOf groups the statuses of run-state.ts by what a user can tell apart. *)
LEMMA Phases ==
  /\ PhaseOf("absent") = "new" /\ PhaseOf("queued") = "ready"
  /\ \A s \in Claimed : PhaseOf(s) = "held"
  /\ \A s \in {"waiting_input", "waiting_takeover"} : PhaseOf(s) = "parked"
  /\ \A s \in Terminal : PhaseOf(s) = "over"
  /\ \A s \in Status : PhaseOf(s) = "new" => s = "absent"
BY DEF PhaseOf, Claimed, Terminal, Status, Active

(* leaseOwner and leaseFence name the holder, of whom there is one at most. *)
LEMMA TheHolder ==
  ASSUME HoldsAlone, NEW r \in Run
  PROVE  /\ \A w \in Worker : Holding(w, r) => HolderOf(r) = w
         /\ (\A w \in Worker : ~Holding(w, r)) => HolderOf(r) = NoOwner
<1>1. \A v, w \in Worker : Holding(v, r) /\ Holding(w, r) => v = w
  BY DEF HoldsAlone, Holding, InRun
<1>q. QED BY <1>1 DEF HolderOf

(* The same after a step. *)
LEMMA TheHolderAfter ==
  ASSUME HoldsAlone', NEW r \in Run
  PROVE  /\ \A w \in Worker : Holding(w, r)' => HolderOf(r)' = w
         /\ (\A w \in Worker : ~Holding(w, r)') => HolderOf(r)' = NoOwner
<1>1. \A v, w \in Worker : Holding(v, r)' /\ Holding(w, r)' => v = w
  BY DEF HoldsAlone, Holding, InRun
<1>q. QED BY <1>1 DEF HolderOf

(* Who held a run, and nobody else, still does: the holder is the same. *)
LEMMA SameHolder ==
  ASSUME HoldsAlone, HoldsAlone', NEW r \in Run, \A w \in Worker : Holding(w, r)' <=> Holding(w, r)
  PROVE  HolderOf(r)' = HolderOf(r)
<1>1. CASE \E w \in Worker : Holding(w, r)
  BY <1>1, TheHolder, TheHolderAfter
<1>2. CASE \A w \in Worker : ~Holding(w, r)
  BY <1>2, TheHolder, TheHolderAfter
<1>q. QED BY <1>1, <1>2

(* A step that touches one run and one handler in it leaves the other runs alone. *)
LEMMA Elsewhere ==
  ASSUME Sound, NEW w \in Worker, NEW r \in Run, Rest(r), Others(w),
         worker[w].run = r \/ worker[w].pc = "idle",
         worker'[w].pc = "idle" \/ worker'[w].run = r
  PROVE  \A q \in Run \ {r} : Same(q)
<1> SUFFICES ASSUME NEW q \in Run \ {r} PROVE Same(q)
  OBVIOUS
<1>1. run'[q] = run[q]
  BY DEF Rest
<1>2. ASSUME NEW v \in Worker PROVE Holding(v, q)' <=> Holding(v, q)
  <2>1. CASE v = w
    BY <2>1 DEF Holding, InRun, Busy
  <2>2. CASE v # w
    BY <1>1, <2>2 DEF Holding, InRun, Busy, Token, Others
  <2>q. QED BY <2>1, <2>2
<1>3. HolderOf(q)' = HolderOf(q)
  BY <1>2, SameHolder DEF Sound, PromiseInv
<1>q. QED BY <1>1, <1>3 DEF Same, Phase

(* A step that moves one row and no handler leaves the other runs alone. *)
LEMMA ElsewhereByRow ==
  ASSUME Sound, NEW r \in Run, Rest(r), worker' = worker
  PROVE  \A q \in Run \ {r} : Same(q)
<1> SUFFICES ASSUME NEW q \in Run \ {r} PROVE Same(q)
  OBVIOUS
<1>1. run'[q] = run[q]
  BY DEF Rest
<1>2. \A v \in Worker : Holding(v, q)' <=> Holding(v, q)
  BY <1>1 DEF Holding, InRun, Busy, Token
<1>3. HolderOf(q)' = HolderOf(q)
  BY <1>2, SameHolder DEF Sound, PromiseInv
<1>q. QED BY <1>1, <1>3 DEF Same, Phase

(* Nothing a user can tell has happened. *)
LEMMA Unseen ==
  ASSUME \A q \in Run : Same(q), finals' = finals
  PROVE  UNCHANGED Promise!vars
BY DEF Same, Phase, Promise!vars

(* One run has moved. *)
LEMMA OneMoves ==
  ASSUME NEW r \in Run, NEW to, NEW who,
         \A q \in Run \ {r} : Same(q), Phase(r)' = to, HolderOf(r)' = who
  PROVE  Promise!Move(r, to, who)
BY DEF Same, Phase, Promise!Move

(* A row is never deleted: no step takes a run back to "absent". *)
LEMMA RunsStay ==
  ASSUME TypeOK, Next, NEW q \in Run, run[q].status # "absent"
  PROVE  run'[q].status # "absent"
<1>1. ASSUME NEW w \in Worker, LeaseRun(w) PROVE run'[q].status # "absent"
  BY <1>1, LeaseEffect DEF Rest
<1>2. ASSUME NEW w \in Worker, StartRun(w) PROVE run'[q].status # "absent"
  BY <1>2, StartEffect DEF Rest
<1>3. ASSUME NEW w \in Worker, BeginAttempt(w) PROVE run'[q].status # "absent"
  BY <1>3, BeginEffect
<1>4. ASSUME NEW w \in Worker, NEW s, s # "absent", Commit(w, s) PROVE run'[q].status # "absent"
  BY <1>4, CommitEffect DEF Rest
<1>5. ASSUME NEW w \in Worker, HandlerFault(w) \/ AbandonRun(w) PROVE run'[q].status # "absent"
  BY <1>5, FaultEffect DEF Rest
<1>6. ASSUME NEW w \in Worker, RenewRunLease(w) PROVE run'[q].status # "absent"
  BY <1>6, RenewEffect DEF Rest
<1>7. ASSUME NEW w \in Worker, NEW r \in Run, EnterRun(w, r) PROVE run'[q].status # "absent"
  BY <1>7, EnterEffect
<1>8. ASSUME NEW r \in Run, \/ EnqueueLands(r) \/ EnqueueLost(r) \/ Reconcile \/ ReadsRuns
                            \/ LapseAbandoned(r) \/ LapseStalled(r)
      PROVE  run'[q].status # "absent"
  BY <1>8, LapseEffect DEF Rest
<1>9. ASSUME NEW r \in Run, NEW c \in Resume,
             SendUserMessage(r) \/ AnswerRunInput(r) \/ ReleaseControl(r, c)
      PROVE  run'[q].status # "absent"
  BY <1>9, RequestEffect DEF Rest
<1>10. CASE CancelsById \/ ClearThread
  BY <1>10, EndEffect
<1>11. "none" \in Resume
  BY DEF Resume
<1>q. QED
  BY <1>1, <1>2, <1>3, <1>4, <1>5, <1>6, <1>7, <1>8, <1>9, <1>10, <1>11
  DEF Next, ReadsRuns, CancelsById, HandlerStep, PauseRunForInput, PauseRunForTakeover,
      FinalizeRun

(* stopThreadRuns and a superseding message read the ids of runs that exist. *)
LEMMA StopsExistStep == TypeOK /\ StopsExist /\ [Next]_vars => StopsExist'
<1> SUFFICES ASSUME TypeOK, StopsExist, Next PROVE StopsExist'
  BY DEF vars, StopsExist
<1>1. CASE ReadsRuns
  BY <1>1 DEF ReadsRuns, StopReadsRuns, SupersedeReadsRuns, StopsExist, Active
<1>2. CASE ~ReadsRuns
  <2>1. stopping' \subseteq stopping
    <3>1. ASSUME NEW w \in Worker, HandlerStep(w) \/ HandlerFault(w) \/ RenewRunLease(w)
          PROVE  stopping' = stopping
      BY <3>1
      DEF HandlerStep, HandlerFault, LeaseRun, StartRun, BeginAttempt, PauseRunForInput,
          PauseRunForTakeover, FinalizeRun, Commit, AbandonRun, RequeueComputerRun, PrepareThrows,
          SetupFails, HeartbeatFails, Crash, RenewRunLease, cancels
    <3>2. ASSUME NEW r \in Run, NEW c \in Resume,
                 \/ SendUserMessage(r) \/ AnswerRunInput(r) \/ ReleaseControl(r, c)
                 \/ EnqueueLands(r) \/ EnqueueLost(r) \/ LapseAbandoned(r) \/ LapseStalled(r)
          PROVE  stopping' = stopping
      BY <3>2
      DEF SendUserMessage, AnswerRunInput, ReleaseControl, EnqueueLands, EnqueueLost,
          LapseAbandoned, LapseStalled, cancels
    <3>3. ASSUME NEW w \in Worker, NEW r \in Run, EnterRun(w, r) PROVE stopping' = stopping
      BY <3>3 DEF EnterRun, cancels
    <3>4. CASE Reconcile \/ ClearThread
      BY <3>4 DEF Reconcile, ClearThread, cancels
    <3>5. CASE CancelsById
      BY <3>5 DEF CancelsById, StopCancelsRuns, CancelSupersededQueuedRuns, CancelById
    <3>6. "none" \in Resume
      BY DEF Resume
    <3>q. QED
      BY <1>2, <3>1, <3>2, <3>3, <3>4, <3>5, <3>6 DEF Next, ReadsRuns, CancelsById
  <2>q. QED BY <1>2, <2>1, RunsStay DEF StopsExist, TypeOK
<1>q. QED BY <1>1, <1>2

-----------------------------------------------------------------------------
(* Every step of the tables and handlers is a step of the promise, or none. *)
Seen == Promise!Next \/ UNCHANGED Promise!vars

(* A handler that commits, is requeued or finishes held its run, and nobody does after it. *)
LEMMA LetsGo ==
  ASSUME Sound, NEW w \in Worker, NEW r \in Run, r = worker[w].run, Holds(w), Rest(r), Leaves(w),
         run'[r].status \notin Claimed
  PROVE  /\ Phase(r) = "held" /\ HolderOf(r) = w /\ HolderOf(r)' = NoOwner
         /\ \A q \in Run \ {r} : Same(q)
<1>1. Holding(w, r)
  BY StatusFacts DEF Holds, Token, Holding, InRun, Busy
<1>2. HolderOf(r) = w
  BY <1>1, TheHolder DEF Sound, PromiseInv
<1>3. Phase(r) = "held"
  BY Phases, StatusFacts DEF Holds, Phase
<1>4. HolderOf(r)' = NoOwner
  BY TheHolderAfter DEF Holding, Sound
<1>5. \A q \in Run \ {r} : Same(q)
  BY Elsewhere DEF Leaves
<1>q. QED BY <1>2, <1>3, <1>4, <1>5

(* A handler that dies, gives up or is refused leaves its row as it is. *)
LEMMA LeavesSeen ==
  ASSUME Sound, NEW w \in Worker, NEW r \in Run, r = worker[w].run, worker[w].pc # "idle",
         Leaves(w), run' = run, finals' = finals
  PROVE  Seen
<1>1. \A q \in Run \ {r} : Same(q)
  BY Elsewhere DEF Leaves, Rest
<1>2. Phase(r)' = Phase(r)
  BY DEF Phase
<1>3. ~Holding(w, r)'
  BY DEF Holding, InRun, Busy, Leaves
<1>4. \A v \in Worker \ {w} : Holding(v, r)' <=> Holding(v, r)
  BY DEF Holding, InRun, Busy, Token, Leaves, Others
<1>5. CASE Holding(w, r)
  <2>1. HolderOf(r) = w /\ Phase(r) = "held"
    BY <1>5, TheHolder, Phases DEF Sound, PromiseInv, Holding, Phase
  <2>2. \A v \in Worker : ~Holding(v, r)'
    BY <1>3, <1>4, <1>5 DEF Sound, PromiseInv, HoldsAlone, Holding, InRun
  <2>3. HolderOf(r)' = NoOwner
    BY <2>2, TheHolderAfter DEF Sound
  <2>4. Promise!Lose(w, r)
    BY <1>1, <1>2, <2>1, <2>3, OneMoves DEF Promise!Lose, Phase
  <2>q. QED BY <2>4 DEF Seen, Promise!Next
<1>6. CASE ~Holding(w, r)
  <2>1. HolderOf(r)' = HolderOf(r)
    BY <1>3, <1>4, <1>6, SameHolder DEF Sound, PromiseInv
  <2>q. QED BY <1>1, <1>2, <2>1, Unseen DEF Seen, Same
<1>q. QED BY <1>5, <1>6

(* updateMany takes the lease: the run is claimed, from the queue, from the user or
   from a handler whose lease has lapsed. *)
LEMMA LeaseSeen ==
  ASSUME Sound, NEW w \in Worker, LeaseRun(w)
  PROVE  Seen
<1>0. TypeOK /\ HoldsAlone
  BY DEF Sound, PromiseInv
<1>r. PICK r \in Run : r = worker[w].run
  BY <1>0, LeaseEffect
<1>1. /\ worker[w].pc = "entered" /\ r = worker[w].run /\ finals' = finals
      /\ \/ run' = run /\ Leaves(w)
         \/ /\ Leasable(run[r]) /\ Rest(r) /\ Moves(w, "leased")
            /\ run'[r].status = "leased" /\ run'[r].owner = Owner[w]
            /\ run'[r].fence = worker[w].fence
  BY <1>0, <1>r, LeaseEffect
<1>2. CASE run' = run /\ Leaves(w)
  BY <1>1, <1>2, LeavesSeen
<1>3. CASE ~(run' = run /\ Leaves(w))
  <2>1. Holding(w, r)'
    BY <1>1, <1>3, StatusFacts DEF Moves, Holding, InRun, Busy, Token
  <2>2. HolderOf(r)' = w
    BY <1>1, <2>1, TheHolderAfter DEF Sound
  <2>3. Phase(r)' = "held"
    BY <1>1, <1>3, Phases, StatusFacts DEF Phase
  <2>4. Phase(r) \in {"ready", "parked", "held"}
    BY <1>1, <1>3, Phases DEF Phase, Leasable
  <2>5. ~Holding(w, r)
    BY <1>1 DEF Holding, Token
  <2>6. HolderOf(r) # w
    BY <1>0, <1>1, <2>5, TheHolder, RunAssumption DEF HolderOf
  <2>7. \A q \in Run \ {r} : Same(q)
    BY <1>1, <1>3, Elsewhere DEF Moves
  <2>8. Promise!Claim(w, r)
    BY <1>1, <2>2, <2>3, <2>4, <2>6, <2>7, OneMoves DEF Promise!Claim, Phase
  <2>q. QED BY <1>1, <2>8 DEF Seen, Promise!Next
<1>q. QED BY <1>2, <1>3

(* A handler goes from its lease to its attempt and its work: the run stays its own. *)
LEMMA MovesSeen ==
  ASSUME Sound, NEW w \in Worker, NEW r \in Run, r = worker[w].run, NEW pc \in {"started", "working"},
         worker[w].pc \in {"leased", "started"}, Moves(w, pc), Rest(r), KeepsToken(r),
         run[r].status \in Claimed <=> run'[r].status \in Claimed,
         Phase(r)' = Phase(r), finals' = finals
  PROVE  Seen
<1>1. \A q \in Run \ {r} : Same(q)
  BY Elsewhere DEF Moves
<1>2. \A v \in Worker : Holding(v, r)' <=> Holding(v, r)
  BY DEF Holding, InRun, Busy, Token, Moves, Others, KeepsToken
<1>3. HolderOf(r)' = HolderOf(r)
  BY <1>2, SameHolder DEF Sound, PromiseInv
<1>q. QED BY <1>1, <1>3, Unseen DEF Seen, Same

(* Renewed or lapsed, a lease is nothing a user can tell. *)
LEMMA RowTouched ==
  ASSUME Sound, NEW r \in Run, Rest(r), KeepsToken(r), run'[r].status = run[r].status,
         worker' = worker, finals' = finals
  PROVE  Seen
<1>1. \A q \in Run \ {r} : Same(q)
  BY ElsewhereByRow
<1>2. \A v \in Worker : Holding(v, r)' <=> Holding(v, r)
  BY DEF Holding, InRun, Busy, Token, KeepsToken
<1>3. HolderOf(r)' = HolderOf(r) /\ Phase(r)' = Phase(r)
  BY <1>2, SameHolder DEF Sound, PromiseInv, Phase
<1>q. QED BY <1>1, <1>3, Unseen DEF Seen, Same

(* The steps of continueRun: claimed, lost, handed back, parked or delivered. *)
LEMMA HandlerStepSeen ==
  ASSUME Sound, NEW w \in Worker, HandlerStep(w) \/ HandlerFault(w) \/ RenewRunLease(w)
  PROVE  Seen
<1>0. TypeOK
  BY DEF Sound, PromiseInv
<1>1. CASE LeaseRun(w)
  BY <1>1, LeaseSeen
<1>2. CASE StartRun(w)
  <2>r. PICK r \in Run : r = worker[w].run
    BY <1>0, <1>2, StartEffect
  <2>1. /\ worker[w].pc = "leased" /\ finals' = finals
        /\ \/ run' = run /\ Leaves(w)
           \/ /\ run[r].status = "leased" /\ Rest(r) /\ Moves(w, "started") /\ KeepsToken(r)
              /\ run'[r].status = "running"
    BY <1>0, <1>2, <2>r, StartEffect
  <2>2. CASE run' = run /\ Leaves(w)
    BY <2>r, <2>1, <2>2, LeavesSeen
  <2>3. CASE ~(run' = run /\ Leaves(w))
    <3>1. Phase(r)' = Phase(r)
      BY <2>1, <2>3, Phases, StatusFacts DEF Phase
    <3>q. QED BY <2>r, <2>1, <2>3, <3>1, MovesSeen, StatusFacts
  <2>q. QED BY <2>2, <2>3
<1>3. CASE BeginAttempt(w)
  <2>r. PICK r \in Run : r = worker[w].run
    BY <1>0, <1>3, BeginEffect
  <2>1. worker[w].pc = "started" /\ run' = run /\ finals' = finals /\ Moves(w, "working")
    BY <1>0, <1>3, BeginEffect
  <2>q. QED BY <2>r, <2>1, MovesSeen DEF Rest, KeepsToken, Phase
<1>4. ASSUME NEW s \in {"waiting_input", "waiting_takeover"}, Commit(w, s), finals' = finals
      PROVE  Seen
  <2>r. PICK r \in Run : r = worker[w].run
    BY <1>0, <1>4, CommitEffect
  <2>1. Holds(w) /\ Rest(r) /\ Leaves(w) /\ run'[r].status = s
    BY <1>0, <1>4, <2>r, CommitEffect
  <2>2. /\ Phase(r) = "held" /\ HolderOf(r) = w /\ HolderOf(r)' = NoOwner
        /\ \A q \in Run \ {r} : Same(q)
    BY <2>r, <2>1, LetsGo, StatusFacts
  <2>3. Phase(r)' = "parked"
    BY <2>1, Phases DEF Phase
  <2>4. Promise!Park(w, r)
    BY <1>4, <2>2, <2>3, OneMoves DEF Promise!Park, Phase
  <2>q. QED BY <2>4 DEF Seen, Promise!Next
<1>5. ASSUME NEW outcome \in {"completed", "failed"}, FinalizeRun(w, outcome)
      PROVE  Seen
  <2>0. Commit(w, outcome)
    BY <1>5 DEF FinalizeRun
  <2>r. PICK r \in Run : r = worker[w].run
    BY <1>0, <2>0, CommitEffect
  <2>1. Holds(w) /\ Rest(r) /\ Leaves(w) /\ run'[r].status = outcome
    BY <1>0, <2>0, <2>r, CommitEffect
  <2>2. /\ Phase(r) = "held" /\ HolderOf(r) = w /\ HolderOf(r)' = NoOwner
        /\ \A q \in Run \ {r} : Same(q)
    BY <2>r, <2>1, LetsGo, StatusFacts
  <2>3. Phase(r)' = "over"
    BY <2>1, Phases, StatusFacts DEF Phase
  <2>4. \E n \in {0, 1} : finals' = [finals EXCEPT ![r] = @ + n]
    <3>1. /\ finals[r] \in Nat
          /\ finals' = [finals EXCEPT ![r] = IF outcome = "completed" THEN finals[r] + 1 ELSE finals[r]]
      BY <1>0, <1>5, <2>r DEF FinalizeRun, TypeOK
    <3>2. CASE outcome = "completed"
      BY <3>1, <3>2
    <3>3. CASE outcome = "failed"
      <4>1. finals' = [finals EXCEPT ![r] = finals[r]]
        BY <3>1, <3>3
      <4>2. finals[r] = finals[r] + 0
        BY <3>1
      <4>3. finals' = [finals EXCEPT ![r] = finals[r] + 0]
        BY <4>1, <4>2, Zenon
      <4>q. QED BY <4>3
    <3>q. QED BY <3>2, <3>3
  <2>5. Promise!Deliver(w, r)
    BY <2>2, <2>3, <2>4, OneMoves DEF Promise!Deliver, Phase
  <2>q. QED BY <2>5 DEF Seen, Promise!Next
<1>6. CASE HandlerFault(w) \/ AbandonRun(w)
  <2>r. PICK r \in Run : r = worker[w].run
    BY <1>0, <1>6, FaultEffect
  <2>1. /\ Leaves(w) /\ finals' = finals
        /\ \/ run' = run
           \/ Holds(w) /\ Rest(r) /\ run'[r].status = "queued"
    BY <1>0, <1>6, <2>r, FaultEffect
  <2>2. CASE run' = run
    <3>1. worker[w].pc # "idle"
      BY <1>6 DEF HandlerFault, RequeueComputerRun, PrepareThrows, SetupFails, HeartbeatFails,
                  Crash, AbandonRun, Busy
    <3>q. QED BY <2>r, <2>1, <2>2, <3>1, LeavesSeen
  <2>3. CASE run' # run
    <3>1. /\ Phase(r) = "held" /\ HolderOf(r) = w /\ HolderOf(r)' = NoOwner
          /\ \A q \in Run \ {r} : Same(q)
      BY <2>r, <2>1, <2>3, LetsGo, StatusFacts
    <3>2. Phase(r)' = "ready"
      BY <2>1, <2>3, Phases DEF Phase
    <3>3. Promise!HandBack(w, r)
      BY <2>1, <3>1, <3>2, OneMoves DEF Promise!HandBack, Phase
    <3>q. QED BY <3>3 DEF Seen, Promise!Next
  <2>q. QED BY <2>2, <2>3
<1>7. CASE RenewRunLease(w)
  <2>r. PICK r \in Run : r = worker[w].run
    BY <1>0, <1>7, RenewEffect
  <2>1. /\ Rest(r) /\ KeepsToken(r) /\ worker' = worker /\ finals' = finals
        /\ run'[r].status = run[r].status
    BY <1>0, <1>7, <2>r, RenewEffect
  <2>q. QED BY <2>1, RowTouched
<1>q. QED
  BY <1>1, <1>2, <1>3, <1>4, <1>5, <1>6, <1>7
  DEF HandlerStep, PauseRunForInput, PauseRunForTakeover, thread

(* A slot enters a run, an enqueue lands or is lost, the scan and the two reads of a
   stop: none of them is seen. *)
LEMMA QuietSeen ==
  ASSUME Sound, run' = run, finals' = finals,
         worker' = worker \/ \E w \in Worker : worker[w].pc = "idle" /\ Others(w)
                                            /\ worker'[w].pc \in {"idle", "entered"}
  PROVE  Seen
<1>1. ASSUME NEW q \in Run PROVE Same(q)
  <2>1. \A v \in Worker : Holding(v, q)' <=> Holding(v, q)
    BY DEF Holding, InRun, Busy, Token, Others
  <2>2. HolderOf(q)' = HolderOf(q)
    BY <2>1, SameHolder DEF Sound, PromiseInv
  <2>q. QED BY <2>2 DEF Same, Phase
<1>q. QED BY <1>1, Unseen DEF Seen

(* A message submits a run; an answer or a released computer resumes a parked one. *)
LEMMA RequestSeen ==
  ASSUME Sound, NEW r \in Run, NEW c \in Resume,
         SendUserMessage(r) \/ AnswerRunInput(r) \/ ReleaseControl(r, c)
  PROVE  Seen
<1>0. TypeOK
  BY DEF Sound, PromiseInv
<1>1. /\ worker' = worker /\ finals' = finals /\ Rest(r)
      /\ run[r].status \notin Claimed
  BY <1>0, RequestEffect
<1>2. run'[r].status = "queued"
  <2>1. run[r] \in RunRow
    BY <1>0 DEF TypeOK
  <2>q. QED BY <1>0, <2>1 DEF SendUserMessage, AnswerRunInput, ReleaseControl, TypeOK, RunRow
<1>3. \A q \in Run \ {r} : Same(q)
  BY <1>1, ElsewhereByRow
<1>4. HolderOf(r)' = NoOwner /\ HolderOf(r) = NoOwner
  BY <1>1, <1>2, TheHolder, TheHolderAfter, StatusFacts DEF Holding, Sound, PromiseInv
<1>5. Phase(r)' = "ready"
  BY <1>2, Phases DEF Phase
<1>6. CASE SendUserMessage(r)
  <2>1. Phase(r) = "new"
    BY <1>6, Phases DEF SendUserMessage, Phase
  <2>2. Promise!Submit(r)
    BY <1>1, <1>3, <1>4, <1>5, <2>1, OneMoves DEF Promise!Submit, Phase
  <2>q. QED BY <2>2 DEF Seen, Promise!Next
<1>7. CASE AnswerRunInput(r) \/ ReleaseControl(r, c)
  <2>1. Phase(r) = "parked"
    BY <1>7, Phases DEF AnswerRunInput, ReleaseControl, Phase
  <2>2. Promise!Resume(r)
    BY <1>1, <1>3, <1>4, <1>5, <2>1, OneMoves DEF Promise!Resume, Phase
  <2>q. QED BY <2>2 DEF Seen, Promise!Next
<1>q. QED BY <1>6, <1>7

(* A stop, a clear and a superseding message end the runs they hit at one stroke. *)
LEMMA EndSeen ==
  ASSUME Sound, CancelsById \/ ClearThread
  PROVE  Seen
<1>0. TypeOK /\ StopsExist
  BY DEF Sound, PromiseInv
<1>1. PICK S \in SUBSET Run :
        /\ \A q \in S : run[q].status # "absent" /\ run'[q].status = "cancelled"
        /\ \A q \in Run \ S : run'[q] = run[q]
  <2>0. \A q \in Run : run[q] \in RunRow
    BY <1>0 DEF TypeOK
  <2>1. CASE CancelsById
    <3>1. /\ stopping \in SUBSET Run /\ \A q \in stopping : run[q].status # "absent"
      BY <1>0 DEF TypeOK, StopsExist
    <3>2. \A q \in Run : run'[q] = IF q \in stopping THEN [run[q] EXCEPT !.status = "cancelled"]
                                                    ELSE run[q]
      BY <2>1 DEF CancelsById, StopCancelsRuns, CancelSupersededQueuedRuns, CancelById
    <3>3. /\ \A q \in stopping : run'[q].status = "cancelled"
          /\ \A q \in Run \ stopping : run'[q] = run[q]
      BY <2>0, <3>1, <3>2 DEF RunRow
    <3>q. QED BY <3>1, <3>3
  <2>2. CASE ClearThread
    <3> DEFINE hit == {q \in Run : run[q].status \in Active}
    <3>1. \A q \in hit : run[q].status # "absent"
      BY DEF Active
    <3>2. \A q \in Run : run'[q] = IF q \in hit THEN [run[q] EXCEPT !.status = "cancelled",
                                                   !.owner = NoOwner, !.lease = "none"]
                                            ELSE run[q]
      BY <2>2 DEF ClearThread
    <3>3. /\ \A q \in hit : run'[q].status = "cancelled"
          /\ \A q \in Run \ hit : run'[q] = run[q]
      BY <2>0, <3>2 DEF RunRow
    <3>4. hit \in SUBSET Run
      OBVIOUS
    <3> HIDE DEF hit
    <3>q. QED BY <3>1, <3>3, <3>4
  <2>q. QED BY <2>1, <2>2
<1>2. worker' = worker /\ finals' = finals
  BY <1>0, EndEffect
<1>3. ASSUME NEW q \in Run \ S PROVE Same(q)
  <2>1. \A v \in Worker : Holding(v, q)' <=> Holding(v, q)
    BY <1>1, <1>2 DEF Holding, InRun, Busy, Token
  <2>2. HolderOf(q)' = HolderOf(q)
    BY <2>1, SameHolder DEF Sound, PromiseInv
  <2>q. QED BY <1>1, <2>2 DEF Same, Phase
<1>4. ASSUME NEW q \in S
      PROVE  Phase(q) # "new" /\ Phase(q)' = "over" /\ HolderOf(q)' = NoOwner
  <2>1. Phase(q) # "new" /\ Phase(q)' = "over"
    BY <1>0, <1>1, Phases, StatusFacts DEF Phase, TypeOK, RunRow
  <2>2. HolderOf(q)' = NoOwner
    BY <1>1, TheHolderAfter, StatusFacts DEF Holding, Sound
  <2>q. QED BY <2>1, <2>2
<1>5. Promise!End(S)
  BY <1>2, <1>3, <1>4 DEF Promise!End, Same, Phase
<1>q. QED BY <1>5 DEF Seen, Promise!Next

(* Every action of RunLifecycle, under the invariant before it and one holder after it. *)
LEMMA StepSeen == Sound /\ [Next]_vars => Seen
<1> SUFFICES ASSUME Sound, [Next]_vars PROVE Seen
  OBVIOUS
<1>0. TypeOK
  BY DEF Sound, PromiseInv
<1>1. ASSUME NEW w \in Worker, HandlerStep(w) \/ HandlerFault(w) \/ RenewRunLease(w)
      PROVE  Seen
  BY <1>1, HandlerStepSeen
<1>2. ASSUME NEW w \in Worker, NEW r \in Run, EnterRun(w, r) PROVE Seen
  BY <1>0, <1>2, EnterEffect, QuietSeen
<1>3. ASSUME NEW r \in Run, \/ EnqueueLands(r) \/ EnqueueLost(r) \/ LapseAbandoned(r)
                            \/ LapseStalled(r)
      PROVE  Seen
  BY <1>0, <1>3, LapseEffect, QuietSeen, RowTouched
<1>4. ASSUME Reconcile \/ ReadsRuns \/ UNCHANGED vars PROVE Seen
  BY <1>4, QuietSeen
  DEF Reconcile, ReadsRuns, StopReadsRuns, SupersedeReadsRuns, vars, thread, cancels
<1>5. ASSUME NEW r \in Run, NEW c \in Resume,
             SendUserMessage(r) \/ AnswerRunInput(r) \/ ReleaseControl(r, c)
      PROVE  Seen
  BY <1>5, RequestSeen
<1>6. ASSUME CancelsById \/ ClearThread PROVE Seen
  BY <1>6, EndSeen
<1>7. "none" \in Resume
  BY DEF Resume
<1>q. QED
  BY <1>1, <1>2, <1>3, <1>4, <1>5, <1>6, <1>7 DEF Next, ReadsRuns, CancelsById

(* The rows and handlers of continueRun implement the promise, when every slot has a
   workerId of its own or when no lease lapses under a living handler: one handler at a
   time holds a run, it alone parks it, hands it back or delivers its answer, and a run
   that is over stays over. *)
THEOREM ImplementsPromise ==
  ASSUME OwnersDistinct \/ MaxStalls = 0
  PROVE  Spec => KeepsPromise
<1>1. Init => Promise!Init /\ StopsExist
  <2> SUFFICES ASSUME Init PROVE Promise!Init /\ StopsExist
    OBVIOUS
  <2>1. ASSUME NEW r \in Run PROVE Phase(r) = "new" /\ HolderOf(r) = NoOwner
    BY Phases DEF Init, NoRow, Phase, HolderOf, Holding, InRun, Busy, Idle
  <2>q. QED BY <2>1 DEF Init, Promise!Init, Phase, StopsExist
<1>2. Spec => [](TypeOK /\ RunInv) /\ []HoldsAlone
  BY RunInvariant, AlwaysAlone
<1>3. PromiseInv /\ HoldsAlone' /\ [Next]_vars => [Promise!Next]_(Promise!vars)
  BY StepSeen DEF Sound, Seen
<1>4. TypeOK /\ StopsExist /\ [Next]_vars => StopsExist'
  BY StopsExistStep
<1>q. QED BY <1>1, <1>2, <1>3, <1>4, PTL DEF Spec, KeepsPromise, Promise!Spec, PromiseInv
=============================================================================
