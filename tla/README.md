# Rakazo: specifications, model checks and proofs

Rakazo runs bots for a team. A user writes to a bot's thread; the message becomes a *run*; a
worker process executes the run by letting a model call tools on a shared cloud computer; the
run ends with a message, a question, or a request that the user take over the screen. This
directory holds TLA+ specifications of the machinery underneath, what TLC shows about them on
small instances and what TLAPS proves for every instance.

Paths are relative to the repository (`src/` in `PROJECT.json`). The table that ties each
definition to its lines is `map` in `PROJECT.json`; the hazards the properties are for are
`hazards` there.

## 1. The system and its parts

| part | code | state it keeps | operations | what makes it correct | module |
|---|---|---|---|---|---|
| run lifecycle | `packages/core/src/run-state.ts`, `packages/adapters/src/executor.ts` (`continueRun`), `packages/db/src/events.ts`, `apps/api/src/thread-target.ts` | `runs`, `attempts` rows; `run.continue` jobs; the locals of a handler | lease, start, requeue, pause, finalize, renew; send, answer, release, stop, clear, supersede; reconcile | one handler at a time, at most one final message, silence after a cancel, every run settles | RunLifecycle |
| external effects | `executor.ts` (`applyTool`), `approval-effect.ts`, `packages/core/src/action-approval.ts` | `external_effects` rows, approval rules | record, judge, ask, answer, claim, perform, settle, replay | an effect that needs approval happens at most once, and only if approved; an outcome is final | EffectGate |
| computers | `packages/adapters/src/computer-lifecycle.ts`, `computer-idle.ts`, `apps/api/src/router.ts` (boot, stop, replace) | `computers`, `computer_execution_leases` rows; the sandbox | provision, acquire / renew / hold / release an execution lease, sleep, stop, replace | the sandbox is not taken from under a run; a lease has one holder; no state is left booting or suspending for ever | ComputerLease |
| history compaction | `packages/adapters/src/history-compaction.ts`, `clearThread` in `events.ts` | `threads.historyCompactedUpToSeq`, generation, summary; the external memory | compact, clear, purge, read for a run | every message is in the summary or after it; what was cleared never comes back | ThreadHistory |
| thread log | `packages/db/src/events.ts`, `messages.ts`, `packages/adapters/src/realtime.ts`, `apps/web/src/lib/thread-events.ts` | `threads.nextEventSeq`, `events`, `messages` rows; a channel of announcements; the client's snapshot | append, announce, follow, snapshot, merge | a client that is up to date shows what is there; no wake-up is missed; the client catches up | ThreadLog |
| screen control | `computer-control.ts`, `router.ts` and `taught-skills.ts` (takeover, release, teaching), `extra-displays.ts`, `executor.ts` (`request_takeover`) | control columns of `computers`; a timer for every lease; the streams open on the screens | take, switch, extend, release, expire, view; ask, wait, resume | control and stream agree; a late call ends no later control; a run that waits is resumed when control goes | ComputerControl |
| routines | `executor.ts` (`wakeRoutine`), `router.ts`, `schedule-tools.ts`, `child-bots.ts` | `routines.nextRunAt`, `active`; the keyed `routine.wakeup` job | schedule, wake, restore, edit, remove, archive, scan | an occurrence makes at most one run, none is lost, a due one fires | RoutineWakeup |
| job reconciler | `packages/adapters/src/job-reconciler.ts` | advisory lock, scan cursors, deadline | elect, scan, enqueue | a scan covers the rows it set out to cover; who needs a job gets one | JobReconciler; what a job then does: RunLifecycle, RoutineWakeup, ComputerControl |
| messages that start runs | `events.ts` (`sendUserMessage`), `thread-target.ts`, `webhook.ts`, `bot-messages.ts` | `messages`, `runs` rows; keys `clientNonce`, `deliveryKey` | send, repeat, deliver, supersede, stop, clear | a repeated call delivers once; no message is unheard; what was cleared stays cleared | SendOnce |
| teaching | `teaching-session.ts`, `apps/api/src/taught-skills.ts` | `taught_skills` rows, the expiry job, draft cards and events in the thread | start, record, stop, expire, show, edit, save, remove | one recording per bot, finished once and whole; its card appears, once | Teaching |
| one-time secrets | `run-secret.ts` | `run_secrets` rows | offer, consume, destroy | bound to one run, consumed once | planned |
| model runtime, connectors, memory store, voice, sandbox providers | `pi-runtime.ts`, `*-connector.ts`, `*-sandbox.ts`, `*-voice.ts`, `packages/memory` | none of their own, or a provider's | I/O | - | not modelled, or an external actor of the modules above |
| web, mobile, desktop, www, deployment | `apps/`, `infra` | view state | view | - | not modelled, except the web client's merge of events (ThreadLog) |

How they interact. There is no shared memory between processes: the API processes, the worker
processes and the reconciler meet only in rows of one PostgreSQL database, in the job table of
graphile-worker, which is in the same database, and in `LISTEN/NOTIFY`, which only says "look again".
Every module therefore has the same shape. A process is a record of local variables with a
stage `at` (or `pc`); a step is one statement, one transaction, or one call of an outside
service; between two steps anything else may happen. What protects the rows is the `where`
clause of an update (`updateMany` with a count), a unique key, or the lock of the thread's row,
which every transaction that writes to a thread takes first by incrementing one of its counters.

Where it is hard:

- *state read before an await and used after it*: the fence of a lease, the status of runs
  to stop, the cursor of a compaction, the state a refused stop restores;
- *two processes that both believe they own something*: a lease that lapses under a living
  handler, a job delivered twice, two slots of one worker process that pass the same `workerId`;
- *crashes between two writes*: after the row and before its enqueue, after a side effect and
  before its outcome is recorded, between a lease and its release;
- *messages out of order or lost*: announcements, snapshots that overtake events, saves to an
  external memory that arrive after the purge, timers of an older schedule or an older lease;
- *calls that are repeated*: a caller that lost the answer sends again, perhaps while the first
  transaction is still open, or after its commit only looked failed;
- *something must eventually happen*: a run is settled, a subscriber catches up, a due routine
  fires, a draft is shown, although what would have woken them is lost.

## 2. The modules

| module | what it models | checked by | proved in |
|---|---|---|---|
| `RunLifecycle` | a run's row, attempts, jobs, handlers, requests, reconciler | `run_safety`, `run_liveness`, `run_stops_finished` | `RunLifecycleProofs` |
| `RunPromise` | abstract: what users may rely on | refined by RunLifecycle (`KeepsPromise`, in `run_liveness`) | `RunLifecycleProofs` |
| `EffectGate` | `applyTool` before, during and after an external effect | `effect_safety` | `EffectGateProofs` |
| `EffectPromise` | abstract: what the gate says of an effect, and when it happens | refined by EffectGate (`KeepsEffectPromise`, in `effect_safety`) | `EffectGateProofs` |
| `ComputerLease` | the sandbox, its row, the leases of the bots | `computer` | `ComputerProofs` |
| `ComputerControl` | a user's control of a bot's screen | `computer_control` | `ComputerProofs` |
| `TeamComputer` | the bots the two modules before are both about | both | - |
| `RoutineWakeup` | a routine, its job, its handlers, the requests that change it | `routine_wakeup` | `RoutineWakeupProofs` |
| `JobReconciler` | the election and the paged scans of three tables | `job_reconciler` | `JobReconcilerProofs` |
| `SendOnce` | transactions that append a message and start runs | `send_once` | `ThreadProofs` |
| `Teaching` | a recording that becomes a draft skill | `teaching` | `TeachingProofs` |
| `ThreadHistory` | messages, summaries and clears of a bot's thread | `thread_history` | `ThreadHistoryProofs` |
| `ThreadLog` | the log of events and a client that follows it | `thread_log` | `ThreadProofs` |

How they fit together. Each module owns the rows it names and shows the rest of the system as
what it may do to them at any moment: RunLifecycle's `SendUserMessage` is any call of SendOnce;
SendOnce's `Claim` and `Finish` are a handler of RunLifecycle; the run that RoutineWakeup makes, and the jobs
JobReconciler enqueues, are picked up there; the takeover that a run asks for is an action of
ComputerLease (what becomes of the computer), of ComputerControl (what becomes of the control) and of
RunLifecycle (what becomes of the run); Teaching's start takes the screen in ComputerControl. A module
lets the rows it does not own change at any moment within its bounds, so that what it shows does not
depend on when the other modules' processes run.

Each `MC<Module>` extends its module, gives names to the model values that functions need
(`BotOf`, `ToolOf`, `Owner`, `Calls`) and defines the symmetry where it is sound: runs, slots, jobs and calls
are interchangeable wherever the constants treat them alike, and no run with a liveness
property uses symmetry.

Every module ends with its properties. An invariant named `...Inv` is the conjunction of the module's type
invariant with the first thing that could go wrong in it (`RoutineInv` is `RoutineTypeOK`,
`EarlyBySlackAtMost` and `FiresForward`, `ComputerInv` is `ComputerTypeOK` and `TransientHasOwner`, `ControlInv` is `ControlTypeOK` and
`StreamIsRevocable`, `LogInv` is `LogTypeOK` and `ShownIsTrue`, `SendInv` is `SendTypeOK` and
`OneDelivery`, `TeachInv` is `TeachTypeOK` and `PlaybookIsWhole`), since a type invariant by itself says little that
a mutant of the code could break. `TypeOK` of RunLifecycle, `GateTypeOK` and `HistoryTypeOK` are proved and not run.

### RunLifecycle

*State.* `run[r]` is the row: status, `leaseOwner`, `leaseFence`, whether `leaseExpiresAt` has
passed, and the checkpoint. `attempt[w]` is the row of `attempts` that slot `w` created.
`worker[w]` holds the locals of `continueRun` in slot `w`: the fence it computed from the row it
*read*, and the checkpoint it consumed. `jobs[r]` are the `run.continue` jobs that wait,
`sending` the enqueue calls that a request has started after its commit. `stopping` and `locked`
are the ids a stop or a superseding message has read and not yet cancelled.

*Actions.* `EnterRun`, `LeaseRun`, `StartRun`, `BeginAttempt` follow `continueRun` from the job to
the agent loop; `RequeueComputerRun`, `PrepareThrows`, `SetupFails`, `HeartbeatFails`, `Crash` are its
error paths; `RenewRunLease`, `PauseRunForInput`, `PauseRunForTakeover`, `FinalizeRun`,
`AbandonRun` its writes through `events.ts`. `SendUserMessage`, `AnswerRunInput`, `ReleaseControl`,
`StopReadsRuns`/`StopCancelsRuns`, `SupersedeReadsRuns`/`CancelSupersededQueuedRuns`, `ClearThread`
are the API's. `EnqueueLands`, `EnqueueLost`, `Reconcile`, `LapseAbandoned`, `LapseStalled` are the queue,
the reconciler and the clock.

*Abstractions.* The agent loop is the single stage `working`; narration in the middle of a run is
in ThreadHistory. Time is "live" or "lapsed". All of `Run` belong to one thread, and one stop or
superseding request is between its read and its write at a time. `SendUserMessage` stands for
any creator of a run (user, routine, webhook, another bot). `Crash` also stands for the silent return on a lost lease
before the attempt begins.

### RunPromise

A run is new, ready, held by one handler, parked, or over. Only its holder parks it, hands it
back or delivers; it delivers at most once; what is over stays over. RunLifecycle implements it
under the mapping `phase`, `holder`, `delivered` in its last section: the holder of a row is the handler whose
`Token` matches it. A crash maps to `Lose`, a stolen lease to `Claim`, a late commit of an
old handler to nothing at all, which is the point.

### EffectGate

*State.* One run with the slots that may hold handlers of it at the same time; `effect[q]` is the
row of `external_effects` whose key digests run, tool and arguments (`Request` q); `rule` what the
user's approval rules resolve to for a tool; `hand[w]` the locals of `continueRun` and `applyTool`
(the replay queue, the rules it loaded, the row it read). `ran`, `granted` and `asked` are
history: how often the side effect of q happened, whether the user allowed it, whether a card was shown.

*Actions.* `CallTool` is `applyTool` up to its first write (replay queue, `planActionGate`, the row
found or not); `Create`, `Judge`, `Renew`, `Pause`, `Claim`, `Refused`, `Settle`, `Perform`,
`Record` are the statements after it; `Lease`, `LoadApproved`, `Complete`, `Fail`, `Crash` the handler
around it; `Answer`, `Stop`, `EditRules` the user.

*Abstractions.* A handler makes one call at a time. Tools that only read, and
`request_secret`, are left out. A call that is not keyed (its plan is allow and its tool not
consequential) has a row nobody else sees: it counts only if it was a replay of an approved one.

### EffectPromise

An effect is open, denied, begun, done or unknown; `happened` counts those that may happen only once. It may
happen once it is begun, also after somebody gave up on it; it is called done only when it happened; denied,
done and unknown are left by no step. EffectGate implements it with `PhaseOf` of a row's status, where
intended and approved are both open, and `ran` of the requests of consequential tools (`Single`). A request that
is asked about only because of a rule has a phase and no count: without the rule its calls carry no key,
and the user who allowed it may see it happen again.

### ComputerLease

*State.* `computer` is the row (state, whether it has a `providerRef`, whether `updatedAt` moved since the
sleep job looked); `sandbox` what the provider has under that reference; `lease[b]` the execution lease of bot b
(run, fence, ends); `call[c]` the locals of a handler, a boot or a replacement; `sleeper` and `stopper` the sleep
job and a user's stop. `spent` counts what the bounds limit; its `overwrites` and `strays` are history: takeover
requests that wrote `running` over another state, by the handler of the run or by one that had lost it.

*Actions*, in the order of the code: `acquireComputerExecutionLease` (`ReadState`, `Acquire`,
`Validate`, `Close`), `provisionComputer` (`Enter`, `Await`, `Book`, `Boot`, `Activate`, `Undo`, `Reconnect`),
a run that uses it (`Finish`, `AskTakeover`, `WriteRunning`, `Hold`, `Pause`), `replaceComputer` (`Look`,
`ClaimReplace`, `CheckRuns`, `Destroy`, `ForgetRef`, `FailReplace`), `sleepComputerIfIdle` (`Sleep*`),
`computer.stop` (`Stop*`), and the world (`SendMessage`, `ReleaseTakeover`, `LeaseEnds`,
`LeaseLapses`, `Heartbeat`, `Crash`, `CrashSleeper`).

*Abstractions.* User control and screens (ComputerControl has them), archived bots, workspace checkpoints and cancels of runs
are left out. `replaceComputer` returns `provisionComputer` without awaiting it, so its catch
covers only the teardown; the model follows the code. A takeover request renews the lease of its run
(`AskTakeover`) and, after it has published what the bot said, writes the row (`WriteRunning`), whose
`where` clause names neither the state nor the run. A sandbox does not vanish by itself; with that, the write of
`screenUrl` that answers it (`router.ts:1585-1597`: stopped, and no `providerRef`) is left out.

### ComputerControl

*State.* `row` are the control columns (holder, lease, when it expires, bot, run); `granted` counts
leases, whose numbers are their ids; `timer[l]` is the `computer.control-expire` job of lease l;
`stream[b]` the token of the stream the provider has open on the screen of b; `view` what a
`screenUrl` request has read and not used yet; `proc[p]` the locals of a request or an expiry job;
`run[b]` and `leased` what matters of b's run. `loose` is history: leases that left the row without a
close, and leases whose viewer opened a stream when the lease had left the row, or when the process that ends it had
closed the stream already (`HasClosed`).

*Actions.* `Takeover*`, `Switch*`, `Checks`, `Granted`, `Arms`, `ArmFails`, `Reverts` are the takeover;
`Teach*`, `Extends` the one a teaching session makes; `Release*`, `Unteach*`, `Cancels` the
release; `TimerFires`, `StatusFindsStale`, `ExpiryReads`, `ExpiryClaims`, `ExpiryCloses`,
`ExpiryFinalizes` the three ways into `expireComputerControl`; `Finalizes`/`Resumes` the transaction that clears
the columns and queues the waiting run; `ViewReads`, `ViewOpens` the viewer; `RunStarts`, `RunAsks`,
`RunWaits`, `RunEnds` the run; `Reconciles` the scan that arms a timer that was lost.

*Abstractions.* The computer stays up: `computer.stop`, which empties the control columns too
(`router.ts:1243-1252`), is left out here. A bot has one run. Input events are not modelled (they are
Teaching's), nor is the lock order of `clearThread` against a release: both take rows in one transaction and PostgreSQL
aborts one of two that deadlock, which `Fails` covers.

### RoutineWakeup

*State.* `routine` is the row (active, schedule, `nextRunAt`, whether it ran); `wake` the time of the job under the
routine's key; `worker[w]` the locals of `wakeRoutine`, with `keyed` for a job that still has
its key (graphile-worker takes the key from a locked job that is replaced, and its retries
with it); `run` the runs it made, each with its occurrence; `sweep` what the scan has read and not yet
enqueued; `edit`, `archive` a request between its read and its last statement. A recurring schedule
is its period and its occurrences are the multiples. `again` and `undone` are history: the
occurrences put back although a run of them, or of a later one, stood; and whether a tool took back the routine it had made.

*Actions.* `WakeStale`, `WakeEarly`, `WakeDue`, `Claim`, `ClaimMissed`, `RunEnqueued`,
`RunNotEnqueued`, `Restore`, `Arm`, `Crash`; `SweepReads`, `SweepEnqueues`, `SweepFails`;
`CreateRoutine`, `CreateSchedule`, `UpdateReads`, `UpdateWrites`, `Remove`, `RequestSyncs`,
`RequestFails`; `ArchiveReads`, `ArchiveCommits`, `ArchiveCancels`; `Tick`.

*Abstractions.* Time zones and the reading of cron expressions; routines with a webhook trigger only; test
runs; a bot that is unarchived. The job table's clock may be `Skew` ahead of the worker's, so that a job can be handed
out before its time. `deferFutureRoutine` puts it off only when more than a second is missing (`executor.ts:356`): that second
is `Slack`, and a wakeup within it fires. The run then exists before its occurrence has come, and the next one must be
computed from the later of the clock and the occurrence (`Later`, the `Math.max` of `executor.ts:502`). In the instance `Skew` is
greater than `Slack`, so that wakeups are put off as well as fired early. The check of a wakeup and the computation of the successor
are one step in the model and read one clock; in the code some reads of the database lie between the two.

### JobReconciler

*State.* Of each of three tables (`run`, `routine`, `computer`) the time of every row that the scan
sorts by (`at`, `Off` when the row does not match); `lock`, `leads` the election: who holds the
advisory lock and who believes it; `cursor`, `deadline`, `page`, `pc` the variables of a reconciler, which outlive a
pass and a lost leadership. `owed` is history: what a scan set out to cover.

*Actions.* `PassReads` (election, three pages), `PassEnds` (the enqueues and the new cursors), `PassFails`,
`ConnectionLost`, `LeaderNotices`, `Restarts`; `RowMoves`, `JobRuns`, `JobLost` the rest of the system; `Tick`.

*Abstractions.* The three reads of a pass are one step, and so are its enqueues, except that a pass
may fail after any of them. What a job does is `JobRuns`: its row may stay, move or leave.

### SendOnce

*State.* `message` is the sequence of all messages ever committed, `run` the run a message started for a
bot, with the messages its handler had before it; `lock[t]` the call that holds the row lock of
thread t; `call[c]` where the transaction of a call is. An `Address` tells of each key what is
repeated under it: a user's send, a webhook, a follow-up, or a bot's message to another bot.

*Actions.* `Asks`, `Locks` (the increment that locks the row, the lookup of the key, the write),
`Rejected`, `Replays`, `Commits`, `CommitLooksFailed`, `Aborts`; `LocksEcho`, `CommitsDelivery`,
`Deadlock` for `messageBot`, which locks the receiver's thread and then the sender's; `Claim`, `Finish`, `Stop`,
`Clear`.

*Abstractions.* Group handoffs, which have no delivery key; hop limits; the creation of child bots;
attachments. `cancelled` of the code is three statuses here, for who cancelled.

### Teaching

*State.* `skill[s]` is the row (status, inputs recorded, the playbook as the number of inputs it was built
from, whether the user edited it); `late`, `timer` its expiry and the job; `cards` the draft cards of the thread in order, `drafted` its draft events
(skill and number); `proc[p]` a request or a job. `stopped`, `posted`, `told` are history.

*Actions.* `Starts`, `StartCreates`, `StartSchedules`; `Snapshots`, `InputReads`, `InputRecords`;
`Stops`, `StopReads`, `JobFires`, `ExpireReads`, `Finalizes`, `Shows`, `Cancels`, `Returns`;
`Gets`, `Saves`, `EditReads`, `EditWrites`, `RemoveReads`, `RemoveDeletes`; `TimePasses`, `Dies`, `OthersPost`,
`ClearThread`.

*Abstractions.* What a playbook says; test runs; the `drafting` status, which nothing writes;
`appendEvent` and snapshot requests, which write as `Snapshots` does.

### ThreadHistory

*State.* `thread` is the row (next sequence number, cursor, generation, summary); a text is the
set of the messages it tells of. `memory[g]` is what the external memory keeps under generation g.
`run[r].view` is what the handler of r has read; `job[j]` the locals of `compactHistory`;
`purges` the requests that have cleared the thread and not yet purged. `born` of a message is the generation in which its
author's run began: it is what the properties compare.

*Actions.* `SendUserMessage`, `ReadThread`, `ReadMessages`, `Narrate`, `FinalizeRun`, `StopRun`;
`ClearThread` (the transaction), `PurgeCleared` (the request after it); `StartCompaction`,
`ReadBatch`, `SummaryFails`, `Advance`, `Save`, `CheckAgain`, `PurgeStale`, `Crash`. `Init` also covers threads compacted or
cleared by the version that kept no generations.

*Abstractions.* Group threads (a job without a bot returns at once), an enqueue of the
compaction that is lost, and the gap between the read and the write of a stop (that is
RunLifecycle's) are left out.

### ThreadLog

*State.* `nextEventSeq`, `events`, `messages` are the tables; `tx[w]` a transaction that holds the
lock of the thread's row, then its announcement; `stream` the locals of `followThreadEvents` and
the change latch; `req[q]` a `threads.get` on its way; `client` the cursor of the stream, the sequence number of the
snapshot shown and the messages it shows.

*Actions.* `Lock`, `Commit`, `Abort`, `Notify`; `StopRun` (which deletes progress events with no lock);
`Connect`, `Disconnect`; `Subscribe`, `Read`, `Yield`, `CatchUp`, `Drop`; `ReadPage`, `ReadCursor`,
`Answer`.

*Abstractions.* The lock and the page read of a snapshot are one step; so are subscribing
and the first observation of the generation. The refresh epochs of the web shell are left out: the model accepts
answers in any order. That is more than the shell allows, with one exception: when another request overtakes the opening
`threads.get`, the shell discards its answer and still subscribes from its cursor (`refreshThread` in `Shell.tsx:590-605`, used
at `Shell.tsx:898-902`), whereas a client of the model subscribes from a snapshot it shows. What that client shows until
the later answer arrives is outside the model. Left out: runs and the live bubble of a
snapshot, older pages, `message.updated`, the poll without realtime, and a client whose first `threads.get` fails:
until it has a snapshot `reduceThreadSnapshot` drops events (`if (!prev) return prev`).

## 3. What TLC checks

| run | instance | question | states |
|---|---|---|---|
| `run_safety` | 1 run, 2 slots of one process (one `workerId`), 1 fault, 1 stalled lease, resumed once | `OneHolder`, `HolderCanCommit`, `OneFinalMessage`, `CancelledIsSilent` | 2.0 M |
| `run_liveness` | 1 run, 2 slots of one process, 1 fault, no stall, resumed once, fairness | `RunSettles`; `KeepsPromise` with faults | 0.44 M |
| `effect_safety` | 2 requests (one consequential, one not), 2 workers, 3 leases, 1 stall, 1 edit of the rules | `AtMostOnce`, `DeniedNeverRuns`, `CardsHold` (`CardComesFirst` and `CardIsAnswerable`), `KeepsEffectPromise` | 4.5 M |
| `computer` | 2 bots with a run each, a sleep job; and any two of: a boot, replacement or stop by the user, a takeover, a lapse, a crash; calls symmetric | `ComputerInv`, `UpBesideReplace`, `StopSparesOthers` | 3.6 M |
| `computer_control` | 2 bots, one with a run, the other on an extra display; 2 processes, 2 leases, 2 requests, 1 takeover asked for, 1 fault | `ControlInv`, `LateCallsSpareControl`, `LateCallsSpareStream`, `HandedBack` | 3.6 M |
| `routine_wakeup` | 1 routine, 2 slots, 3 runs, schedules of 2 and 3 or once, 1 request of any kind, 1 fault, clock up to 3, skew 2, slack 1, fairness | `RoutineInv`, `OneRunPerOccurrence`, `NothingLost`, `PausedStaysPaused`, `DueFires` | 1.0 M |
| `job_reconciler` | 2 processes, 1 routine, 2 controlled computers, page of one, 1 move, 1 fault, fairness | `ScanCovers`, `NeedyIsServed` | 0.22 M |
| `send_once` | 2 bots and their group, 6 keys of 4 kinds, 2 overlapping calls, 3 calls in all, 1 upset | `SendInv`, `EveryMessageIsHeard`, `ClearedStaysClear` | 2.1 M |
| `teaching` | 2 recordings, 2 processes, 3 requests, 2 upsets, windows of 2, fairness | `TeachInv`, `ShownOnce`, `DraftIsShown` | 0.63 M |
| `thread_history` | 2 runs, 2 jobs, 5 messages, 2 clears, 1 fault; batch 2, window 0 | `SummaryIsWhole`, `OneConversation`, `ContextIsWhole`, `ClearedIsNotRecalled`, `ClearedIsPurged` | 1.35 M |
| `thread_log` | 2 writers, 1 request, 3 events, batch 2, page 1, 1 fault, fairness | `LogInv`, `InOrder`, `NoLostWakeUp`, `ClearedStaysCleared`, `EventReaches` | 0.5 M |

With two workers the longest takes two to four minutes, as the machine allows. `run_stops_finished` states what
a test of the repository says and finds it violated; see section 6. Every property of a passing run
has a mutant in `PROJECT.json`: one mapped definition is replaced by a slip of the code it models
(`LeasableById`, `BehindByTime`, `NoNonce`, `ClaimableById`, ...), and TLC finds the property violated.
The slips stand next to the definitions they replace.

### Bounds, and why they are enough

All bounds are constants named `Max...` or `Horizon`, and the guards that use them say so.

- *Two of everything that races.* The hazards are races of two processes for one row: two
  handlers, two compactions, two writers, two bots, two calls under one key. A third adds a competitor for a row that
  already has a winner and a loser. Where a third party decides (the sleep job, a stop, the reconciler), it has a process of its own.
- *Leases.* `MaxFence = 1` in RunLifecycle bounds user actions only, not steals: a run can be
  leased, lose its lease, be leased again, be resumed by the user and go through that once more. Three
  leases in EffectGate are: the handler that asks, the one that replays, and one that
  overtakes either. Two leases of the screen are the one a late call was meant for and the later one it must spare.
- *Faults.* One fault at any point, together with a lapse where a lease can lapse: each error
  path of the code handles one failure and returns to a state from which the next is handled
  alike. `computer` lets any two of the user's boots and stops, takeovers, lapses and crashes happen in one behaviour, at any
  points (`Bounded`, `MaxTogether`): a hazard of this module is one of them beside a run, or two that race; three together take
  longer than they tell, and the proofs bound none.
- *Time.* With periods of 2 and 3, a slack of 1 and a clock that ends at 3, a wakeup can be a tick early and fire (at 1 for
  the occurrence 2), be two ticks early and be put off, be due, and be late. An early one that computed its
  successor from the clock alone would find its own occurrence again: that is the mutant `ClockAlone`. No
  occurrence is passed over whole in this instance. With periods of 1 and 2 and a clock up to 2 one is, and TLC finds the safety and
  liveness properties to hold there as well (2.6 M states; explored once, since it takes twice as long). One
  tick separates the recent from the stale in the reconciler.
- *Pages, batches, windows.* Five messages with a batch of two give two full compactions and a rest, and a clear between any two steps;
  three events with a batch of two fill a batch and leave one for the next read; a page of one overflows with the second message, and a page of
  one row in the reconciler makes every scan of two rows resume from a cursor, with ties. The
  three tables of the reconciler share one scan, which is why the instance leaves the runs out: a table with a null time and one without
  are what differ. Windows of two in Teaching stand for the 100 messages and 50 events the lookups see.
- *Once more with proofs.* What is proved (section 4) holds for every value of these constants.

`CHECK_DEADLOCK FALSE` stands in every configuration: when the users have asked for all they may
ask within the bounds and every run is over, the instance rests. That it does not rest too early is what
the liveness properties say; and `TransientHasOwner` says that no state of a computer is left without
the process that ends it. `TransientHasOwner` is claimed for behaviours
without crashes: a process that dies in the middle of a boot does leave `booting` behind, which
the code heals only through the timeout of the next boot and a user's recovery.

### Fairness

RunLifecycle: the scheduler runs every slot (WF of `HandlerStep`); the queue hands out every job in
the end although other jobs and busy slots get in its way (SF of `EnterRun`); an enqueue that was not lost
lands; the clock passes `leaseExpiresAt`; the timer of the reconciler fires; a transaction ends.
Requests of users and faults are never fair. `RunSettles` then rests on the code's own means: the
lapsed lease and the scan that finds it. Its mutant `DueWhenQueued` (a scan that
forgets claimed runs) breaks it.

ThreadLog: a transaction that has begun commits, requests are served, the generator of
`followThreadEvents` is resumed and its timer fires, and a client whose stream broke subscribes
again. Announcements and the listener are not fair: `EventReaches` holds because of the timer.

RoutineWakeup: the clock runs, the interval of the reconciler fires (WF of `SweepReads`,
`SweepEnqueues`), and a slot that can go on does (WF of `WakeRoutine`). Requests and faults are not fair. `DueFires` needs the
scan: its mutant `SweepReadsComing`, a scan that looks only for occurrences to come, breaks it.

JobReconciler: `setInterval` starts passes and passes end (WF of `PassReads`, `PassEnds`), the
pool reports a broken connection (WF of `LeaderNotices`). `NeedyIsServed` holds although leadership
may move and rows tie at a page's end.

Teaching: a process that does not die goes on, time passes `expiresAt`, and the queue hands out a
due job (WF of `JobFires`: graphile-worker repeats a job whose worker died). `DraftIsShown` is about drafts
whose job is still in the table; section 6 says when there is none.

ComputerControl and SendOnce state safety only.

## 4. What is proved

Each `<Module>Proofs` extends its module; `RunLifecycleProofs` also has the refinement of RunPromise and
`EffectGateProofs` that of EffectPromise, `ThreadProofs` is about
SendOnce and ThreadLog, whose specification is therefore called `LogSpec`, and `ComputerProofs` about ComputerLease and
ComputerControl, whose specification is called `ControlSpec`.
tlapm checks the eight proof modules to the last leaf, for every value of the constants that
satisfies the named assumption of each module (distinct null values, natural bounds, finite sets, functions
with the right domains).

| theorem | says | argument |
|---|---|---|
| `TypeCorrect` | RunLifecycle's `TypeOK` | inductive by itself |
| `RunInvariant` | `RunInv` | see below |
| `FinalMessageOnce`, `CommitsFindAttempt` | `OneFinalMessage`, `HolderCanCommit` | from `RunInv` |
| `OneHolderAtATime` | `OneHolder`, for any sharing of `workerId`s | a part of `RunInv` |
| `CancelIsForGood` | `CancelledIsSilent` | every write of a handler has `status = running` in its where clause |
| `ImplementsPromise` | `KeepsPromise`: RunLifecycle implements RunPromise, if slots have distinct `workerId`s or no lease lapses under a living handler | `AlwaysAlone`; see below |
| `GateTypeCorrect`, `GateInvariant` | EffectGate's `GateTypeOK`; `Formed` and `Counts` | see below |
| `HappensAtMostOnce` | `AtMostOnce` | from `Counts` |
| `OutcomesAreFinal`, `DeniedStaysUndone` | `OutcomeIsFinal`, `DeniedNeverRuns` | the moves of a status (`StatusMove`); who performs or records has claimed |
| `CompletedHappened` | `Told`: a row that says completed, and a handler about to say so, tell the truth | see below |
| `GateKeepsPromise` | `KeepsEffectPromise`: EffectGate implements EffectPromise | see below |
| `CardsComeFirst` | `CardsHold` | see below |
| `ComputerInvariant` | ComputerLease's `ComputerIInv` | see below |
| `TransientIsEnded`, `SandboxIsNotTaken`, `StopsSpareOthers` | `ComputerInv`, `UpBesideReplace`, `StopSparesOthers` | from `ComputerIInv` |
| `ControlInvariant` | ComputerControl's `ControlIInv` | see below |
| `StreamsAreRevocable` | `ControlInv` | a part of `ControlIInv` |
| `LateCallsEndNoControl`, `LateCallsCloseNoStream` | `LateCallsSpareControl`, `LateCallsSpareStream` | from `ControlIInv`: who writes the row (`RowWriters`), and that nobody else moves then (`WriterMoves`) |
| `ControlIsHandedBack` | `HandedBack` | from `ControlIInv` and `RowWriters` |
| `FiredIsPassed`, `OneRunForEach`, `ClaimsAreNotLost` | `RoutineInv`, `OneRunPerOccurrence`, `NothingLost` | see below |
| `OnlyUpdatesStart` | `PausedStaysPaused` | see below |
| `ScanIsSound`, `ScanIsComplete` | JobReconciler's `ScanInv`; `ScanCovers` | see below |
| `SendInvariant` | SendOnce's `SendIInv` | see below |
| `DeliversOnce`, `NoMessageUnheard`, `ClearIsFinal` | `SendInv`, `EveryMessageIsHeard`, `ClearedStaysClear` | from `SendIInv` |
| `TeachInvariant`, `RecordingIsWhole` | Teaching's `TeachIInv`; `TeachInv` | see below |
| `DraftsAreShownOnce` | `ShownOnce` | see below |
| `HistoryTypeCorrect`, `HistoryInvariant` | ThreadHistory's `HistoryTypeOK`; `Sound`, `Conversing`, `Truthful`, `Whole` | see below |
| `ConversationIsOne`, `SummaryMissesNothing`, `RecallForgets` | `OneConversation`, `SummaryIsWhole`, `ClearedIsNotRecalled` | from the four parts |
| `ContextMissesNothing`, `NothingClearedIsKept` | `ContextIsWhole`, `ClearedIsPurged` | see below |
| `LogInvariant` | ThreadLog's `LogIInv` | see below |
| `NothingBehind`, `SleepsOnNothing`, `ClientShowsTruth`, `ClearedIsGone` | `InOrder`, `NoLostWakeUp`, `LogInv`, `ClearedStaysCleared` | from `LogIInv` |

*RunInv.* That a final message is written once is not inductive: one has to know that the handler
that may commit holds an open attempt, that a row nobody claims has no owner (so that no token
fits it), and, until a handler has stalled, that a handler keeps its row from the lease until it leaves it. These are
`FreeRowsHaveNoOwner`, `AttemptsFollowHandlers` and `stalls = 0 => HandlersKeepRows /\ HoldsAlone`: a lease is taken only
of a row that nobody holds, since a row whose lease has not lapsed is refused, and a lapse under a living handler is a stall.
The `workerId`s play no part in this. With a shared `workerId` *and* a stall, the fence alone does not tell two
handlers apart whose reads preceded both leases (section 6), which is why `OneHolder` says `stalls = 0`. With distinct
`workerId`s `HoldsAlone` holds in any case, the token names the slot; `AlwaysAlone` joins the two.

*The promise.* A step simulation: `Seen` says that a step is one of RunPromise or changes nothing a user can
tell. The holder of the refinement mapping is the slot whose token fits the row, and `HoldsAlone`, before
and after the step, makes it unique: a lease is a `Claim`, a slot that leaves while its token fits a `Lose`, a
requeue a `HandBack`, a commit a `Park` or a `Deliver`, and a cancellation by id an `End` of runs
that exist (`StopsExist`, the one invariant it adds to `RunInv`). All other steps stutter.

*Formed and Counts.* A side effect happens once because the update that claims a row goes from
intended or approved to executing, and no update leads back. `PerformersClaimed` and `OnePerformer` say
that whoever is about to perform has made that transition and is alone; `RanOnce` that the
row stays claimed afterwards.

*Cards.* `Grants`, which holds always: an approved row, a call in a replay queue and one handed out of it all stand for an
answer of the user. The rest needs that no handler goes on with a lapsed lease. Then there is one handler
(`Alone`), the row still says what it read of it (`Current`), and a request that was asked about and
not answered is the one on the card, or was stopped there (`Unanswered`). So a claim of an intended row is no
claim of what a card asks about. The invariant is conditional and its hypothesis only ever becomes false,
which is why it is inductive beside `Formed`, `Counts` and `Grants`.

*The promise of the gate.* `Told` is inductive beside `Formed` and `Counts`: a handler comes to record from
performing by the side effect alone (`RecordsAfterPerform`), and only a handler that records completes a row
(`CompletedByRecorder`). The step simulation then needs that a step moves the status of at most one row, and
none when a side effect happens (`OneRowMoves`): a claim is a `Begin`, an answer no a `Deny`, `settleUncertainEffect` a
`GiveUp`, `completeExternalEffect` a `Confirm`, and the side effect a `Happen`, which finds the row executing or
uncertain and never completed, because of `Told`. `OutcomeIsFinal`, which a reader may prefer to the abstract
module, follows from the moves alone and is a theorem of its own.

*ComputerIInv.* `suspending` is written by the sleep job, by a replacement and by a stop, and each looks for active
runs once more after it. `OneClaim`: one of the three claims the state at a time, because each claims only
what is not claimed, and nothing else leaves `suspending`, unless a takeover request does
(`NothingOverwritten`). `LateIsAlone` and `LateStopIsAlone`: once the second look has found nobody, a run
that starts gets no further than the read of the state, which is `suspending`; this is where the read
in `acquireComputerExecutionLease` and the second one in `Validate` are needed. `SleepClaimStands` is why the
premise of `UpBesideReplace` is weaker without boots: a takeover that the handler of a run asks for cannot meet a sleep job that will not look
again. Without stops, `BootIsAlone` (one boot owns `booting`, so that no boot is rolled back and its sandbox
is up when it is activated), `UsedIsRunning` (what a run uses is `running`, or claimed from `running`, so
that a refused claim puts back `running`) and `UpUnderRun` carry each other. `TransientHasOwner` is inductive beside the
types. Steps that are `Harmless`, which claim nothing, end no claim and take the sandbox from nobody who works, are handled
once (`HarmlessKeeps`); those that boot, claim, or end a claim have a lemma each.

*ControlIInv.* A lease in hand of a stream, a viewer, a timer or a process has been granted (`Issued`), so that it is not the
next one: a grant makes a late process powerless and cannot meet it. `RowOK`: the lease of the row is the
last one granted. `LeasesOK`: the stream that has the lease of the row is on the screen of the row's bot. `ProcOK`:
a process that is about to close looks at that screen, and one that has closed has left no stream of its lease but in
`loose`; hence it may forget the lease. The last part is why a viewer that opens after the close loosens its lease, and
the reason for the code's order: close, then empty the columns. Most steps are `Mild`: the row keeps its lease, drops it or gets a new
one, streams only close, and no lease leaves the row with a stream (`MildKeeps`). `ViewOpens`, which opens one, has a lemma of its own. A
run that waits keeps its control until `Finalizes` because this compares the bot and the run it read with
the row in the transaction that queues the run.

*Routines.* `HandlersHold`: a handler works on an occurrence that is due, and on the one that follows it; `RunsHold`: a run
has an occurrence that comes within the slack, which is `EarlyBySlackAtMost`. `FiresForward`, a part of `RoutineInv`: the row is due for nothing that a run
which stands was made for, or for what came before it, unless something was put back to there; then a claim, which
takes what the row is due for, makes a second run only for what `again` covers. For `NothingLost`,
`Restores`: while nothing but handlers moves the row, it is active exactly when due, the claims that may still be
taken back do not overlap and lie before it (`Apart`, `Behind`), and what the last run was made for is claimed
by a handler or due (`LastIsHeld`, `LastIsDue`). That the successor of an occurrence lies after it is the lemma
`Multiple`. `PausedStaysPaused` follows from the types, step by step.

*ScanInv.* A row that a scan owes a page has not moved, lies behind the cursor the next page starts
from, and is on the page in hand or behind it. The cursor is a pair of a time and an id, and a full
page ends with its greatest pair: a tie on the time alone would not give the induction step, which is the
mutant `BehindByTime`.

*SendIInv.* A lock is held by exactly the transaction that took it; a message carries the key of the
call that wrote it; a call that holds the lock and has found no receipt of its key is the first
(`CallIsFirst`), because a second needs the lock; and a bot's message that has reached its echo comes from a run
nobody has cleared (`CallMayEcho`), because a clear needs the thread the echo has locked. For
`NoMessageUnheard` the invariant carries that a superseded run was superseded by a later message to the same bot.

*TeachIInv.* What each stage of a process implies for the row it works on: a process that does not
create its row has found one (`ProcOK`), a new id is known to its creator alone (`StartsAlone`), and
`SkillOK` ties the status of a row to the history of its recording. `StatusMove` has the moves of a status, each
made by an update that names the status before. `ShownOnce` is inductive beside the numbers of the draft events of a skill
(`Numbered`): a card or event is added by the statement that looked, in a transaction that holds the thread's row, and what the
window does not hide it would have found.

*The parts of ThreadHistory.* `Conversing`: a run that may still write was born in the thread's
generation. `Truthful`: a job of the current generation knows only of current messages, and nothing is filed under
a later generation, so that a late save lands under an old one. `Whole`: the summary is
everything up to the cursor, or the thread is one compacted before summaries were kept; and
a job that read such a row, with the batch it read after it, tells of everything up to the last message of the
batch. New messages get greater numbers, so this stays true however long the summarizer takes,
and the compare-and-set makes it the thread's. `LeastSeq`, `MaxIsSeq`, `FirstComeFirst` and
`BatchesAreMessages` are the lemmas about sets of sequence numbers below it. For `ContextIsWhole`, `ViewsAreTold`
says the same of what a handler has read: its summary is everything up to the cursor it read with
it, and messages written since come after both. For `ClearedIsPurged`, `PurgesAhead`: while nothing has
failed, what the memory keeps of an earlier generation has a purge before it, that of the clear's request or that
of the job that saved it and has not looked at the generation again.

*LogIInv.* `Numbered` and `RowHeld`: whoever holds the thread's row has the next number, and every reader is
below it. `Streamed`: a batch is all there is between the stream's cursor and its last event, or what is missing was progress,
or was cleared. `Honest`: what the client shows, and what a request brings, is what there is
to show up to its cursor, unless a clear is still to come. `Awake`: a stream that is about to
sleep without a signal has everything in hand. The difficult step is an answer that arrives late: it is
dropped unless its cursor is at least the one shown, and then `Honest` of the request becomes `Honest` of the client.

Only model-checked: the liveness properties (`RunSettles`, `EventReaches`, `DueFires`, `NeedyIsServed`,
`DraftIsShown`), which are beyond this prover. Every invariant and every action property of the
passing runs, and both refinements, are theorems, `KeepsPromise` under the hypothesis in the table.

## 5. Conditions under which the properties hold

Some properties name what they are conditional on, because the code does not promise more.

- `OneHolder` holds until a lease lapses under a living handler (`stalls = 0`): after that, two slots of one `workerId` can
  both fit the row (section 6). `KeepsPromise` is run without stalls for the same reason. `HolderCanCommit`, `OneFinalMessage`
  and `CancelledIsSilent` hold even then, and `run_safety` checks them so.
- `CardComesFirst` and `CardIsAnswerable` hold while no lease lapses under a living handler
  (`NoHandlerStalled`): the claim of an effect does not look at the run's fence, so a stalled handler can claim,
  on the verdict of its judge, what its successor has put on a card. `AtMostOnce`
  and `DeniedNeverRuns` hold even then.
- `UpBesideReplace` and `TransientHasOwner` hold while the user asks for no
  stop (`NoStopAsked`): a refused stop writes back a state it read earlier (section 6). What a stop that was not refused
  promises is `StopSparesOthers`.
- `StopSparesOthers`, and `UpBesideReplace` where the user boots or replaces, hold while no takeover request has written
  `running` over another state (`NothingOverwritten`; section 6). Where there is neither boot nor replacement, `UpBesideReplace`
  also allows the write of a handler that still had its run (`overwrites`), but not of one that had lost it (`strays`).
- `ClearedIsPurged` holds when the external memory answered every call: the purge is best effort,
  as a comment in `threads.clear` says.
- `OneRunPerOccurrence` lets an occurrence run again where `nextRunAt` was put back, to it or to one before it, over a run
  that stands (`again`): by an update computed from an older row (section 6), or from the clock while the
  occurrence had been fired early; or by a restore after the
  scan had found the run that the handler could not enqueue. Duplicate, early, stale and
  retried jobs never do it.
- `EarlyBySlackAtMost` says no more than the code promises: a run may exist a second before its occurrence.
- `NothingLost` is about behaviours in which no user edits the routine and no tool takes it back (`undone`): an edit decides itself when
  the routine runs next.
- `PausedStaysPaused` lets `routines.update` make a paused row due, and a handler that takes its claim back start the row that
  its own claim had ended, or one that an update left paused and due (section 6).
- `StreamIsRevocable` leaves out the streams in `loose`: of a lease that a session, a run's request or an unarmed
  takeover dropped without closing, and of a viewer that opened its stream after the lease was dropped, or
  after the process that drops it had closed the stream.
- `HandedBack` names the four ways in which a waiting run does lose its control without being resumed; in each, the
  user has taken another screen or another request has taken over. A `computer.stop` is a fifth (`router.ts:1243-1252`), which
  the abstraction that the computer stays up leaves out.
- `OneDelivery` leaves out follow-ups, which carry no key into the database. `EveryMessageIsHeard` speaks of
  the runs a message started (section 6 about follow-ups).
- `ShownOnce` holds while cards and events fit the windows of the lookups; `DraftIsShown` while the expiry job
  is in the table.

## 6. Where the code and what is said of it differ

| run | said | done |
|---|---|---|
| `run_stops_finished` | `run-state.test.ts:15`: a run "never leaves a terminal state except failed retry" | `stopThreadRuns` reads active runs and cancels them by id (`thread-target.ts:662`): a run that completes in between, its message delivered, ends as cancelled |
| `run_safety` | `executor-lifecycle.test.ts:55`: a handler "reclaims an expired running lease with a higher fence" | the fence is that of the row as it was *read*, plus one, and the lease does not compare it (`executor.ts:604-626`): two handlers that read the row before either leased it get the same fence |

The second needs a stall and a shared `workerId`: the first handler leases the row and is frozen until its lease has lapsed;
the second leases it with the same fence, and where both pass the same `workerId` (slots of one process,
`apps/worker/src/index.ts:132`, or processes of the same pid in two containers) the first one, awake again, passes every `where` clause
of the second's run. `run_safety` has this behaviour in its instance, and `OneHolder` stops at its condition. With `HoldsAlone`
in its place as the invariant of `RunSafety.cfg`, TLC shows the trace: `EnterRun`, `Reconcile`, `EnterRun`, `LeaseRun`,
`LapseStalled`, `LeaseRun`.

*Seen on the way*, and modelled as the code has it, without a run of their own:

- *Runs.* A `run.continue` job left over from before the pause leases a `waiting_takeover` row
  (`executor.ts:610`) and goes on without a release, although `docs/computer-runtime.md:30` says
  "after release, the agent may continue". A requeue writes `queued` over `running`, which
  `canTransition` does not allow (`executor.ts:2887`, `run-state.ts:15`).
- *Effects.* If the rule that asked no longer applies at the replay and the tool is not consequential, the call is
  keyed by its execution id (`executor.ts:1109`) and misses the approved row, which stays approved; the
  comment at `executor.ts:1063-1065` says that a changed reconstruction hits the already-approved effect.
- *Computers.* A refused `computer.stop` has already written `suspending` over `booting` and restores an older state
  (`router.ts:1201-1227`): a second run boots the same sandbox and the first boot's rollback
  stops it, though "two Team bots can work at the same time" (`docs/computer-runtime.md:17`). A
  lease held for a takeover keeps its computer awake for a day even if nobody takes over (`computer-idle.ts:84`). A
  takeover request writes `running` over whatever the row says (`executor.ts:2468`): over the `suspending` of a replacement or a stop that
  has looked for runs for the last time, the next run reconnects, and its sandbox is taken away. The write does not look
  at the run either: a handler that has lost it between the renewal and the write still makes it, and can undo a
  boot or a late claim of the sleep job.
- *Control.* A takeover is refused beside an active run only if the run of the lease is one
  (`executionBlocksUserTakeover`). A teaching takeover of another bot's screen inherits `controlRunId`, and
  its release queues the run without enqueuing its job, which then waits for the
  reconciler. On an extra display, a stream left behind by a session (`taught-skills.ts:185`) or by a run's
  request (`executor.ts:2468`) keeps the port busy: the next viewer gets no stream until it is
  closed (`extra-displays.ts:187-222`; `docs/computer-runtime.md:30`). The
  claim of an expiry names the lease and does not look at its end again (`computer-control.ts:127`): a session that extends
  the lease between the read and the claim is revoked; `LateCallsSpareControl` promises no more than that the
  expiry has read that it was over.
- *Routines.* `routines.update` (`router.ts:1848`) writes the `nextRunAt` it computed from the row it
  read: an occurrence that was claimed in between is put back and makes a second run. The same write may leave a row paused
  and due, when an archive or another update paused it after the read; a handler that then takes its claim back
  (`executor.ts:553-565`) finds the `nextRunAt` it left and starts the routine again. `archiveBot`
  reads the active runs before its transaction (`child-bots.ts:260`): a run claimed in between stays
  active in an archived bot, although the tool says that archiving stops its work (`builtin-tools.ts:509`).
- *Messages.* A follow-up to a bot that is busy, in any thread, starts no run (`events.ts:316`) and may
  be read by none. A group handoff has no delivery key (`group-handoff.ts:14`): repeated, it is
  two.
- *Teaching.* `emitSkillDraftMessages` looks for an earlier card among the newest 100 bot messages and
  for an earlier event among 50: beyond them it shows a draft twice. `updateDraft`
  writes back the status it read (`taught-skills.ts:429`): a skill saved in between is a draft again. A card may
  be shown of a skill that was deleted or saved after it was read. A `start` that dies before it schedules the job, or
  a `remove` that dies after it cancelled it (`taught-skills.ts:379`, `528`), leaves a recording without a timer; the reconciler does
  not look for it, and `assertTeachingSendAllowed` refuses the bot's messages until a request ends it.
- *Clients.* The comment at `router.ts:1011-1019` takes the generation `clearThread` returns for the new one, and it is the
  one before (`events.ts:264`), which is why the purge names that one and its predecessor. The
  mobile client replaces its snapshot without comparing cursors (`apps/mobile/lib/api.ts`).

## 7. Plan

Done: every module of section 2, and the proofs of section 4.

To come, in this order:

1. `RunSecret`: a code offered to a run, consumed once, destroyed with it; its effect stays in EffectGate.
2. ThreadLog: `message.updated`, older pages, a client that fails its first request, the live bubble; the
   mobile client beside the web one.
3. Group handoffs and child bots in SendOnce; workspace checkpoints and archived bots in ComputerLease.
4. An abstract specification of ComputerLease, and its refinement.

## 8. Not modelled

The model runtime, connectors, sandbox and voice providers and the memory store are clients of
services outside the repository: where they matter to the state above they are nondeterministic
outcomes (a tool is called, a boot fails, a save arrives late). Reads that write nothing back
(search, history pages), accounts and settings behind single-row writes, user interfaces apart from the merge of
events, deployment and test kits have no interleaving worth a model. That is most of the
repository by lines: the pages of the web, mobile and desktop applications and the clients of services are longer than everything
that decides the state of a run, a thread or a computer. The list, part by part, with its
reasons, is `components` in `PROJECT.json`; a part is "partly" modelled there when an operation of it is left out,
and says which.

## 9. Running it

    tlc -workers 4 -config RunSafety.cfg MCRunLifecycle      # each run: module and cfg in PROJECT.json
    tlapm RunLifecycleProofs.tla                             # and the other seven *Proofs modules
