---------------------------- MODULE ThreadHistory ----------------------------
(***************************************************************************)
(* The conversation of a bot's thread: its messages, the summary that      *)
(* history.compact jobs fold the older ones into, the summaries saved in   *)
(* an external memory, and threads.clear, which must make all of it        *)
(* forgotten while jobs and runs that read it are under way.               *)
(*                                                                         *)
(* A transaction that writes to the thread increments a counter of the     *)
(* thread's row first and so holds it until it commits: each is one step.  *)
(* Compaction and a run's reads are separate statements.  A text is the    *)
(* set of the messages it tells of.                                        *)
(***************************************************************************)
EXTENDS Integers, FiniteSets, FiniteSetsExt

CONSTANTS
    Run,            \* runs of the thread
    Job,            \* slots that execute history.compact jobs
    BatchSize,      \* COMPACTION_BATCH_SIZE
    WindowSize,     \* HISTORY_WINDOW_SIZE
    LegacySize,     \* LEGACY_HISTORY_WINDOW_SIZE
    MaxMessages,    \* bound: messages ever written
    MaxClears,      \* bound: clears
    MaxFaults       \* bound: jobs that throw or die, failures of the external memory

ASSUME HistoryAssumption ==
    /\ BatchSize \in Nat \ {0} /\ WindowSize \in Nat /\ LegacySize \in Nat \ {0}
    /\ MaxMessages \in Nat \ {0, 1}     \* an earlier version may have left two
    /\ MaxClears \in Nat /\ MaxFaults \in Nat

VARIABLES
    thread,     \* the row: nextMessageSeq, historyCompactedUpToSeq, generation, summary
    messages,   \* the rows of messages, with the generation their author was born in
    legacy,     \* the thread was compacted by a version that kept no generations
    memory,     \* what the external memory keeps under each generation
    run,        \* the runs and what their handlers have read
    job,        \* the locals of compactHistory
    pending,    \* a history.compact job waits
    purges,     \* the generations that clear requests have yet to purge
    faults

vars == <<thread, messages, legacy, memory, run, job, pending, purges, faults>>

Seqs        == 0 .. MaxMessages - 1
Text        == SUBSET Seqs
Generation  == 0 .. MaxClears
NotCompacted == -1

\* The locals of a job that is not under way, and the view of a handler that read nothing.
NoJob  == [at |-> "out", cursor |-> NotCompacted, gen |-> 0, summary |-> {}, boot |-> FALSE,
           batch |-> {}, saved |-> FALSE, due |-> FALSE]
NoView == [cursor |-> NotCompacted, summary |-> {}, recent |-> {},
           hasThread |-> FALSE, hasRecent |-> FALSE]

ThreadRow  == [next : 0 .. MaxMessages, cursor : Seqs \cup {NotCompacted}, gen : Generation,
               summary : Text]
MessageRow == [seq : Seqs, born : Generation]
View       == [cursor : Seqs \cup {NotCompacted}, summary : Text, recent : Text,
               hasThread : BOOLEAN, hasRecent : BOOLEAN]
RunLocals  == [status : {"none", "active", "cancelled", "done"}, born : Generation, view : View]
JobLocals  == [at : {"out", "reading", "summarizing", "saving", "checking", "purging"},
               cursor : Seqs \cup {NotCompacted}, gen : Generation, summary : Text,
               boot : BOOLEAN, batch : Text, saved : BOOLEAN, due : BOOLEAN]

HistoryTypeOK ==
    /\ thread \in ThreadRow
    /\ messages \subseteq MessageRow
    /\ legacy \in {"no", "kept", "cleared"}
    /\ memory \in [Generation -> SUBSET Text]
    /\ run \in [Run -> RunLocals]
    /\ job \in [Job -> JobLocals]
    /\ pending \in BOOLEAN
    /\ purges \subseteq SUBSET Generation
    /\ faults \in 0 .. MaxFaults

SeqOf(S) == {m.seq : m \in S}

Upto(n) == [seq : 0 .. n, born : {0}]

\* A new thread; or one that an earlier version compacted into the external memory alone,
\* and, if it was cleared before that, one whose first messages are gone.
Init ==
    /\ \/ /\ legacy = "no" /\ messages = {}
          /\ thread = [next |-> 0, cursor |-> NotCompacted, gen |-> 0, summary |-> {}]
       \/ /\ legacy = "kept" /\ messages = Upto(1)
          /\ thread = [next |-> 2, cursor |-> 0, gen |-> 0, summary |-> {}]
       \/ /\ legacy = "cleared" /\ messages = Upto(1) \ Upto(0)
          /\ \E c \in {0, 1} : thread = [next |-> 2, cursor |-> c, gen |-> 0, summary |-> {}]
    /\ memory = [g \in Generation |-> {}]
    /\ run = [r \in Run |-> [status |-> "none", born |-> 0, view |-> NoView]]
    /\ job = [j \in Job |-> NoJob]
    /\ pending = FALSE
    /\ purges = {}
    /\ faults = 0

Fault == faults < MaxFaults /\ faults' = faults + 1

-----------------------------------------------------------------------------
(* Messages and runs.                                                       *)

\* createThreadMessageInTransaction.
Writes(born) ==
    /\ thread.next < MaxMessages
    /\ thread' = [thread EXCEPT !.next = @ + 1]
    /\ messages' = messages \cup {[seq |-> thread.next, born |-> born]}

\* shouldEnqueueCompaction.
Due(row) == row.next - row.cursor - 1 >= WindowSize + BatchSize

\* A user's message and its run are one transaction; a busy bot gets the message alone.
SendUserMessage(r) ==
    /\ Writes(thread.gen)
    /\ \/ /\ run[r].status = "none"
          /\ run' = [run EXCEPT ![r].status = "active", ![r].born = thread.gen]
       \/ (\E q \in Run : run[q].status = "active") /\ UNCHANGED run
    /\ UNCHANGED <<legacy, memory, job, pending, purges, faults>>

\* continueRun reads the thread's row and the last messages by statements of their own,
\* in either order.
ReadThread(r) ==
    /\ run[r].status \in {"active", "cancelled"} /\ ~run[r].view.hasThread
    /\ run' = [run EXCEPT ![r].view = [@ EXCEPT !.hasThread = TRUE,
                   !.cursor = thread.cursor, !.summary = thread.summary]]
    /\ UNCHANGED <<thread, messages, legacy, memory, job, pending, purges, faults>>

Contiguous(S, first) == S = first .. first + Cardinality(S) - 1

\* The last n of a set of sequence numbers.
Last(n, S) == {s \in S : Cardinality({t \in S : t > s}) < n}

ReadMessages(r) ==
    /\ run[r].status \in {"active", "cancelled"} /\ ~run[r].view.hasRecent
    /\ run' = [run EXCEPT ![r].view = [@ EXCEPT !.hasRecent = TRUE,
                   !.recent = Last(LegacySize, SeqOf(messages))]]
    /\ UNCHANGED <<thread, messages, legacy, memory, job, pending, purges, faults>>

Ready(r) == run[r].view.hasThread /\ run[r].view.hasRecent

\* selectCompactedHistory: the messages after the cursor, when the summary is used.
Uncompacted(v) == {s \in v.recent : s > v.cursor}

\* A slip of the selection: gaps are not looked for.
UsesAnySummary(v) == v.summary # {} /\ v.cursor # NotCompacted

UsesSummary(v) ==
    v.summary # {} /\ v.cursor # NotCompacted /\ Contiguous(Uncompacted(v), v.cursor + 1)

Context(v) == IF UsesSummary(v) THEN v.summary \cup Uncompacted(v) ELSE v.recent

\* A slip of the check: a run that is over may go on writing.
WritesAnyway(r) == TRUE

\* assertRunCanWriteHistory, after the thread's row is locked.
MayWrite(r) == run[r].status # "cancelled"

\* A message in the middle of a run.
Narrate(r) ==
    /\ run[r].status \in {"active", "cancelled"} /\ Ready(r)
    /\ MayWrite(r)
    /\ Writes(run[r].born)
    /\ UNCHANGED <<legacy, memory, run, job, pending, purges, faults>>

\* finalizeRun; a compaction is enqueued when enough messages have piled up.  A run that
\* failed writes no message.
FinalizeRun(r) ==
    /\ run[r].status = "active" /\ Ready(r)
    /\ \/ Writes(run[r].born) /\ pending' = (pending \/ Due(thread'))
       \/ UNCHANGED <<thread, messages, pending>>
    /\ run' = [run EXCEPT ![r].status = "done", ![r].view = NoView]
    /\ UNCHANGED <<legacy, memory, job, purges, faults>>

\* A stop; what it does to a run that ends meanwhile is RunLifecycle's.
StopRun(r) ==
    /\ run[r].status = "active"
    /\ run' = [run EXCEPT ![r].status = "cancelled"]
    /\ UNCHANGED <<thread, messages, legacy, memory, job, pending, purges, faults>>

-----------------------------------------------------------------------------
(* Clearing.                                                                *)

\* nextMessageSeq is not reset: the deleted messages count as compacted.
ClearedUpTo == IF thread.next > 0 THEN thread.next - 1 ELSE thread.cursor

\* The transaction of clearThread; the request purges the external memory afterwards,
\* of the generation the thread had and of the one before.
ClearThread ==
    /\ thread.gen < MaxClears
    /\ messages' = {}
    /\ run' = [r \in Run |-> [run[r] EXCEPT !.status = IF @ = "active" THEN "cancelled" ELSE @]]
    /\ thread' = [thread EXCEPT !.gen = @ + 1, !.summary = {}, !.cursor = ClearedUpTo]
    /\ purges' = purges \cup {{IF thread.gen = 0 THEN 0 ELSE thread.gen - 1, thread.gen}}
    /\ UNCHANGED <<legacy, memory, job, pending, faults>>

Purged(gens) == [g \in Generation |-> IF g \in gens THEN {} ELSE memory[g]]

\* The purge is best effort: a provider that fails, or an API process that dies, ends it.
PurgeCleared(gens) ==
    /\ gens \in purges
    /\ purges' = purges \ {gens}
    /\ \/ memory' = Purged(gens) /\ UNCHANGED faults
       \/ Fault /\ UNCHANGED memory
    /\ UNCHANGED <<thread, messages, legacy, run, job, pending>>

-----------------------------------------------------------------------------
(* compactHistory.                                                          *)

Exit(j) == job' = [job EXCEPT ![j] = NoJob]

\* needsLocalBootstrap: the thread was compacted, but no summary of it was kept.
NeedsBootstrap(row) == row.gen = 0 /\ row.cursor # NotCompacted /\ row.summary = {}

StartCompaction(j) ==
    /\ job[j].at = "out"
    /\ pending
    /\ pending' = FALSE
    /\ job' = [job EXCEPT ![j] = [NoJob EXCEPT !.at = "reading", !.cursor = thread.cursor,
                   !.gen = thread.gen, !.summary = thread.summary,
                   !.boot = NeedsBootstrap(thread)]]
    /\ UNCHANGED <<thread, messages, legacy, memory, run, purges, faults>>

First(n, S) == {s \in S : Cardinality({t \in S : t < s}) < n}

\* The messages an earlier version has compacted, if all of them are there.
Bootstrap(j) ==
    LET S == SeqOf(messages) \cap (0 .. job[j].cursor)
    IN  IF /\ Cardinality(S) <= LegacySize
           /\ Contiguous(S, Min(S)) /\ Max(S) = job[j].cursor
           /\ legacy = "cleared" \/ Min(S) = 0
        THEN {S} ELSE {}

\* The next batch, or the first messages of it that the transcript has room for.
Batches(j) ==
    LET S == First(BatchSize, {s \in SeqOf(messages) : s > job[j].cursor})
    IN  IF Contiguous(S, job[j].cursor + 1) THEN {First(n, S) : n \in 1 .. Cardinality(S)}
                                            ELSE {}

ReadBatch(j) ==
    LET old   == SeqOf(messages) \cap (0 .. job[j].cursor)
        texts == IF job[j].boot /\ old # {} THEN Bootstrap(j) ELSE Batches(j)
    IN  /\ job[j].at = "reading"
        /\ \/ \E S \in texts : job' = [job EXCEPT ![j].at = "summarizing", ![j].batch = S]
           \/ texts = {} /\ Exit(j)
        /\ UNCHANGED <<thread, messages, legacy, memory, run, pending, purges, faults>>

\* The summarizer fails and the job is tried again; or there is no model for it, or the
\* summary is too long, and the job ends.
SummaryFails(j) ==
    /\ job[j].at = "summarizing"
    /\ Exit(j)
    /\ \/ Fault /\ pending' = TRUE
       \/ UNCHANGED <<faults, pending>>
    /\ UNCHANGED <<thread, messages, legacy, memory, run, purges>>

\* A slip of the compare-and-set: only one of the two columns is compared.
CursorOnly(j) == thread.cursor = job[j].cursor

Unmoved(j) == thread.cursor = job[j].cursor /\ thread.gen = job[j].gen

Advance(j) ==
    /\ job[j].at = "summarizing"
    /\ IF Unmoved(j)
         THEN /\ thread' = [thread EXCEPT !.cursor = Max(job[j].batch),
                                          !.summary = job[j].summary \cup job[j].batch]
              /\ job' = [job EXCEPT ![j].at = "saving"]
         ELSE Exit(j) /\ UNCHANGED thread
    /\ UNCHANGED <<messages, legacy, memory, run, pending, purges, faults>>

\* A slip of the save: it is filed under the generation of the moment.
FiledNow(j) == thread.gen

FiledUnder(j) == job[j].gen

\* The external memory is loaded and saved to; neither failure is the job's.
Save(j) ==
    /\ job[j].at = "saving"
    /\ \/ /\ memory' = [memory EXCEPT ![FiledUnder(j)] = @ \cup {job[j].summary \cup job[j].batch}]
          /\ job' = [job EXCEPT ![j].at = "checking", ![j].saved = TRUE]
          /\ UNCHANGED faults
       \/ /\ Fault
          /\ \E tried \in BOOLEAN :
                 job' = [job EXCEPT ![j].at = "checking", ![j].saved = tried]
          /\ UNCHANGED memory
    /\ UNCHANGED <<thread, messages, legacy, run, pending, purges>>

\* A slip of the second look: a clear while the save was in flight goes unseen.
NeverStale(j) == FALSE

Stale(j) == job[j].saved /\ thread.gen # job[j].gen

\* The row is read again: a clear may have purged before the save arrived, and the
\* backlog may call for another batch.
CheckAgain(j) ==
    /\ job[j].at = "checking"
    /\ IF Stale(j)
         THEN /\ job' = [job EXCEPT ![j].at = "purging", ![j].due = Due(thread)]
              /\ UNCHANGED pending
         ELSE Exit(j) /\ pending' = (pending \/ Due(thread))
    /\ UNCHANGED <<thread, messages, legacy, memory, run, purges, faults>>

PurgeStale(j) ==
    /\ job[j].at = "purging"
    /\ \/ memory' = Purged({job[j].gen}) /\ UNCHANGED faults
       \/ Fault /\ UNCHANGED memory
    /\ Exit(j)
    /\ pending' = (pending \/ job[j].due)
    /\ UNCHANGED <<thread, messages, legacy, run, purges>>

\* The worker dies; the queue hands the job out again.
Crash(j) ==
    /\ job[j].at # "out"
    /\ Fault
    /\ Exit(j)
    /\ pending' = TRUE
    /\ UNCHANGED <<thread, messages, legacy, memory, run, purges>>

-----------------------------------------------------------------------------

JobStep(j) ==
    \/ StartCompaction(j) \/ ReadBatch(j) \/ Advance(j) \/ Save(j) \/ CheckAgain(j)
    \/ PurgeStale(j) \/ SummaryFails(j) \/ Crash(j)

RunStep(r) ==
    \/ SendUserMessage(r) \/ ReadThread(r) \/ ReadMessages(r)
    \/ Narrate(r) \/ FinalizeRun(r) \/ StopRun(r)

Next ==
    \/ \E j \in Job : JobStep(j)
    \/ \E r \in Run : RunStep(r)
    \/ ClearThread
    \/ \E gens \in SUBSET Generation : PurgeCleared(gens)

Spec == Init /\ [][Next]_vars

-----------------------------------------------------------------------------
(* Properties.                                                              *)

\* The summary tells of every message up to the cursor and of nothing else, whatever
\* jobs overlap and whenever the thread is cleared: no message is in neither the
\* summary nor the messages that follow it.
SummaryIsWhole ==
    thread.summary # {} => thread.summary = {s \in SeqOf(messages) : s <= thread.cursor}

\* A conversation has only messages of its own generation: no run that a clear cancelled
\* writes into the thread after it.
OneConversation == \A m \in messages : m.born = thread.gen

\* What the model of a run is shown, as long as the run may still answer: nothing that was
\* cleared and, when the summary is used, no gap, although the row and the messages are
\* read separately.
ContextIsWhole ==
    \A r \in Run :
        LET v == run[r].view
        IN  run[r].status = "active" /\ Ready(r) =>
                /\ Context(v) \subseteq SeqOf(messages)
                /\ UsesSummary(v) =>
                       \A s \in SeqOf(messages) :
                           (\E t \in v.recent : s <= t) => s \in Context(v)

\* What recall can find under the thread's generation tells of no cleared message.
ClearedIsNotRecalled ==
    \A text \in memory[thread.gen] : text \subseteq SeqOf(messages)

\* Once the requests and jobs are through and the external memory answered them all, it
\* keeps nothing of an earlier generation, even if a save arrived after the purge.
ClearedIsPurged ==
    /\ faults = 0 /\ purges = {}
    /\ \A j \in Job : job[j].at \notin {"saving", "checking", "purging"}
    => \A g \in Generation : g < thread.gen => memory[g] = {}

=============================================================================
