------------------------ MODULE ThreadHistoryProofs ------------------------
(***************************************************************************)
(* Proofs about ThreadHistory, for every number of runs, jobs, messages,   *)
(* clears and faults and every batch and window: a conversation has no     *)
(* message of a run that was cleared, what recall finds under the          *)
(* generation of the thread tells of no message that was cleared, what was *)
(* saved under an earlier one is purged, and a run is shown no gap.        *)
(***************************************************************************)
EXTENDS ThreadHistory, FiniteSetTheorems, WellFoundedInduction, TLAPS

\* A job that has something to summarise or to save has messages.
Batched == \A j \in Job : job[j].at \in {"summarizing", "saving"} => job[j].batch # {}

\* A run that may write was begun in the conversation of the moment.
ActiveIsCurrent == \A r \in Run : run[r].status = "active" => run[r].born = thread.gen

\* A job belongs to the conversation of the moment, of whose messages alone it tells, or
\* to one before; nothing is filed under a generation to come.
JobsTellTheTruth ==
    \A j \in Job :
        /\ job[j].gen <= thread.gen
        /\ job[j].gen = thread.gen => job[j].summary \cup job[j].batch \subseteq SeqOf(messages)

SummaryTellsTheTruth == thread.summary \subseteq SeqOf(messages)

NothingFiledAhead == \A g \in Generation : g > thread.gen => memory[g] = {}

\* The messages a summary up to c has to tell of.
Told(c) == {s \in SeqOf(messages) : s <= c}

\* Numbers are given in order, so that what a summary tells of stays all there is to tell.
NumberedInOrder ==
    /\ thread.cursor < thread.next
    /\ \A m \in messages : m.seq < thread.next

\* The summary is whole, or that of a thread compacted before summaries were kept.
SummaryIsToldOrLegacy == thread.summary = Told(thread.cursor) \/ NeedsBootstrap(thread)

\* So is the one a job has read, and the one it is about to write.
JobIsTold(b) ==
    /\ b.at = "reading" => /\ b.cursor < thread.next
                           /\ b.summary = Told(b.cursor) \/ (b.boot /\ b.summary = {})
    /\ b.at = "summarizing" => /\ Max(b.batch) < thread.next
                               /\ b.summary \cup b.batch = Told(Max(b.batch))

JobsAreTold == \A j \in Job : job[j].gen = thread.gen => JobIsTold(job[j])

Whole == NumberedInOrder /\ SummaryIsToldOrLegacy /\ JobsAreTold

Sound == HistoryTypeOK /\ Batched
Conversing == OneConversation /\ ActiveIsCurrent
Truthful == /\ JobsTellTheTruth /\ SummaryTellsTheTruth /\ NothingFiledAhead
            /\ ClearedIsNotRecalled

-----------------------------------------------------------------------------
(* Sets of sequence numbers.                                                *)

\* A set of sequence numbers that is not empty has a least member.
LEMMA LeastSeq ==
    ASSUME NEW S \in SUBSET Nat, S # {}
    PROVE  \E x \in S : \A y \in S : x <= y
<1>1. PICK x \in S : \A y \in S : ~ (<<y, x>> \in OpToRel(<, Nat))
  BY NatLessThanWellFounded, WFMin
<1>2. ASSUME NEW y \in S PROVE x <= y
  <2>1. <<y, x>> \notin {ss \in Nat \X Nat : ss[1] < ss[2]}
    BY <1>1 DEF OpToRel
  <2> QED BY <2>1
<1> QED BY <1>2

\* ... and a greatest one, which Max picks.
LEMMA MaxIsSeq ==
    ASSUME NEW S \in SUBSET Seqs, S # {}
    PROVE  Max(S) \in S /\ \A y \in S : y <= Max(S)
<1> USE HistoryAssumption
<1> DEFINE T == {MaxMessages - s : s \in S}
<1>0. \A s \in S : s \in Nat /\ MaxMessages - s \in Nat
  BY DEF Seqs
<1>1. T \in SUBSET Nat /\ T # {}
  BY <1>0
<1>2. PICK t \in T : \A u \in T : t <= u
  BY <1>1, LeastSeq
<1>3. PICK x \in S : t = MaxMessages - x
  OBVIOUS
<1>4. \A y \in S : x >= y
  <2> TAKE y \in S
  <2>1. MaxMessages - x <= MaxMessages - y
    BY <1>2, <1>3
  <2> QED BY <2>1, <1>0
<1>5. Max(S) \in S /\ \A y \in S : Max(S) >= y
  BY <1>4 DEF Max
<1> QED BY <1>0, <1>5

\* Its first members are members, and there are some.
LEMMA FirstOfSome ==
    ASSUME NEW S \in SUBSET Seqs, S # {}, NEW n \in Nat \ {0}
    PROVE  First(n, S) \subseteq S /\ First(n, S) # {}
<1>0. S \in SUBSET Nat
  BY HistoryAssumption DEF Seqs
<1>1. PICK x \in S : \A y \in S : x <= y
  BY <1>0, LeastSeq
<1>2. \A t \in S : ~(t < x)
  <2> TAKE t \in S
  <2>1. x <= t /\ x \in Nat /\ t \in Nat
    BY <1>0, <1>1
  <2> QED BY <2>1
<1>3. Cardinality({t \in S : t < x}) < n
  <2>1. {t \in S : t < x} = {}
    BY <1>2
  <2> QED BY <2>1, FS_EmptySet
<1> QED BY <1>3 DEF First

\* The first members come before the others.
LEMMA FirstComeFirst ==
    ASSUME NEW S \in SUBSET Seqs, NEW n \in Nat, NEW x \in First(n, S), NEW t \in S, t <= x
    PROVE  t \in First(n, S)
<1> DEFINE Before(y) == {u \in S : u < y}
<1>1. S \in SUBSET Nat /\ IsFiniteSet(S)
  <2>1. IsFiniteSet(Seqs)
    BY FS_Interval, HistoryAssumption DEF Seqs
  <2>2. IsFiniteSet(S)
    BY <2>1, FS_Subset
  <2>3. S \in SUBSET Nat
    BY HistoryAssumption DEF Seqs
  <2> QED BY <2>2, <2>3
<1>2. x \in S /\ Cardinality(Before(x)) < n
  BY DEF First
<1>3. \A u \in Before(t) : u < x
  BY <1>1, <1>2
<1>4. IsFiniteSet(Before(x)) /\ Before(t) \subseteq Before(x)
  BY <1>1, <1>3, FS_Subset
<1>5. Cardinality(Before(t)) <= Cardinality(Before(x)) /\ IsFiniteSet(Before(t))
  BY <1>4, FS_Subset
<1>6. Cardinality(Before(t)) \in Nat /\ Cardinality(Before(x)) \in Nat
  BY <1>4, <1>5, FS_CardinalityType
<1>7. Cardinality(Before(t)) < n
  BY <1>2, <1>5, <1>6
<1> QED BY <1>7 DEF First

\* A batch is made of messages that are there, of all of them up to its last.
LEMMA BatchesAreMessages ==
    ASSUME HistoryTypeOK, NEW j \in Job, NEW B \in Batches(j)
    PROVE  /\ B \subseteq SeqOf(messages) /\ B # {}
           /\ \A t \in B : t > job[j].cursor
           /\ \A x \in B, t \in SeqOf(messages) : t > job[j].cursor /\ t <= x => t \in B
<1> DEFINE later == {s \in SeqOf(messages) : s > job[j].cursor}
           S == First(BatchSize, later)
<1>1. later \in SUBSET Seqs
  BY DEF HistoryTypeOK, MessageRow, SeqOf
<1>2. S \subseteq later
  BY DEF First
<1>3. PICK n \in 1 .. Cardinality(S) : B = First(n, S)
  BY DEF Batches
<1>4. IsFiniteSet(S)
  <2>1. IsFiniteSet(Seqs)
    BY FS_Interval, HistoryAssumption DEF Seqs
  <2> QED BY <2>1, <1>1, <1>2, FS_Subset
<1>5. Cardinality(S) \in Nat
  BY <1>4, FS_CardinalityType
<1>6. S # {} /\ n \in Nat \ {0}
  <2>1. n \in Nat \ {0} /\ Cardinality(S) # 0
    <3> HIDE DEF S
    <3> QED BY <1>3, <1>5
  <2> QED BY <2>1, FS_EmptySet
<1>7. First(n, S) \subseteq S /\ First(n, S) # {}
  BY <1>1, <1>2, <1>6, FirstOfSome
<1>8. ASSUME NEW x \in B, NEW t \in later, t <= x
      PROVE  t \in B
  <2>1. x \in S /\ x \in First(n, S)
    BY <1>3, <1>7
  <2>2. t \in S
    BY <1>1, <1>8, <2>1, FirstComeFirst, HistoryAssumption
  <2> QED BY <1>1, <1>2, <1>3, <1>6, <1>8, <2>1, <2>2, FirstComeFirst
<1> QED BY <1>2, <1>3, <1>7, <1>8

-----------------------------------------------------------------------------
(* The state stays well formed.                                             *)

LEMMA SoundInit == Init => Sound
<1> SUFFICES ASSUME Init PROVE Sound
  OBVIOUS
<1> USE HistoryAssumption DEF Generation
<1>1. NoView \in View /\ NoJob \in JobLocals
  BY DEF NoView, NoJob, View, JobLocals, Text
<1>2. run \in [Run -> RunLocals] /\ job \in [Job -> JobLocals]
  BY <1>1 DEF Init, RunLocals
<1>3. /\ thread \in ThreadRow
      /\ messages \subseteq MessageRow
      /\ legacy \in {"no", "kept", "cleared"}
  <2> DEFINE Row(n, c) == [next |-> n, cursor |-> c, gen |-> 0, summary |-> {}]
  <2>1. {0, 1} \subseteq Seqs /\ 0 \in Generation /\ {} \in Text
    BY DEF Seqs, Text
  <2>2. Upto(1) \subseteq MessageRow
    BY <2>1 DEF Upto, MessageRow
  <2>3. {0, 2} \subseteq 0 .. MaxMessages
    OBVIOUS
  <2>4. \A n \in {0, 2}, c \in {NotCompacted, 0, 1} : Row(n, c) \in ThreadRow
    BY <2>1, <2>3 DEF ThreadRow
  <2>5. \E n \in {0, 2}, c \in {NotCompacted, 0, 1} : thread = Row(n, c)
    BY DEF Init
  <2> QED BY <2>2, <2>4, <2>5 DEF Init
<1>4. memory \in [Generation -> SUBSET Text] /\ pending \in BOOLEAN
  BY DEF Init
<1>5. purges \subseteq SUBSET Generation /\ faults \in 0 .. MaxFaults
  BY DEF Init
<1>6. Batched
  BY DEF Init, Batched, NoJob
<1> QED BY <1>2, <1>3, <1>4, <1>5, <1>6 DEF Sound, HistoryTypeOK

\* A message is written after the others, under the generation of its author.
LEMMA WritesEffect ==
    ASSUME HistoryTypeOK, NEW born \in Generation, Writes(born)
    PROVE  /\ thread' \in ThreadRow
           /\ thread'.gen = thread.gen
           /\ thread'.summary = thread.summary
           /\ messages' \subseteq MessageRow
           /\ messages \subseteq messages'
           /\ \A m \in messages' : m \in messages \/ m.born = born
<1>1. thread.next \in Seqs /\ thread.next + 1 \in 0 .. MaxMessages
  BY HistoryAssumption DEF Writes, HistoryTypeOK, ThreadRow, Seqs
<1>2. thread' = [next |-> thread.next + 1, cursor |-> thread.cursor,
                 gen |-> thread.gen, summary |-> thread.summary]
  BY DEF Writes, HistoryTypeOK, ThreadRow
<1>3. thread' \in ThreadRow /\ thread'.gen = thread.gen /\ thread'.summary = thread.summary
  BY <1>1, <1>2 DEF HistoryTypeOK, ThreadRow
<1>4. [seq |-> thread.next, born |-> born] \in MessageRow
  BY <1>1 DEF MessageRow
<1> QED BY <1>3, <1>4 DEF Writes, HistoryTypeOK

\* A fault is counted.
LEMMA FaultEffect == HistoryTypeOK /\ Fault => faults' \in 0 .. MaxFaults
BY HistoryAssumption DEF HistoryTypeOK, Fault

\* A job that is enqueued or waits already, waits.
LEMMA PendingIsBoolean ==
    ASSUME NEW b, pending' = (pending \/ b)
    PROVE  pending' \in BOOLEAN
<1>1. CASE pending \/ b
  BY <1>1
<1>2. CASE ~(pending \/ b)
  BY <1>2
<1> QED BY <1>1, <1>2

\* The sequence numbers of the messages.
LEMMA SeqsOfMessages == HistoryTypeOK => SeqOf(messages) \in Text
BY DEF HistoryTypeOK, SeqOf, MessageRow, Text

LEMMA SoundRun ==
    ASSUME Sound, NEW r \in Run, RunStep(r)
    PROVE  Sound'
<1> USE DEF Sound, HistoryTypeOK, Batched
<1>1. run[r] \in RunLocals /\ run[r].view \in View /\ run[r].born \in Generation
  BY DEF RunLocals
<1>2. thread.gen \in Generation
  BY DEF ThreadRow
<1>3. CASE SendUserMessage(r)
  <2>1. run' \in [Run -> RunLocals]
    BY <1>2, <1>3 DEF SendUserMessage, RunLocals
  <2> QED BY <1>2, <1>3, <2>1, WritesEffect DEF SendUserMessage
<1>4. CASE ReadThread(r)
  <2>1. [run[r].view EXCEPT !.hasThread = TRUE, !.cursor = thread.cursor,
                            !.summary = thread.summary] \in View
    BY <1>1 DEF View, ThreadRow
  <2>2. run' \in [Run -> RunLocals]
    BY <1>4, <2>1 DEF ReadThread, RunLocals
  <2> QED BY <1>4, <2>2 DEF ReadThread
<1>5. CASE ReadMessages(r)
  <2>1. Last(LegacySize, SeqOf(messages)) \in Text
    BY SeqsOfMessages DEF Last, Text
  <2>2. [run[r].view EXCEPT !.hasRecent = TRUE,
                            !.recent = Last(LegacySize, SeqOf(messages))] \in View
    BY <1>1, <2>1 DEF View
  <2>3. run' \in [Run -> RunLocals]
    BY <1>5, <2>2 DEF ReadMessages, RunLocals
  <2> QED BY <1>5, <2>3 DEF ReadMessages
<1>6. CASE Narrate(r)
  BY <1>1, <1>6, WritesEffect DEF Narrate
<1>7. CASE FinalizeRun(r)
  <2>1. run' \in [Run -> RunLocals]
    <3>1. NoView \in View
      BY DEF NoView, View, Text
    <3>2. [run[r] EXCEPT !.status = "done", !.view = NoView] \in RunLocals
      BY <1>1, <3>1 DEF RunLocals
    <3>3. run' = [run EXCEPT ![r] = [run[r] EXCEPT !.status = "done", !.view = NoView]]
      BY <1>7 DEF FinalizeRun
    <3> QED BY <3>2, <3>3
  <2>2. pending' \in BOOLEAN
    <3>1. CASE pending' = (pending \/ Due(thread'))
      BY <3>1, PendingIsBoolean
    <3>2. CASE UNCHANGED pending
      BY <3>2
    <3> QED BY <1>7, <3>1, <3>2 DEF FinalizeRun
  <2>3. thread' \in ThreadRow /\ messages' \subseteq MessageRow
    BY <1>1, <1>7, WritesEffect DEF FinalizeRun
  <2> QED BY <1>7, <2>1, <2>2, <2>3 DEF FinalizeRun
<1>8. CASE StopRun(r)
  <2>1. run' \in [Run -> RunLocals]
    BY <1>8 DEF StopRun, RunLocals
  <2> QED BY <1>8, <2>1 DEF StopRun
<1> QED BY <1>3, <1>4, <1>5, <1>6, <1>7, <1>8 DEF RunStep

\* A clear moves to the next generation.
LEMMA ClearEffect ==
    ASSUME HistoryTypeOK, ClearThread
    PROVE  /\ thread' \in ThreadRow
           /\ thread'.gen = thread.gen + 1
           /\ thread'.summary = {}
           /\ run' \in [Run -> RunLocals]
           /\ \A r \in Run : run'[r].status # "active"
<1>1. thread.gen + 1 \in Generation
  BY HistoryAssumption DEF ClearThread, HistoryTypeOK, ThreadRow, Generation
<1>2. ClearedUpTo \in Seqs \cup {NotCompacted}
  BY HistoryAssumption DEF ClearedUpTo, HistoryTypeOK, ThreadRow, Seqs
<1>3. thread' = [next |-> thread.next, cursor |-> ClearedUpTo,
                 gen |-> thread.gen + 1, summary |-> {}]
  BY DEF ClearThread, HistoryTypeOK, ThreadRow
<1>4. thread' \in ThreadRow /\ thread'.gen = thread.gen + 1 /\ thread'.summary = {}
  BY <1>1, <1>2, <1>3 DEF HistoryTypeOK, ThreadRow, Text
<1>5. /\ run' \in [Run -> RunLocals]
      /\ \A r \in Run : run'[r].status # "active"
  BY DEF ClearThread, HistoryTypeOK, RunLocals
<1> QED BY <1>4, <1>5

LEMMA SoundClear ==
    ASSUME Sound, ClearThread
    PROVE  Sound'
<1> USE DEF Sound, HistoryTypeOK, Batched
<1>1. thread.gen \in Generation
  BY DEF ThreadRow
<1>2. {IF thread.gen = 0 THEN 0 ELSE thread.gen - 1, thread.gen} \subseteq Generation
  BY <1>1, HistoryAssumption DEF Generation
<1>3. purges' \subseteq SUBSET Generation
  BY <1>2 DEF ClearThread
<1> QED BY <1>3, ClearEffect DEF ClearThread

\* A purge takes texts away.
LEMMA PurgedIsMemory ==
    ASSUME HistoryTypeOK, NEW gens
    PROVE  /\ Purged(gens) \in [Generation -> SUBSET Text]
           /\ \A g \in Generation : Purged(gens)[g] \subseteq memory[g]
BY DEF HistoryTypeOK, Purged

LEMMA SoundPurge ==
    ASSUME Sound, NEW gens \in SUBSET Generation, PurgeCleared(gens)
    PROVE  Sound'
<1> USE DEF Sound, HistoryTypeOK, Batched
<1>1. memory' \in [Generation -> SUBSET Text]
  BY PurgedIsMemory DEF PurgeCleared
<1>2. faults' \in 0 .. MaxFaults
  BY FaultEffect DEF PurgeCleared
<1> QED BY <1>1, <1>2 DEF PurgeCleared

\* The locals of a job that are written.
LEMMA JobWith ==
    ASSUME HistoryTypeOK, Batched, NEW j \in Job, NEW x \in JobLocals,
           x.at \in {"summarizing", "saving"} => x.batch # {},
           job' = [job EXCEPT ![j] = x]
    PROVE  job' \in [Job -> JobLocals] /\ Batched'
BY DEF HistoryTypeOK, Batched

LEMMA ExitEffect ==
    ASSUME HistoryTypeOK, Batched, NEW j \in Job, Exit(j)
    PROVE  job' \in [Job -> JobLocals] /\ Batched' /\ job' = [job EXCEPT ![j] = NoJob]
<1>1. NoJob \in JobLocals /\ NoJob.at = "out"
  BY HistoryAssumption DEF NoJob, JobLocals, Text, Generation
<1>2. job' = [job EXCEPT ![j] = NoJob]
  BY DEF Exit
<1> QED BY <1>1, <1>2, JobWith

\* What a job reads when it starts.
LEMMA StartEffect ==
    ASSUME Sound, NEW j \in Job, StartCompaction(j)
    PROVE  /\ job' \in [Job -> JobLocals] /\ Batched'
           /\ job'[j].at = "reading" /\ job'[j].cursor = thread.cursor
           /\ NeedsBootstrap(thread) => job'[j].boot
           /\ job'[j].gen = thread.gen
           /\ job'[j].summary = thread.summary /\ job'[j].batch = {}
           /\ \A i \in Job \ {j} : job'[i] = job[i]
<1> USE DEF Sound
<1> DEFINE x == [NoJob EXCEPT !.at = "reading", !.cursor = thread.cursor, !.gen = thread.gen,
                              !.summary = thread.summary, !.boot = NeedsBootstrap(thread)]
<1>1. NoJob \in JobLocals /\ NoJob.batch = {}
  BY HistoryAssumption DEF NoJob, JobLocals, Text, Generation
<1>2. NeedsBootstrap(thread) \in BOOLEAN
  BY DEF NeedsBootstrap
<1>3. x \in JobLocals
  BY <1>1, <1>2 DEF HistoryTypeOK, ThreadRow, JobLocals, Text
<1>4. /\ x.at = "reading" /\ x.gen = thread.gen /\ x.cursor = thread.cursor
      /\ x.summary = thread.summary /\ x.batch = {}
      /\ NeedsBootstrap(thread) => x.boot
  BY <1>1 DEF JobLocals
<1>5. job' = [job EXCEPT ![j] = x]
  BY DEF StartCompaction
<1> HIDE DEF x
<1>6. job' \in [Job -> JobLocals] /\ Batched'
  BY <1>3, <1>4, <1>5, JobWith
<1>7. job'[j] = x /\ \A i \in Job \ {j} : job'[i] = job[i]
  BY <1>5 DEF HistoryTypeOK
<1> QED BY <1>4, <1>6, <1>7

\* The batch that a job reads is made of messages that are there.
LEMMA ReadEffect ==
    ASSUME Sound, NEW j \in Job, ReadBatch(j)
    PROVE  /\ job' \in [Job -> JobLocals] /\ Batched'
           /\ \/ job' = [job EXCEPT ![j] = NoJob]
              \/ /\ job'[j].gen = job[j].gen
                 /\ job'[j].summary = job[j].summary
                 /\ job'[j].batch \subseteq SeqOf(messages)
                 /\ \A i \in Job \ {j} : job'[i] = job[i]
<1> USE DEF Sound
<1> DEFINE old == SeqOf(messages) \cap (0 .. job[j].cursor)
           texts == IF job[j].boot /\ old # {} THEN Bootstrap(j) ELSE Batches(j)
<1>1. CASE Exit(j)
  BY <1>1, ExitEffect
<1>2. CASE \E S \in texts : job' = [job EXCEPT ![j].at = "summarizing", ![j].batch = S]
  <2>1. PICK S \in texts : job' = [job EXCEPT ![j].at = "summarizing", ![j].batch = S]
    BY <1>2
  <2>2. S \subseteq SeqOf(messages) /\ S # {}
    <3>1. CASE job[j].boot /\ old # {}
      BY <2>1, <3>1 DEF Bootstrap
    <3>2. CASE ~(job[j].boot /\ old # {})
      BY <2>1, <3>2, BatchesAreMessages
    <3> QED BY <3>1, <3>2
  <2> DEFINE x == [job[j] EXCEPT !.at = "summarizing", !.batch = S]
  <2>3. job' = [job EXCEPT ![j] = x]
    BY <2>1 DEF HistoryTypeOK
  <2>4. S \in Text
    BY <2>2, SeqsOfMessages DEF Text
  <2>5. /\ x \in JobLocals /\ x.batch = S
        /\ x.gen = job[j].gen /\ x.summary = job[j].summary
    BY <2>4 DEF HistoryTypeOK, JobLocals
  <2> HIDE DEF x
  <2>6. job' \in [Job -> JobLocals] /\ Batched'
    BY <2>2, <2>3, <2>5, JobWith
  <2> QED BY <2>2, <2>3, <2>5, <2>6 DEF HistoryTypeOK
<1> QED BY <1>1, <1>2 DEF ReadBatch

\* The summary of the thread becomes that of a job of its generation, or stays.
LEMMA AdvanceEffect ==
    ASSUME Sound, NEW j \in Job, Advance(j)
    PROVE  /\ job' \in [Job -> JobLocals] /\ Batched'
           /\ thread' \in ThreadRow /\ thread'.gen = thread.gen
           /\ \/ job' = [job EXCEPT ![j] = NoJob] /\ thread' = thread
              \/ /\ job[j].gen = thread.gen
                 /\ thread'.summary = job[j].summary \cup job[j].batch
                 /\ \A i \in Job : job'[i].gen = job[i].gen /\ job'[i].batch = job[i].batch
                                   /\ job'[i].summary = job[i].summary
<1> USE DEF Sound
<1>1. CASE ~Unmoved(j)
  BY <1>1, ExitEffect DEF Advance, HistoryTypeOK
<1>2. CASE Unmoved(j)
  <2>1. job[j].batch \in SUBSET Seqs /\ job[j].batch # {} /\ job[j].summary \in Text
    BY DEF Advance, HistoryTypeOK, JobLocals, Batched, Text
  <2>2. Max(job[j].batch) \in Seqs
    BY <2>1, MaxIsSeq
  <2>3. thread' = [next |-> thread.next, cursor |-> Max(job[j].batch), gen |-> thread.gen,
                   summary |-> job[j].summary \cup job[j].batch]
    BY <1>2 DEF Advance, HistoryTypeOK, ThreadRow
  <2>4. /\ thread' \in ThreadRow /\ thread'.gen = thread.gen
        /\ thread'.summary = job[j].summary \cup job[j].batch
    BY <2>1, <2>2, <2>3 DEF HistoryTypeOK, ThreadRow, Text
  <2> DEFINE x == [job[j] EXCEPT !.at = "saving"]
  <2>5. job' = [job EXCEPT ![j] = x]
    BY <1>2 DEF Advance, HistoryTypeOK
  <2>6. /\ x \in JobLocals /\ x.batch = job[j].batch /\ x.gen = job[j].gen
        /\ x.summary = job[j].summary
    BY DEF HistoryTypeOK, JobLocals
  <2> HIDE DEF x
  <2>7. job' \in [Job -> JobLocals] /\ Batched'
    BY <2>1, <2>5, <2>6, JobWith
  <2> QED BY <1>2, <2>4, <2>5, <2>6, <2>7 DEF Unmoved, HistoryTypeOK
<1> QED BY <1>1, <1>2

\* A summary is filed under the generation of its job.
LEMMA SaveEffect ==
    ASSUME Sound, NEW j \in Job, Save(j)
    PROVE  /\ job' \in [Job -> JobLocals] /\ Batched'
           /\ memory' \in [Generation -> SUBSET Text]
           /\ \A i \in Job : job'[i].gen = job[i].gen /\ job'[i].batch = job[i].batch
                             /\ job'[i].summary = job[i].summary
           /\ \A g \in Generation : \A t \in memory'[g] :
                  \/ t \in memory[g]
                  \/ g = job[j].gen /\ t = job[j].summary \cup job[j].batch
<1> USE DEF Sound
<1>1. PICK tried \in BOOLEAN :
          job' = [job EXCEPT ![j].at = "checking", ![j].saved = tried]
  BY DEF Save
<1> DEFINE x == [job[j] EXCEPT !.at = "checking", !.saved = tried]
<1>2. job' = [job EXCEPT ![j] = x]
  BY <1>1 DEF HistoryTypeOK
<1>3. /\ x \in JobLocals /\ x.at = "checking" /\ x.batch = job[j].batch
      /\ x.gen = job[j].gen /\ x.summary = job[j].summary
  BY DEF HistoryTypeOK, JobLocals
<1> HIDE DEF x
<1>4. job' \in [Job -> JobLocals] /\ Batched'
  BY <1>2, <1>3, JobWith
<1>5. \A i \in Job : job'[i].gen = job[i].gen /\ job'[i].batch = job[i].batch
                     /\ job'[i].summary = job[i].summary
  BY <1>2, <1>3 DEF HistoryTypeOK
<1> DEFINE text == job[j].summary \cup job[j].batch
<1>6. text \in Text /\ job[j].gen \in Generation
  BY DEF HistoryTypeOK, JobLocals, Text
<1>7. \/ memory' = memory
      \/ memory' = [memory EXCEPT ![job[j].gen] = @ \cup {text}]
  BY DEF Save, FiledUnder
<1> HIDE DEF text
<1>8. /\ memory' \in [Generation -> SUBSET Text]
      /\ \A g \in Generation : \A t \in memory'[g] :
             t \in memory[g] \/ (g = job[j].gen /\ t = text)
  BY <1>6, <1>7 DEF HistoryTypeOK
<1> QED BY <1>4, <1>5, <1>8 DEF text

\* The last stages of a job touch no message and no summary, and take texts away.
LEMMA EndEffect ==
    ASSUME Sound, NEW j \in Job,
           CheckAgain(j) \/ PurgeStale(j) \/ SummaryFails(j) \/ Crash(j)
    PROVE  /\ job' \in [Job -> JobLocals] /\ Batched'
           /\ \/ job' = [job EXCEPT ![j] = NoJob]
              \/ \A i \in Job : job'[i].gen = job[i].gen /\ job'[i].batch = job[i].batch
                                /\ job'[i].summary = job[i].summary
           /\ memory' \in [Generation -> SUBSET Text]
           /\ \A g \in Generation : memory'[g] \subseteq memory[g]
           /\ pending' \in BOOLEAN
           /\ faults' \in 0 .. MaxFaults
           /\ UNCHANGED <<thread, messages, legacy, run, purges>>
<1> USE DEF Sound
<1>1. CASE CheckAgain(j)
  <2>1. CASE Stale(j)
    <3> DEFINE x == [job[j] EXCEPT !.at = "purging", !.due = Due(thread)]
    <3>1. job' = [job EXCEPT ![j] = x]
      BY <1>1, <2>1 DEF CheckAgain, HistoryTypeOK
    <3>2. Due(thread) \in BOOLEAN
      BY DEF Due
    <3>3. /\ x \in JobLocals /\ x.at = "purging" /\ x.batch = job[j].batch
          /\ x.gen = job[j].gen /\ x.summary = job[j].summary
      BY <3>2 DEF HistoryTypeOK, JobLocals
    <3> HIDE DEF x
    <3>4. job' \in [Job -> JobLocals] /\ Batched'
      BY <3>1, <3>3, JobWith
    <3>5. \A i \in Job : job'[i].gen = job[i].gen /\ job'[i].batch = job[i].batch
                         /\ job'[i].summary = job[i].summary
      BY <3>1, <3>3 DEF HistoryTypeOK
    <3> QED BY <1>1, <2>1, <3>4, <3>5 DEF CheckAgain, HistoryTypeOK
  <2>2. CASE ~Stale(j)
    <3>1. pending' \in BOOLEAN
      BY <1>1, <2>2, PendingIsBoolean DEF CheckAgain
    <3> QED BY <1>1, <2>2, <3>1, ExitEffect DEF CheckAgain, HistoryTypeOK
  <2> QED BY <2>1, <2>2
<1>2. CASE PurgeStale(j)
  <2>1. /\ memory' \in [Generation -> SUBSET Text]
        /\ \A g \in Generation : memory'[g] \subseteq memory[g]
    BY <1>2, PurgedIsMemory DEF PurgeStale, HistoryTypeOK
  <2>2. faults' \in 0 .. MaxFaults
    BY <1>2, FaultEffect DEF PurgeStale, HistoryTypeOK
  <2>3. pending' \in BOOLEAN
    BY <1>2, PendingIsBoolean DEF PurgeStale
  <2> QED BY <1>2, <2>1, <2>2, <2>3, ExitEffect DEF PurgeStale
<1>3. CASE SummaryFails(j)
  BY <1>3, FaultEffect, ExitEffect DEF SummaryFails, HistoryTypeOK
<1>4. CASE Crash(j)
  BY <1>4, FaultEffect, ExitEffect DEF Crash, HistoryTypeOK
<1> QED BY <1>1, <1>2, <1>3, <1>4

LEMMA SoundJob ==
    ASSUME Sound, NEW j \in Job, JobStep(j)
    PROVE  Sound'
<1> USE DEF Sound, HistoryTypeOK
<1>1. CASE StartCompaction(j)
  BY <1>1, StartEffect DEF StartCompaction
<1>2. CASE ReadBatch(j)
  BY <1>2, ReadEffect DEF ReadBatch
<1>3. CASE Advance(j)
  BY <1>3, AdvanceEffect DEF Advance
<1>4. CASE Save(j)
  BY <1>4, SaveEffect, FaultEffect DEF Save
<1>5. CASE CheckAgain(j) \/ PurgeStale(j) \/ SummaryFails(j) \/ Crash(j)
  BY <1>5, EndEffect
<1> QED BY <1>1, <1>2, <1>3, <1>4, <1>5 DEF JobStep

-----------------------------------------------------------------------------
(* One conversation.                                                        *)

\* The messages and the runs of a step that only writes for runs that may write.
LEMMA ConversingRun ==
    ASSUME Sound, Conversing, NEW r \in Run, RunStep(r)
    PROVE  Conversing'
<1> USE DEF Sound, HistoryTypeOK, Conversing, OneConversation, ActiveIsCurrent
<1>1. thread.gen \in Generation /\ run[r].born \in Generation
  BY DEF ThreadRow, RunLocals
<1>2. CASE SendUserMessage(r)
  <2>1. thread'.gen = thread.gen /\ \A m \in messages' : m \in messages \/ m.born = thread.gen
    BY <1>1, <1>2, WritesEffect DEF SendUserMessage
  <2>2. \A q \in Run : run'[q].status = "active" =>
            run'[q] = run[q] \/ run'[q].born = thread.gen
    BY <1>2 DEF SendUserMessage, RunLocals
  <2> QED BY <2>1, <2>2
<1>3. CASE ReadThread(r) \/ ReadMessages(r) \/ StopRun(r)
  <2>1. \A q \in Run : run'[q].status = "active" =>
            run[q].status = "active" /\ run'[q].born = run[q].born
    BY <1>3 DEF ReadThread, ReadMessages, StopRun, RunLocals
  <2> QED BY <1>3, <2>1 DEF ReadThread, ReadMessages, StopRun
<1>4. CASE Narrate(r)
  <2>1. run[r].born = thread.gen
    BY <1>4 DEF Narrate, MayWrite
  <2> QED BY <1>1, <1>4, <2>1, WritesEffect DEF Narrate
<1>5. CASE FinalizeRun(r)
  <2>1. run[r].born = thread.gen
    BY <1>5 DEF FinalizeRun
  <2>2. thread'.gen = thread.gen /\ \A m \in messages' : m \in messages \/ m.born = thread.gen
    BY <1>1, <1>5, <2>1, WritesEffect DEF FinalizeRun
  <2>3. \A q \in Run : run'[q].status = "active" => run'[q] = run[q]
    BY <1>5 DEF FinalizeRun, RunLocals
  <2> QED BY <2>2, <2>3
<1> QED BY <1>2, <1>3, <1>4, <1>5 DEF RunStep

LEMMA ConversingClear ==
    ASSUME Sound, ClearThread
    PROVE  Conversing'
BY ClearEffect DEF Sound, ClearThread, Conversing, OneConversation, ActiveIsCurrent

\* Jobs and purges write no message and no run.
LEMMA ConversingJob ==
    ASSUME Sound, Conversing,
           (\E j \in Job : JobStep(j)) \/ (\E gens \in SUBSET Generation : PurgeCleared(gens))
    PROVE  Conversing'
<1> USE DEF Sound, Conversing, OneConversation, ActiveIsCurrent
<1>1. UNCHANGED <<messages, run>> /\ thread'.gen = thread.gen
  <2>1. CASE \E gens \in SUBSET Generation : PurgeCleared(gens)
    BY <2>1 DEF PurgeCleared
  <2>2. ASSUME NEW j \in Job, JobStep(j) PROVE UNCHANGED <<messages, run>> /\ thread'.gen = thread.gen
    <3>1. CASE Advance(j)
      BY <3>1, AdvanceEffect DEF Advance
    <3>2. CASE CheckAgain(j) \/ PurgeStale(j) \/ SummaryFails(j) \/ Crash(j)
      BY <3>2, EndEffect
    <3> QED BY <2>2, <3>1, <3>2 DEF JobStep, StartCompaction, ReadBatch, Save
  <2> QED BY <2>1, <2>2
<1> QED BY <1>1

-----------------------------------------------------------------------------
(* What was cleared is told by no text of the generation of the thread.     *)

\* More messages, the same texts.
LEMMA TruthfulRun ==
    ASSUME Sound, Truthful, NEW r \in Run, RunStep(r)
    PROVE  Truthful'
<1> USE DEF Sound, HistoryTypeOK
<1>1. thread.gen \in Generation /\ run[r].born \in Generation
  BY DEF ThreadRow, RunLocals
<1>2. /\ messages \subseteq messages' /\ UNCHANGED <<memory, job>>
      /\ thread'.gen = thread.gen /\ thread'.summary = thread.summary
  <2>1. CASE SendUserMessage(r)
    BY <1>1, <2>1, WritesEffect DEF SendUserMessage
  <2>2. CASE Narrate(r)
    BY <1>1, <2>2, WritesEffect DEF Narrate
  <2>3. CASE FinalizeRun(r)
    BY <1>1, <2>3, WritesEffect DEF FinalizeRun
  <2>4. CASE ReadThread(r) \/ ReadMessages(r) \/ StopRun(r)
    BY <2>4 DEF ReadThread, ReadMessages, StopRun
  <2> QED BY <2>1, <2>2, <2>3, <2>4 DEF RunStep
<1>3. SeqOf(messages) \subseteq SeqOf(messages')
  BY <1>2 DEF SeqOf
<1>4. SeqOf(messages)' = SeqOf(messages')
  BY DEF SeqOf
<1> QED BY <1>2, <1>3, <1>4 DEF Truthful, JobsTellTheTruth, SummaryTellsTheTruth,
                               NothingFiledAhead, ClearedIsNotRecalled

\* Nothing was filed under the next generation, and no job belongs to it.
LEMMA TruthfulClear ==
    ASSUME Sound, Truthful, ClearThread
    PROVE  Truthful'
<1> USE DEF Sound, HistoryTypeOK, Truthful
<1>1. thread.gen \in Nat /\ thread.gen + 1 \in Generation
  BY HistoryAssumption DEF ClearThread, ThreadRow, Generation
<1>2. /\ thread'.gen = thread.gen + 1 /\ thread'.summary = {}
      /\ UNCHANGED <<memory, job>>
  BY ClearEffect DEF ClearThread
<1>3. JobsTellTheTruth'
  <2>1. \A j \in Job : job[j].gen \in Nat /\ job[j].gen <= thread.gen
    BY HistoryAssumption DEF JobsTellTheTruth, JobLocals, Generation
  <2> QED BY <1>1, <1>2, <2>1 DEF JobsTellTheTruth
<1>4. \A g \in Generation : g > thread.gen => memory[g] = {}
  BY DEF NothingFiledAhead
<1>5. NothingFiledAhead'
  BY <1>1, <1>2, <1>4, HistoryAssumption DEF NothingFiledAhead, Generation
<1>6. ClearedIsNotRecalled'
  <2>1. memory'[thread'.gen] = {}
    BY <1>1, <1>2, <1>4
  <2> QED BY <2>1 DEF ClearedIsNotRecalled
<1> QED BY <1>2, <1>3, <1>5, <1>6 DEF SummaryTellsTheTruth

\* Fewer texts.
LEMMA FewerTexts ==
    ASSUME Sound, NothingFiledAhead, ClearedIsNotRecalled,
           \A g \in Generation : memory'[g] \subseteq memory[g],
           UNCHANGED messages, thread'.gen = thread.gen
    PROVE  NothingFiledAhead' /\ ClearedIsNotRecalled'
<1>1. thread.gen \in Generation
  BY DEF Sound, HistoryTypeOK, ThreadRow
<1>2. SeqOf(messages)' = SeqOf(messages)
  BY DEF SeqOf
<1> QED BY <1>1, <1>2 DEF NothingFiledAhead, ClearedIsNotRecalled

LEMMA TruthfulPurge ==
    ASSUME Sound, Truthful, NEW gens \in SUBSET Generation, PurgeCleared(gens)
    PROVE  Truthful'
<1>1. /\ \A g \in Generation : memory'[g] \subseteq memory[g]
      /\ UNCHANGED <<thread, messages, job>>
  BY PurgedIsMemory DEF Sound, PurgeCleared
<1>2. SeqOf(messages)' = SeqOf(messages)
  BY <1>1 DEF SeqOf
<1> QED BY <1>1, <1>2, FewerTexts DEF Truthful, JobsTellTheTruth, SummaryTellsTheTruth

\* Jobs whose generation and texts are those of before, or which are over.
LEMMA SameJobs ==
    ASSUME Sound, JobsTellTheTruth, NEW j \in Job, UNCHANGED messages,
           thread'.gen = thread.gen,
           \/ job' = [job EXCEPT ![j] = NoJob]
           \/ \A i \in Job : job'[i].gen = job[i].gen /\ job'[i].batch = job[i].batch
                             /\ job'[i].summary = job[i].summary
    PROVE  JobsTellTheTruth'
<1>1. SeqOf(messages)' = SeqOf(messages)
  BY DEF SeqOf
<1>2. CASE job' = [job EXCEPT ![j] = NoJob]
  <2>1. NoJob.gen = 0 /\ NoJob.summary = {} /\ NoJob.batch = {} /\ 0 <= thread.gen
    BY HistoryAssumption DEF NoJob, Sound, HistoryTypeOK, ThreadRow, Generation
  <2>2. \A i \in Job : job'[i] = job[i] \/ job'[i] = NoJob
    BY <1>2 DEF Sound, HistoryTypeOK
  <2> QED BY <1>1, <2>1, <2>2 DEF JobsTellTheTruth
<1>3. CASE \A i \in Job : job'[i].gen = job[i].gen /\ job'[i].batch = job[i].batch
                          /\ job'[i].summary = job[i].summary
  BY <1>1, <1>3 DEF JobsTellTheTruth
<1> QED BY <1>2, <1>3

LEMMA TruthfulJob ==
    ASSUME Sound, Truthful, NEW j \in Job, JobStep(j)
    PROVE  Truthful'
<1> USE DEF Truthful
<1>0. thread.gen \in Generation /\ thread.gen \in Int /\ job[j].gen \in Generation
  BY HistoryAssumption DEF Sound, HistoryTypeOK, ThreadRow, JobLocals, Generation
<1>1. CASE StartCompaction(j)
  <2>1. UNCHANGED <<thread, messages, memory>>
    BY <1>1 DEF StartCompaction
  <2>2. SeqOf(messages)' = SeqOf(messages)
    BY <2>1 DEF SeqOf
  <2>3. JobsTellTheTruth'
    BY <1>0, <1>1, <2>1, <2>2, StartEffect DEF JobsTellTheTruth, SummaryTellsTheTruth
  <2>4. SummaryTellsTheTruth'
    BY <2>1, <2>2 DEF SummaryTellsTheTruth
  <2> QED BY <2>1, <2>3, <2>4, FewerTexts
<1>2. CASE ReadBatch(j)
  <2>1. UNCHANGED <<thread, messages, memory>>
    BY <1>2 DEF ReadBatch
  <2>2. SeqOf(messages)' = SeqOf(messages)
    BY <2>1 DEF SeqOf
  <2>3. JobsTellTheTruth'
    <3>1. CASE job' = [job EXCEPT ![j] = NoJob]
      BY <2>1, <3>1, SameJobs
    <3>2. CASE job' # [job EXCEPT ![j] = NoJob]
      BY <1>2, <2>1, <2>2, <3>2, ReadEffect DEF JobsTellTheTruth
    <3> QED BY <3>1, <3>2
  <2>4. SummaryTellsTheTruth'
    BY <2>1, <2>2 DEF SummaryTellsTheTruth
  <2> QED BY <2>1, <2>3, <2>4, FewerTexts
<1>3. CASE Advance(j)
  <2>1. UNCHANGED <<messages, memory>> /\ thread'.gen = thread.gen
    BY <1>3, AdvanceEffect DEF Advance
  <2>2. SeqOf(messages)' = SeqOf(messages)
    BY <2>1 DEF SeqOf
  <2>3. JobsTellTheTruth'
    BY <1>3, <2>1, SameJobs, AdvanceEffect
  <2>4. thread'.summary \subseteq SeqOf(messages)
    BY <1>3, AdvanceEffect DEF JobsTellTheTruth, SummaryTellsTheTruth
  <2>5. SummaryTellsTheTruth'
    BY <2>2, <2>4 DEF SummaryTellsTheTruth
  <2> QED BY <2>1, <2>3, <2>5, FewerTexts
<1>4. CASE Save(j)
  <2>1. UNCHANGED <<messages, thread>>
    BY <1>4 DEF Save
  <2>2. SeqOf(messages)' = SeqOf(messages)
    BY <2>1 DEF SeqOf
  <2>3. JobsTellTheTruth'
    BY <1>4, <2>1, SameJobs, SaveEffect
  <2>4. SummaryTellsTheTruth'
    BY <2>1, <2>2 DEF SummaryTellsTheTruth
  <2>5. NothingFiledAhead'
    <3>1. job[j].gen <= thread.gen
      BY DEF JobsTellTheTruth
    <3>2. \A g \in Generation : g > thread.gen => g # job[j].gen
      BY <1>0, <3>1, HistoryAssumption DEF Generation
    <3>3. \A g \in Generation : g > thread.gen => memory'[g] = {}
      BY <1>4, <3>2, SaveEffect DEF NothingFiledAhead
    <3> QED BY <2>1, <3>3 DEF NothingFiledAhead
  <2>6. ClearedIsNotRecalled'
    <3>1. \A t \in memory'[thread.gen] : t \subseteq SeqOf(messages)
      BY <1>0, <1>4, SaveEffect DEF ClearedIsNotRecalled, JobsTellTheTruth
    <3> QED BY <2>1, <2>2, <3>1 DEF ClearedIsNotRecalled
  <2> QED BY <2>3, <2>4, <2>5, <2>6
<1>5. CASE CheckAgain(j) \/ PurgeStale(j) \/ SummaryFails(j) \/ Crash(j)
  <2>1. UNCHANGED <<messages, thread>> /\ \A g \in Generation : memory'[g] \subseteq memory[g]
    BY <1>5, EndEffect
  <2>2. SeqOf(messages)' = SeqOf(messages)
    BY <2>1 DEF SeqOf
  <2>3. JobsTellTheTruth'
    BY <1>5, <2>1, SameJobs, EndEffect
  <2>4. SummaryTellsTheTruth'
    BY <2>1, <2>2 DEF SummaryTellsTheTruth
  <2> QED BY <2>1, <2>3, <2>4, FewerTexts
<1> QED BY <1>1, <1>2, <1>3, <1>4, <1>5 DEF JobStep

-----------------------------------------------------------------------------
(* The summary is whole.                                                    *)

\* What may be told up to a cursor that is behind does not change with a new message.
LEMMA ToldStays ==
    ASSUME Sound, NEW born \in Generation, Writes(born), NEW c, c < thread.next, c \in Int
    PROVE  Told(c)' = Told(c)
<1>1. thread.next \in Int
  BY HistoryAssumption DEF Sound, HistoryTypeOK, ThreadRow
<1>2. SeqOf(messages)' = SeqOf(messages) \cup {thread.next}
  <2> DEFINE new == [seq |-> thread.next, born |-> born]
  <2>1. messages' = messages \cup {new} /\ new.seq = thread.next
    BY DEF Writes
  <2> HIDE DEF new
  <2> QED BY <2>1 DEF SeqOf
<1>3. ~(thread.next <= c)
  BY <1>1
<1>4. Told(c)' = {s \in SeqOf(messages) \cup {thread.next} : s <= c}
  BY <1>2 DEF Told
<1> QED BY <1>3, <1>4 DEF Told

\* The numbers of a row and of a job.
LEMMA Numbers ==
    ASSUME HistoryTypeOK
    PROVE  /\ thread.next \in Int /\ thread.cursor \in Int /\ thread.gen \in Int
           /\ SeqOf(messages) \subseteq Int
           /\ \A j \in Job : job[j].cursor \in Int /\ job[j].gen \in Int
           /\ \A m \in messages : m.seq \in Int
<1> USE HistoryAssumption DEF HistoryTypeOK
<1>1. Seqs \subseteq Int /\ NotCompacted \in Int /\ Generation \subseteq Int
  BY DEF Seqs, NotCompacted, Generation
<1>2. thread.next \in Int /\ thread.cursor \in Int /\ thread.gen \in Int
  <2>1. /\ thread.next \in 0 .. MaxMessages /\ thread.gen \in Generation
        /\ thread.cursor \in Seqs \cup {NotCompacted}
    BY DEF ThreadRow
  <2>2. thread.next \in Int
    BY <2>1
  <2> QED BY <1>1, <2>1, <2>2
<1>3. \A j \in Job : job[j].cursor \in Int /\ job[j].gen \in Int
  BY <1>1 DEF JobLocals
<1>4. \A m \in messages : m.seq \in Int
  BY <1>1 DEF MessageRow
<1> QED BY <1>2, <1>3, <1>4 DEF SeqOf

\* A message that is written leaves the summaries whole.
LEMMA WholeWrites ==
    ASSUME Sound, Whole, NEW born \in Generation, Writes(born), UNCHANGED job
    PROVE  Whole'
<1> USE DEF Sound, Whole
<1>1. /\ thread.next \in Int /\ thread.cursor \in Int
      /\ thread' = [thread EXCEPT !.next = thread.next + 1]
      /\ messages' = messages \cup {[seq |-> thread.next, born |-> born]}
  BY Numbers DEF Writes
<1>2. thread'.next = thread.next + 1 /\ thread'.cursor = thread.cursor
      /\ thread'.gen = thread.gen /\ thread'.summary = thread.summary
  BY <1>1 DEF HistoryTypeOK, ThreadRow
<1>3. NumberedInOrder'
  BY <1>1, <1>2, Numbers DEF NumberedInOrder
<1>4. SummaryIsToldOrLegacy'
  <2>1. Told(thread.cursor)' = Told(thread.cursor)
    BY <1>1, <1>2, ToldStays DEF NumberedInOrder, Told
  <2> QED BY <1>2, <2>1 DEF SummaryIsToldOrLegacy, NeedsBootstrap
<1>5. JobsAreTold'
  <2> SUFFICES ASSUME NEW j \in Job, job[j].gen = thread.gen PROVE JobIsTold(job[j])'
    BY <1>2 DEF JobsAreTold
  <2>1. JobIsTold(job[j])
    BY DEF JobsAreTold
  <2>2. CASE job[j].at = "reading"
    <3>1. job[j].cursor < thread.next /\ job[j].cursor \in Int
      BY <2>1, <2>2, Numbers DEF JobIsTold
    <3>2. Told(job[j].cursor)' = Told(job[j].cursor)
      BY <3>1, ToldStays DEF Told
    <3> QED BY <1>1, <1>2, <2>1, <2>2, <3>1, <3>2 DEF JobIsTold
  <2>3. CASE job[j].at = "summarizing"
    <3>1. Max(job[j].batch) \in Int
      <4>1. job[j].batch \in SUBSET Seqs /\ job[j].batch # {}
        BY <2>3 DEF HistoryTypeOK, JobLocals, Batched, Text
      <4>2. Max(job[j].batch) \in Seqs
        BY <4>1, MaxIsSeq
      <4> QED BY <4>2, HistoryAssumption DEF Seqs
    <3>2. Max(job[j].batch) < thread.next
      BY <2>1, <2>3 DEF JobIsTold
    <3>3. Told(Max(job[j].batch))' = Told(Max(job[j].batch))
      BY <3>1, <3>2, ToldStays DEF Told
    <3> QED BY <1>1, <1>2, <2>1, <2>3, <3>1, <3>2, <3>3 DEF JobIsTold
  <2> QED BY <2>2, <2>3 DEF JobIsTold
<1> QED BY <1>3, <1>4, <1>5

\* Nothing that a summary tells of is touched.
LEMMA WholeStays ==
    ASSUME Sound, Whole, UNCHANGED <<thread, messages>>,
           \A j \in Job : job'[j] # job[j] => job'[j].at \notin {"reading", "summarizing"}
    PROVE  Whole'
<1>1. \A c : Told(c)' = Told(c)
  BY DEF Told, SeqOf
<1>2. \A j \in Job : job'[j].gen = thread.gen => JobIsTold(job[j])' \/ job'[j] # job[j]
  BY DEF Whole, JobsAreTold, JobIsTold, Told, SeqOf
<1>3. JobsAreTold'
  BY <1>2 DEF JobsAreTold, JobIsTold
<1>4. NumberedInOrder' /\ SummaryIsToldOrLegacy'
  BY DEF Whole, NumberedInOrder, SummaryIsToldOrLegacy, NeedsBootstrap, Told, SeqOf
<1> QED BY <1>3, <1>4 DEF Whole

LEMMA WholeRun ==
    ASSUME Sound, Whole, NEW r \in Run, RunStep(r)
    PROVE  Whole'
<1>1. thread.gen \in Generation /\ run[r].born \in Generation
  BY DEF Sound, HistoryTypeOK, ThreadRow, RunLocals
<1>2. CASE SendUserMessage(r)
  BY <1>1, <1>2, WholeWrites DEF SendUserMessage
<1>3. CASE Narrate(r)
  BY <1>1, <1>3, WholeWrites DEF Narrate
<1>4. CASE FinalizeRun(r)
  BY <1>1, <1>4, WholeWrites, WholeStays DEF FinalizeRun
<1>5. CASE ReadThread(r) \/ ReadMessages(r) \/ StopRun(r)
  BY <1>5, WholeStays DEF ReadThread, ReadMessages, StopRun
<1> QED BY <1>2, <1>3, <1>4, <1>5 DEF RunStep

\* A clear leaves nothing to tell, and its jobs are those of an earlier generation.
LEMMA WholeClear ==
    ASSUME Sound, Truthful, Whole, ClearThread
    PROVE  Whole'
<1>1. /\ messages' = {} /\ thread'.gen = thread.gen + 1 /\ thread'.summary = {}
      /\ UNCHANGED job
  BY ClearEffect DEF Sound, ClearThread
<1>2. Told(thread.cursor)' = {}
  BY <1>1 DEF Told, SeqOf
<1>3. thread'.cursor = ClearedUpTo /\ thread'.next = thread.next
  BY DEF ClearThread, Sound, HistoryTypeOK, ThreadRow
<1>4. ClearedUpTo < thread.next
  BY Numbers DEF Sound, Whole, NumberedInOrder, ClearedUpTo
<1>5. \A j \in Job : job'[j].gen # thread'.gen
  BY <1>1, Numbers DEF Sound, Truthful, JobsTellTheTruth
<1>6. NumberedInOrder'
  BY <1>1, <1>3, <1>4 DEF NumberedInOrder
<1>7. SummaryIsToldOrLegacy'
  BY <1>1, <1>2 DEF SummaryIsToldOrLegacy
<1>8. JobsAreTold'
  BY <1>5 DEF JobsAreTold
<1> QED BY <1>6, <1>7, <1>8 DEF Whole

\* Another job's step leaves what a job has read.
LEMMA WholeOthers ==
    ASSUME Sound, Whole, NEW j \in Job, UNCHANGED messages,
           thread'.gen = thread.gen, thread'.next = thread.next,
           \A i \in Job \ {j} : job'[i] = job[i],
           job'[j].gen = thread.gen => JobIsTold(job[j])'
    PROVE  JobsAreTold'
<1>1. \A i \in Job \ {j} : job[i].gen = thread.gen => JobIsTold(job[i])'
  BY DEF Whole, JobsAreTold, JobIsTold, Told, SeqOf
<1> QED BY <1>1 DEF JobsAreTold

\* What the thread's row says of the summary is what the job takes over.
LEMMA WholeStart ==
    ASSUME Sound, Whole, NEW j \in Job, StartCompaction(j)
    PROVE  Whole'
<1>1. UNCHANGED <<thread, messages>>
  BY DEF StartCompaction
<1>2. \A c : Told(c)' = Told(c)
  BY <1>1 DEF Told, SeqOf
<1>3. /\ job'[j].at = "reading" /\ job'[j].cursor = thread.cursor
      /\ NeedsBootstrap(thread) => job'[j].boot
      /\ job'[j].summary = thread.summary
      /\ \A i \in Job \ {j} : job'[i] = job[i]
  BY StartEffect
<1>4. JobIsTold(job[j])'
  <2>1. thread.summary = Told(thread.cursor) \/ NeedsBootstrap(thread)
    BY DEF Whole, SummaryIsToldOrLegacy
  <2>2. NeedsBootstrap(thread) => thread.summary = {}
    BY DEF NeedsBootstrap
  <2> QED BY <1>1, <1>2, <1>3, <2>1, <2>2 DEF JobIsTold, Whole, NumberedInOrder
<1>5. JobsAreTold'
  BY <1>1, <1>3, <1>4, WholeOthers
<1>6. NumberedInOrder' /\ SummaryIsToldOrLegacy'
  BY <1>1, <1>2 DEF Whole, NumberedInOrder, SummaryIsToldOrLegacy, NeedsBootstrap
<1> QED BY <1>5, <1>6 DEF Whole

\* The summary a job has read and the batch it reads tell of all there is up to the last
\* message of the batch.
LEMMA BatchCompletes ==
    ASSUME Sound, Whole, NEW j \in Job, job[j].at = "reading", job[j].gen = thread.gen,
           NEW S \in (IF job[j].boot /\ SeqOf(messages) \cap (0 .. job[j].cursor) # {}
                        THEN Bootstrap(j) ELSE Batches(j))
    PROVE  Max(S) < thread.next /\ job[j].summary \cup S = Told(Max(S))
<1> DEFINE old == SeqOf(messages) \cap (0 .. job[j].cursor)
<1>1. /\ job[j].cursor < thread.next /\ job[j].cursor \in Int
      /\ job[j].summary = Told(job[j].cursor) \/ (job[j].boot /\ job[j].summary = {})
  BY Numbers DEF Sound, Whole, JobsAreTold, JobIsTold
<1>2. SeqOf(messages) \in SUBSET Seqs /\ \A s \in SeqOf(messages) : s \in Nat
  BY SeqsOfMessages, HistoryAssumption DEF Sound, Text, Seqs
<1>3. old = Told(job[j].cursor)
  BY <1>1, <1>2 DEF Told
<1>4. CASE job[j].boot /\ old # {}
  <2>1. S = old /\ Max(S) = job[j].cursor
    BY <1>4 DEF Bootstrap
  <2> QED BY <1>1, <1>3, <2>1
<1>5. CASE ~(job[j].boot /\ old # {})
  <2>1. job[j].summary = Told(job[j].cursor)
    BY <1>1, <1>3, <1>5
  <2>2. /\ S \subseteq SeqOf(messages) /\ S # {}
        /\ \A t \in S : t > job[j].cursor
        /\ \A x \in S, t \in SeqOf(messages) : t > job[j].cursor /\ t <= x => t \in S
    BY <1>5, BatchesAreMessages DEF Sound
  <2>3. Max(S) \in S /\ \A y \in S : y <= Max(S)
    BY <1>2, <2>2, MaxIsSeq
  <2>4. Max(S) < thread.next
    <3>1. PICK m \in messages : Max(S) = m.seq
      BY <2>2, <2>3 DEF SeqOf
    <3> QED BY <3>1 DEF Whole, NumberedInOrder
  <2>5. \A s \in SeqOf(messages) : s <= Max(S) <=> s <= job[j].cursor \/ s \in S
    <3> TAKE s \in SeqOf(messages)
    <3>1. s \in Nat /\ Max(S) \in Nat /\ Max(S) > job[j].cursor
      BY <1>2, <2>2, <2>3
    <3> QED BY <1>1, <2>2, <2>3, <3>1
  <2>6. Told(Max(S)) = Told(job[j].cursor) \cup S
    BY <2>2, <2>5 DEF Told
  <2> QED BY <2>1, <2>4, <2>6
<1> QED BY <1>4, <1>5

LEMMA WholeRead ==
    ASSUME Sound, Whole, NEW j \in Job, ReadBatch(j)
    PROVE  Whole'
<1> DEFINE old == SeqOf(messages) \cap (0 .. job[j].cursor)
           texts == IF job[j].boot /\ old # {} THEN Bootstrap(j) ELSE Batches(j)
<1>1. UNCHANGED <<thread, messages>>
  BY DEF ReadBatch
<1>2. CASE Exit(j)
  <2>1. \A i \in Job : job'[i] # job[i] => job'[i].at = "out"
    BY <1>2, ExitEffect DEF Sound, HistoryTypeOK, NoJob
  <2> QED BY <1>1, <2>1, WholeStays
<1>3. CASE \E S \in texts : job' = [job EXCEPT ![j].at = "summarizing", ![j].batch = S]
  <2>1. PICK S \in texts : job' = [job EXCEPT ![j].at = "summarizing", ![j].batch = S]
    BY <1>3
  <2>2. /\ job'[j].at = "summarizing" /\ job'[j].batch = S
        /\ job'[j].gen = job[j].gen /\ job'[j].summary = job[j].summary
        /\ \A i \in Job \ {j} : job'[i] = job[i]
    BY <2>1 DEF Sound, HistoryTypeOK, JobLocals
  <2>3. job[j].at = "reading"
    BY DEF ReadBatch
  <2>4. job[j].gen = thread.gen => Max(S) < thread.next /\ job[j].summary \cup S = Told(Max(S))
    BY <2>1, <2>3, BatchCompletes
  <2>5. \A c : Told(c)' = Told(c)
    BY <1>1 DEF Told, SeqOf
  <2>6. job'[j].gen = thread.gen => JobIsTold(job[j])'
    BY <1>1, <2>2, <2>4, <2>5 DEF JobIsTold
  <2>7. JobsAreTold'
    BY <1>1, <2>2, <2>6, WholeOthers
  <2>8. NumberedInOrder' /\ SummaryIsToldOrLegacy'
    BY <1>1, <2>5 DEF Whole, NumberedInOrder, SummaryIsToldOrLegacy, NeedsBootstrap
  <2> QED BY <2>7, <2>8 DEF Whole
<1> QED BY <1>2, <1>3 DEF ReadBatch

\* The job that wins the compare-and-set has read the cursor the row still has.
LEMMA WholeAdvance ==
    ASSUME Sound, Whole, NEW j \in Job, Advance(j)
    PROVE  Whole'
<1>1. CASE ~Unmoved(j)
  <2>1. \A i \in Job : job'[i] # job[i] => job'[i].at = "out"
    BY <1>1, ExitEffect DEF Advance, Sound, HistoryTypeOK, NoJob
  <2> QED BY <1>1, <2>1, WholeStays DEF Advance
<1>2. CASE Unmoved(j)
  <2>1. /\ job[j].at = "summarizing" /\ job[j].gen = thread.gen /\ UNCHANGED messages
        /\ thread' = [thread EXCEPT !.cursor = Max(job[j].batch),
                                    !.summary = job[j].summary \cup job[j].batch]
        /\ job' = [job EXCEPT ![j].at = "saving"]
    BY <1>2 DEF Advance, Unmoved
  <2>2. Max(job[j].batch) < thread.next
        /\ job[j].summary \cup job[j].batch = Told(Max(job[j].batch))
    BY <2>1 DEF Whole, JobsAreTold, JobIsTold
  <2>3. /\ thread'.cursor = Max(job[j].batch)
        /\ thread'.summary = job[j].summary \cup job[j].batch
        /\ thread'.next = thread.next /\ thread'.gen = thread.gen
    BY <2>1 DEF Sound, HistoryTypeOK, ThreadRow
  <2>4. job'[j].at = "saving" /\ \A i \in Job \ {j} : job'[i] = job[i]
    BY <2>1 DEF Sound, HistoryTypeOK, JobLocals
  <2>5. \A c : Told(c)' = Told(c)
    BY <2>1 DEF Told, SeqOf
  <2>6. JobsAreTold'
    BY <2>1, <2>3, <2>4, WholeOthers DEF JobIsTold
  <2>7. NumberedInOrder'
    BY <2>1, <2>2, <2>3 DEF Whole, NumberedInOrder
  <2>8. thread'.summary = Told(thread.cursor)'
    BY <2>1, <2>2, <2>3 DEF Told, SeqOf
  <2>9. SummaryIsToldOrLegacy'
    BY <2>8 DEF SummaryIsToldOrLegacy
  <2> QED BY <2>6, <2>7, <2>9 DEF Whole
<1> QED BY <1>1, <1>2

LEMMA WholeJob ==
    ASSUME Sound, Whole, NEW j \in Job, JobStep(j)
    PROVE  Whole'
<1>1. CASE StartCompaction(j)
  BY <1>1, WholeStart
<1>2. CASE ReadBatch(j)
  BY <1>2, WholeRead
<1>3. CASE Advance(j)
  BY <1>3, WholeAdvance
<1>4. CASE Save(j)
  <2>1. \A i \in Job : job'[i] # job[i] => job'[i].at = "checking"
    BY <1>4 DEF Save, Sound, HistoryTypeOK, JobLocals
  <2> QED BY <1>4, <2>1, WholeStays DEF Save
<1>5. CASE CheckAgain(j) \/ PurgeStale(j) \/ SummaryFails(j) \/ Crash(j)
  <2>1. \A i \in Job : job'[i] # job[i] => job'[i].at \in {"out", "purging"}
    BY <1>5, ExitEffect DEF CheckAgain, PurgeStale, SummaryFails, Crash, Sound,
                            HistoryTypeOK, JobLocals, NoJob
  <2> QED BY <1>5, <2>1, EndEffect, WholeStays
<1> QED BY <1>1, <1>2, <1>3, <1>4, <1>5 DEF JobStep

LEMMA WholePurge ==
    ASSUME Sound, Whole, NEW gens, PurgeCleared(gens)
    PROVE  Whole'
BY WholeStays DEF PurgeCleared

\* A new thread, or one compacted before summaries were kept.
LEMMA WholeInit ==
    ASSUME Init, Sound
    PROVE  Whole
<1>1. CASE messages = {} /\ thread = [next |-> 0, cursor |-> NotCompacted, gen |-> 0, summary |-> {}]
  <2>1. NumberedInOrder
    BY <1>1 DEF NumberedInOrder, NotCompacted
  <2>2. SummaryIsToldOrLegacy
    BY <1>1 DEF SummaryIsToldOrLegacy, Told, SeqOf
  <2>3. JobsAreTold
    BY DEF Init, JobsAreTold, JobIsTold, NoJob
  <2> QED BY <2>1, <2>2, <2>3 DEF Whole
<1>2. ASSUME NEW c \in {0, 1}, messages \subseteq Upto(1),
             thread = [next |-> 2, cursor |-> c, gen |-> 0, summary |-> {}]
      PROVE  Whole
  <2>1. NumberedInOrder
    BY <1>2 DEF NumberedInOrder, Upto
  <2>2. SummaryIsToldOrLegacy
    BY <1>2 DEF SummaryIsToldOrLegacy, NeedsBootstrap, NotCompacted
  <2>3. JobsAreTold
    BY DEF Init, JobsAreTold, JobIsTold, NoJob
  <2> QED BY <2>1, <2>2, <2>3 DEF Whole
<1> QED BY <1>1, <1>2 DEF Init

-----------------------------------------------------------------------------
(* The theorems.                                                            *)

\* The inductive invariant: jobs and runs that are under way belong to the conversation of
\* the moment or will be refused, a job tells only of messages of its own generation, and
\* of all of them up to the cursor it read or is about to write.
THEOREM HistoryInvariant == Spec => [](Sound /\ Conversing /\ Truthful /\ Whole)
<1>1. Init => Sound /\ Conversing /\ Truthful /\ Whole
  <2> SUFFICES ASSUME Init PROVE Sound /\ Conversing /\ Truthful /\ Whole
    OBVIOUS
  <2>1. Sound
    BY SoundInit
  <2>2. thread.gen = 0 /\ thread.summary = {} /\ \A m \in messages : m.born = 0
    <3>1. \A m \in Upto(1) : m.born = 0
      BY DEF Upto
    <3>2. messages \subseteq Upto(1)
      BY DEF Init
    <3>3. thread.gen = 0 /\ thread.summary = {}
      <4>1. \A n, c : LET row == [next |-> n, cursor |-> c, gen |-> 0, summary |-> {}]
                      IN  row.gen = 0 /\ row.summary = {}
        OBVIOUS
      <4>2. \E n, c : thread = [next |-> n, cursor |-> c, gen |-> 0, summary |-> {}]
        BY DEF Init
      <4> QED BY <4>1, <4>2
    <3> QED BY <3>1, <3>2, <3>3
  <2>3. Conversing
    BY <2>2 DEF Init, Conversing, OneConversation, ActiveIsCurrent
  <2>4. Truthful
    BY <2>2, HistoryAssumption DEF Init, NoJob, Truthful, JobsTellTheTruth,
       SummaryTellsTheTruth, NothingFiledAhead, ClearedIsNotRecalled, Generation
  <2>5. Whole
    BY <2>1, WholeInit
  <2> QED BY <2>1, <2>3, <2>4, <2>5
<1>2. Sound /\ Conversing /\ Truthful /\ Whole /\ [Next]_vars => Sound' /\ Conversing' /\ Truthful' /\ Whole'
  <2> SUFFICES ASSUME Sound, Conversing, Truthful, Whole, [Next]_vars
               PROVE Sound' /\ Conversing' /\ Truthful' /\ Whole'
    OBVIOUS
  <2>1. ASSUME NEW j \in Job, JobStep(j) PROVE Sound' /\ Conversing' /\ Truthful' /\ Whole'
    BY <2>1, SoundJob, ConversingJob, TruthfulJob, WholeJob
  <2>2. ASSUME NEW r \in Run, RunStep(r) PROVE Sound' /\ Conversing' /\ Truthful' /\ Whole'
    BY <2>2, SoundRun, ConversingRun, TruthfulRun, WholeRun
  <2>3. CASE ClearThread
    BY <2>3, SoundClear, ConversingClear, TruthfulClear, WholeClear
  <2>4. ASSUME NEW gens \in SUBSET Generation, PurgeCleared(gens)
        PROVE Sound' /\ Conversing' /\ Truthful' /\ Whole'
    BY <2>4, SoundPurge, ConversingJob, TruthfulPurge, WholePurge
  <2>5. CASE UNCHANGED vars
    BY <2>5 DEF vars, Sound, HistoryTypeOK, Batched, Conversing, OneConversation,
       ActiveIsCurrent, Truthful, JobsTellTheTruth, SummaryTellsTheTruth, NothingFiledAhead,
       ClearedIsNotRecalled, SeqOf, Whole, NumberedInOrder, SummaryIsToldOrLegacy,
       NeedsBootstrap, JobsAreTold, JobIsTold, Told
  <2> QED BY <2>1, <2>2, <2>3, <2>4, <2>5 DEF Next
<1> QED BY <1>1, <1>2, PTL DEF Spec

\* The row, the messages, the jobs and what runs have read keep the shapes of the schema,
\* for every number of jobs and runs that overlap.
THEOREM HistoryTypeCorrect == Spec => []HistoryTypeOK
<1>1. Sound => HistoryTypeOK
  BY DEF Sound
<1> QED BY <1>1, HistoryInvariant, PTL

\* No run that a clear cancelled writes into the thread after it: the check under the lock
\* of the thread's row is enough.
THEOREM ConversationIsOne == Spec => []OneConversation
<1>1. Conversing => OneConversation
  BY DEF Conversing
<1> QED BY <1>1, HistoryInvariant, PTL

\* No message is lost between the summary and the messages that follow it: a job that wins
\* the compare-and-set writes a summary of everything up to the new cursor.
THEOREM SummaryMissesNothing == Spec => []SummaryIsWhole
<1>1. Whole => SummaryIsWhole
  BY DEF Whole, SummaryIsToldOrLegacy, NeedsBootstrap, Told, SummaryIsWhole
<1> QED BY <1>1, HistoryInvariant, PTL

\* What recall finds under the generation of the thread tells of no cleared message,
\* whenever the jobs that clears overtake save their summaries.
THEOREM RecallForgets == Spec => []ClearedIsNotRecalled
<1>1. Truthful => ClearedIsNotRecalled
  BY DEF Truthful
<1> QED BY <1>1, HistoryInvariant, PTL

-----------------------------------------------------------------------------
(* What a run is shown.                                                     *)

\* What a handler has read of the conversation of the moment: a summary that tells of every
\* message up to its cursor, and messages that are still there.
ViewIsTold(v) ==
    /\ v.hasThread => /\ v.cursor < thread.next
                      /\ v.summary # {} => v.summary = Told(v.cursor)
    /\ v.hasRecent => v.recent \subseteq SeqOf(messages)

ViewsAreTold ==
    \A r \in Run :
        /\ run[r].status = "none" => ~run[r].view.hasThread /\ ~run[r].view.hasRecent
        /\ run[r].status = "active" => ViewIsTold(run[r].view)

LEMMA NumbersOfAView ==
    ASSUME NEW v \in View
    PROVE  /\ v.cursor \in Int /\ v.recent \in SUBSET Seqs /\ v.summary \in SUBSET Seqs
           /\ v.hasThread \in BOOLEAN /\ v.hasRecent \in BOOLEAN
<1>1. v.cursor \in Seqs \cup {NotCompacted}
  BY DEF View
<1>2. v.cursor \in Int
  BY <1>1, HistoryAssumption DEF Seqs, NotCompacted
<1> QED BY <1>2 DEF View, Text

\* A message that is written comes after what was read.
LEMMA ViewStaysOnWrite ==
    ASSUME Sound, NEW born \in Generation, Writes(born), NEW v \in View, ViewIsTold(v)
    PROVE  ViewIsTold(v)'
<1>1. /\ thread' = [thread EXCEPT !.next = @ + 1] /\ thread \in ThreadRow
      /\ messages \subseteq messages'
  BY WritesEffect DEF Writes, Sound, HistoryTypeOK
<1>2. thread.next \in Int /\ thread'.next = thread.next + 1
  BY <1>1, Numbers DEF ThreadRow, Sound
<1>3. v.cursor \in Int
  BY NumbersOfAView
<1>4. v.hasRecent => v.recent \subseteq SeqOf(messages)'
  BY <1>1 DEF ViewIsTold, SeqOf
<1>5. v.hasThread => v.cursor < thread'.next /\ (v.summary # {} => v.summary = Told(v.cursor)')
  <2> SUFFICES ASSUME v.hasThread
               PROVE  v.cursor < thread'.next /\ (v.summary # {} => v.summary = Told(v.cursor)')
    OBVIOUS
  <2>1. v.cursor < thread.next /\ (v.summary # {} => v.summary = Told(v.cursor))
    BY DEF ViewIsTold
  <2>2. Told(v.cursor)' = Told(v.cursor)
    BY <1>3, <2>1, ToldStays
  <2> QED BY <1>2, <1>3, <2>1, <2>2
<1> QED BY <1>4, <1>5 DEF ViewIsTold

LEMMA ViewStays ==
    ASSUME NEW v, ViewIsTold(v), UNCHANGED messages, thread'.next = thread.next
    PROVE  ViewIsTold(v)'
BY DEF ViewIsTold, Told, SeqOf

LEMMA ViewsStay ==
    ASSUME ViewsAreTold, UNCHANGED <<messages, run>>, thread'.next = thread.next
    PROVE  ViewsAreTold'
BY ViewStays DEF ViewsAreTold

LEMMA ViewsWrite ==
    ASSUME Sound, ViewsAreTold, NEW born \in Generation, Writes(born), UNCHANGED run
    PROVE  ViewsAreTold'
<1>1. \A r \in Run : run[r].view \in View
  BY DEF Sound, HistoryTypeOK, RunLocals
<1> QED BY <1>1, ViewStaysOnWrite DEF ViewsAreTold

LEMMA ViewsRun ==
    ASSUME Sound, Whole, ViewsAreTold, NEW r \in Run, RunStep(r)
    PROVE  ViewsAreTold'
<1>1. /\ run \in [Run -> RunLocals] /\ thread.gen \in Generation /\ run[r].born \in Generation
      /\ \A q \in Run : run[q].view \in View
  BY DEF Sound, HistoryTypeOK, ThreadRow, RunLocals
<1>2. CASE SendUserMessage(r)
  <2>1. Writes(thread.gen)
    BY <1>2 DEF SendUserMessage
  <2>2. \A q \in Run : ViewIsTold(run[q].view) => ViewIsTold(run[q].view)' \/ run'[q].view # run[q].view
    <3> SUFFICES ASSUME NEW q \in Run, ViewIsTold(run[q].view), run'[q].view = run[q].view
                 PROVE  ViewIsTold(run[q].view)'
      OBVIOUS
    <3>1. PICK v \in View : v = run[q].view
      BY <1>1
    <3>2. ViewIsTold(v)'
      BY <1>1, <2>1, <3>1, ViewStaysOnWrite
    <3>3. v = run'[q].view
      BY <3>1
    <3> QED BY <3>2, <3>3 DEF ViewIsTold, Told
  <2>3. CASE UNCHANGED run
    BY <1>1, <2>1, <2>3, ViewsWrite
  <2>4. CASE /\ run[r].status = "none"
             /\ run' = [run EXCEPT ![r].status = "active", ![r].born = thread.gen]
    <3>1. /\ run'[r].view = run[r].view /\ run'[r].status = "active"
          /\ \A q \in Run : q # r => run'[q] = run[q]
      BY <1>1, <2>4 DEF RunLocals
    <3>2. ViewIsTold(run[r].view)
      BY <2>4 DEF ViewsAreTold, ViewIsTold
    <3> QED BY <2>2, <3>1, <3>2 DEF ViewsAreTold
  <2> QED BY <1>2, <2>3, <2>4 DEF SendUserMessage
<1>3. CASE Narrate(r)
  BY <1>1, <1>3, ViewsWrite DEF Narrate
<1>4. CASE FinalizeRun(r)
  <2>1. run' = [run EXCEPT ![r] = [run[r] EXCEPT !.status = "done", !.view = NoView]]
    BY <1>4 DEF FinalizeRun
  <2>2. run'[r].status = "done" /\ \A q \in Run : q # r => run'[q] = run[q]
    BY <1>1, <2>1 DEF RunLocals
  <2>3. ASSUME NEW v \in View, ViewIsTold(v) PROVE ViewIsTold(v)'
    <3>1. Writes(run[r].born) \/ UNCHANGED <<thread, messages>>
      BY <1>4 DEF FinalizeRun
    <3> QED BY <1>1, <2>3, <3>1, ViewStaysOnWrite, ViewStays
  <2>4. ASSUME NEW q \in Run, run'[q].status = "active" PROVE ViewIsTold(run[q].view)'
    <3>1. run'[q] = run[q] /\ ViewIsTold(run[q].view)
      BY <2>2, <2>4 DEF ViewsAreTold
    <3>2. PICK v \in View : v = run[q].view
      BY <1>1
    <3>3. ViewIsTold(v)' /\ v = run'[q].view
      BY <2>3, <3>1, <3>2
    <3> QED BY <3>3 DEF ViewIsTold, Told
  <2>5. ASSUME NEW q \in Run, run'[q].status = "none"
        PROVE  ~run'[q].view.hasThread /\ ~run'[q].view.hasRecent
    BY <2>2, <2>5 DEF ViewsAreTold
  <2> QED BY <2>4, <2>5 DEF ViewsAreTold
<1>5. CASE StopRun(r)
  <2>1. /\ UNCHANGED <<thread, messages>> /\ run'[r].status = "cancelled"
        /\ \A q \in Run : q # r => run'[q] = run[q]
    BY <1>1, <1>5 DEF StopRun, RunLocals
  <2> QED BY <2>1 DEF ViewsAreTold, ViewIsTold, Told, SeqOf
<1>6. CASE ReadThread(r) \/ ReadMessages(r)
  <2>1. UNCHANGED <<thread, messages>> /\ run[r].status \in {"active", "cancelled"}
    BY <1>6 DEF ReadThread, ReadMessages
  <2>2. PICK v \in View : /\ run' = [run EXCEPT ![r].view = v]
                          /\ ViewIsTold(run[r].view) => ViewIsTold(v)
    <3> DEFINE old == run[r].view
               t == [old EXCEPT !.hasThread = TRUE, !.cursor = thread.cursor,
                                !.summary = thread.summary]
               m == [old EXCEPT !.hasRecent = TRUE, !.recent = Last(LegacySize, SeqOf(messages))]
    <3>1. CASE ReadThread(r)
      <4>1. /\ t \in View /\ t.hasRecent = old.hasRecent /\ t.recent = old.recent
            /\ t.cursor = thread.cursor /\ t.summary = thread.summary
        BY <1>1 DEF View, ThreadRow, Sound, HistoryTypeOK
      <4>2. thread.summary # {} => thread.summary = Told(thread.cursor)
        BY DEF Whole, SummaryIsToldOrLegacy, NeedsBootstrap
      <4>3. thread.cursor < thread.next
        BY DEF Whole, NumberedInOrder
      <4>4. run' = [run EXCEPT ![r].view = t]
        BY <3>1 DEF ReadThread
      <4> HIDE DEF t
      <4>5. ViewIsTold(run[r].view) => ViewIsTold(t)
        BY <4>1, <4>2, <4>3 DEF ViewIsTold
      <4> QED BY <4>1, <4>4, <4>5
    <3>2. CASE ReadMessages(r)
      <4>1. Last(LegacySize, SeqOf(messages)) \subseteq SeqOf(messages)
        BY DEF Last
      <4>2. /\ m \in View /\ m.hasThread = old.hasThread /\ m.cursor = old.cursor
            /\ m.summary = old.summary /\ m.recent = Last(LegacySize, SeqOf(messages))
        BY <1>1, <4>1, SeqsOfMessages DEF View, Sound, Text
      <4>3. run' = [run EXCEPT ![r].view = m]
        BY <3>2 DEF ReadMessages
      <4> HIDE DEF m
      <4>4. ViewIsTold(run[r].view) => ViewIsTold(m)
        BY <4>1, <4>2 DEF ViewIsTold
      <4> QED BY <4>2, <4>3, <4>4
    <3> QED BY <1>6, <3>1, <3>2
  <2>3. /\ run'[r].view = v /\ run'[r].status = run[r].status
        /\ \A q \in Run : q # r => run'[q] = run[q]
    BY <1>1, <2>2 DEF RunLocals
  <2>4. \A q \in Run : run'[q].status = "active" => ViewIsTold(run'[q].view)
    BY <2>2, <2>3 DEF ViewsAreTold
  <2>5. \A q \in Run : run'[q].status = "active" => ViewIsTold(run[q].view)'
    BY <2>1, <2>4 DEF ViewIsTold, Told, SeqOf
  <2>6. \A q \in Run : run'[q].status = "none" =>
            ~run'[q].view.hasThread /\ ~run'[q].view.hasRecent
    BY <2>1, <2>3 DEF ViewsAreTold
  <2> QED BY <2>5, <2>6 DEF ViewsAreTold
<1> QED BY <1>2, <1>3, <1>4, <1>5, <1>6 DEF RunStep

\* A clear cancels the runs that are under way, and what they have read with them.
LEMMA ViewsClear ==
    ASSUME Sound, ViewsAreTold, ClearThread
    PROVE  ViewsAreTold'
<1>1. \A r \in Run : run'[r].status # "active"
  BY ClearEffect DEF Sound
<1>2. \A r \in Run : run'[r].view = run[r].view /\ (run'[r].status = "none" => run[r].status = "none")
  BY DEF ClearThread, Sound, HistoryTypeOK, RunLocals
<1> QED BY <1>1, <1>2 DEF ViewsAreTold

LEMMA ViewsJob ==
    ASSUME Sound, ViewsAreTold, NEW j \in Job, JobStep(j)
    PROVE  ViewsAreTold'
<1>1. CASE Advance(j)
  <2>1. UNCHANGED <<messages, run>> /\ thread'.next = thread.next
    BY <1>1 DEF Advance, Sound, HistoryTypeOK, ThreadRow
  <2> QED BY <2>1, ViewsStay
<1>2. CASE ~Advance(j)
  <2>1. UNCHANGED <<messages, run, thread>>
    BY <1>2 DEF JobStep, StartCompaction, ReadBatch, Save, CheckAgain, PurgeStale, SummaryFails, Crash
  <2> QED BY <2>1, ViewsStay
<1> QED BY <1>1, <1>2

\* The run whose view is whole misses no message between its summary and the messages.
LEMMA ViewIsWhole ==
    ASSUME HistoryTypeOK, NEW v \in View, ViewIsTold(v), v.hasThread, v.hasRecent
    PROVE  /\ Context(v) \subseteq SeqOf(messages)
           /\ UsesSummary(v) => \A s \in SeqOf(messages) :
                  (\E t \in v.recent : s <= t) => s \in Context(v)
<1>1. /\ v.cursor \in Int /\ v.recent \in SUBSET Seqs /\ v.recent \subseteq SeqOf(messages)
      /\ v.summary # {} => v.summary = Told(v.cursor)
  BY NumbersOfAView DEF ViewIsTold
<1>2. Context(v) \subseteq SeqOf(messages)
  BY <1>1 DEF Context, UsesSummary, Uncompacted, Told
<1>3. ASSUME UsesSummary(v), NEW s \in SeqOf(messages), NEW t \in v.recent, s <= t
      PROVE  s \in Context(v)
  <2> DEFINE U == Uncompacted(v)
             n == Cardinality(U)
  <2>1. s \in Int /\ t \in Int
    BY <1>1, Numbers, HistoryAssumption DEF Seqs
  <2>2. Context(v) = v.summary \cup U /\ v.summary = Told(v.cursor)
    BY <1>1, <1>3 DEF Context, UsesSummary
  <2>3. CASE s <= v.cursor
    BY <2>2, <2>3 DEF Told
  <2>4. CASE ~(s <= v.cursor)
    <3>1. t \in U
      BY <1>1, <1>3, <2>1, <2>4 DEF Uncompacted
    <3>2. U = v.cursor + 1 .. v.cursor + 1 + n - 1
      BY <1>3 DEF UsesSummary, Contiguous
    <3>3. n \in Nat
      <4>1. IsFiniteSet(Seqs)
        BY HistoryAssumption, FS_Interval DEF Seqs
      <4>2. U \subseteq Seqs
        BY <1>1 DEF Uncompacted
      <4> QED BY <4>1, <4>2, FS_Subset, FS_CardinalityType
    <3>4. s \in U
      BY <1>1, <1>3, <2>1, <2>4, <3>1, <3>2, <3>3
    <3> QED BY <2>2, <3>4
  <2> QED BY <2>3, <2>4
<1> QED BY <1>2, <1>3

\* What the model of a run is shown has no gap and nothing that was cleared, as long as the
\* run may answer: the row and the messages are read apart, and a clear cancels the run.
THEOREM ContextMissesNothing == Spec => []ContextIsWhole
<1>1. Init => ViewsAreTold
  BY DEF Init, ViewsAreTold, NoView
<1>2. Sound /\ Whole /\ ViewsAreTold /\ [Next]_vars => ViewsAreTold'
  <2> SUFFICES ASSUME Sound, Whole, ViewsAreTold, [Next]_vars PROVE ViewsAreTold'
    OBVIOUS
  <2>1. ASSUME NEW gens \in SUBSET Generation, PurgeCleared(gens) PROVE ViewsAreTold'
    BY <2>1, ViewsStay DEF PurgeCleared
  <2>2. CASE UNCHANGED vars
    BY <2>2, ViewsStay DEF vars
  <2> QED BY <2>1, <2>2, ViewsJob, ViewsRun, ViewsClear DEF Next
<1>3. Sound /\ ViewsAreTold => ContextIsWhole
  <2>1. HistoryTypeOK => \A r \in Run : run[r].view \in View
    BY DEF HistoryTypeOK, RunLocals
  <2> QED BY <2>1, ViewIsWhole DEF Sound, ViewsAreTold, ContextIsWhole, Ready
<1> QED BY <1>1, <1>2, <1>3, HistoryInvariant, PTL DEF Spec

-----------------------------------------------------------------------------
(* What was cleared is purged.                                              *)

\* The job looks again, or purges, before it is through with generation g.
Returns(j, g) ==
    job[j].gen = g /\ (job[j].at = "purging" \/ (job[j].at = "checking" /\ job[j].saved))

\* While nothing has failed, what is kept of an earlier generation has a purge ahead of it:
\* that of a clear request, or that of the job that saved it.
PurgesAhead ==
    faults = 0 =>
        \A g \in Generation : g < thread.gen /\ memory[g] # {} =>
            (\E gens \in purges : g \in gens) \/ (\E j \in Job : Returns(j, g))

LEMMA FaultsOnlyGrow ==
    ASSUME HistoryTypeOK, faults' = 0
    PROVE  ~Fault /\ (UNCHANGED faults => faults = 0)
BY HistoryAssumption DEF HistoryTypeOK, Fault

LEMMA PurgesAheadStays ==
    ASSUME PurgesAhead, UNCHANGED <<memory, purges, job, faults>>, thread'.gen = thread.gen
    PROVE  PurgesAhead'
BY DEF PurgesAhead, Returns

LEMMA PurgesAheadRun ==
    ASSUME Sound, PurgesAhead, NEW r \in Run, RunStep(r)
    PROVE  PurgesAhead'
<1>1. thread.gen \in Generation /\ run[r].born \in Generation
  BY DEF Sound, HistoryTypeOK, ThreadRow, RunLocals
<1>2. thread'.gen = thread.gen
  BY <1>1, WritesEffect
  DEF Sound, RunStep, SendUserMessage, ReadThread, ReadMessages, Narrate, FinalizeRun, StopRun
<1>3. UNCHANGED <<memory, purges, job, faults>>
  BY DEF RunStep, SendUserMessage, ReadThread, ReadMessages, Narrate, FinalizeRun, StopRun
<1> QED BY <1>2, <1>3, PurgesAheadStays

LEMMA PurgesAheadClear ==
    ASSUME Sound, PurgesAhead, ClearThread
    PROVE  PurgesAhead'
<1>1. thread'.gen = thread.gen + 1 /\ thread.gen \in Int
  BY ClearEffect, Numbers DEF Sound
<1>2. /\ UNCHANGED <<memory, job, faults>> /\ purges \subseteq purges'
      /\ \E gens \in purges' : thread.gen \in gens
  BY DEF ClearThread
<1>3. \A g \in Generation : g < thread.gen + 1 => g < thread.gen \/ g = thread.gen
  BY <1>1 DEF Generation
<1> QED BY <1>1, <1>2, <1>3 DEF PurgesAhead, Returns

LEMMA PurgesAheadPurge ==
    ASSUME Sound, PurgesAhead, NEW gens \in SUBSET Generation, PurgeCleared(gens)
    PROVE  PurgesAhead'
<1> SUFFICES ASSUME faults' = 0 PROVE PurgesAhead'
  BY DEF PurgesAhead
<1>1. /\ memory' = Purged(gens) /\ faults = 0 /\ UNCHANGED <<thread, job>>
      /\ purges' = purges \ {gens}
  BY FaultsOnlyGrow DEF PurgeCleared, Sound
<1>2. ASSUME NEW g \in Generation, g < thread.gen, memory'[g] # {}
      PROVE  (\E x \in purges' : g \in x) \/ (\E j \in Job : Returns(j, g)')
  <2>1. g \notin gens /\ memory[g] # {}
    BY <1>1, <1>2 DEF Purged
  <2>2. (\E x \in purges : g \in x) \/ (\E j \in Job : Returns(j, g))
    BY <1>1, <1>2, <2>1 DEF PurgesAhead
  <2> QED BY <1>1, <2>1, <2>2 DEF Returns
<1> QED BY <1>1, <1>2 DEF PurgesAhead

\* The other jobs, when one has moved.
LEMMA OthersReturn ==
    ASSUME HistoryTypeOK, NEW j \in Job, NEW x, job' = [job EXCEPT ![j] = x]
    PROVE  /\ job'[j] = x
           /\ \A i \in Job \ {j}, g \in Generation : Returns(i, g) => Returns(i, g)'
BY DEF HistoryTypeOK, Returns

\* A job moves that has nothing to purge, or goes on to purge it.
LEMMA PurgesAheadMove ==
    ASSUME Sound, PurgesAhead, NEW j \in Job, NEW x, job' = [job EXCEPT ![j] = x],
           UNCHANGED <<memory, purges>>, thread'.gen = thread.gen, faults' = 0 => faults = 0,
           faults = 0 => \A g \in Generation : g < thread.gen /\ Returns(j, g) => Returns(j, g)'
    PROVE  PurgesAhead'
<1>1. \A i \in Job \ {j}, g \in Generation : Returns(i, g) => Returns(i, g)'
  BY OthersReturn DEF Sound
<1> SUFFICES ASSUME faults' = 0, NEW g \in Generation, g < thread.gen, memory'[g] # {}
             PROVE  (\E gens \in purges' : g \in gens) \/ (\E i \in Job : Returns(i, g)')
  BY DEF PurgesAhead
<1>2. (\E gens \in purges : g \in gens) \/ (\E i \in Job : Returns(i, g))
  BY DEF PurgesAhead
<1>3. ASSUME NEW i \in Job, Returns(i, g) PROVE Returns(i, g)'
  BY <1>1, <1>3
<1> QED BY <1>2, <1>3

LEMMA PurgesAheadJob ==
    ASSUME Sound, PurgesAhead, NEW j \in Job, JobStep(j)
    PROVE  PurgesAhead'
<1> SUFFICES ASSUME faults' = 0 PROVE PurgesAhead'
  BY DEF PurgesAhead
<1>0. job \in [Job -> JobLocals] /\ thread \in ThreadRow
  BY DEF Sound, HistoryTypeOK
<1>1. CASE StartCompaction(j) \/ ReadBatch(j) \/ SummaryFails(j)
  <2>1. PICK x : job' = [job EXCEPT ![j] = x]
    <3>1. CASE StartCompaction(j)
      BY <3>1 DEF StartCompaction
    <3>2. CASE ReadBatch(j)
      <4>1. Exit(j) \/ \E S : job' = [job EXCEPT ![j] = [job[j] EXCEPT !.at = "summarizing",
                                                                     !.batch = S]]
        BY <3>2 DEF ReadBatch
      <4> QED BY <4>1 DEF Exit
    <3>3. CASE SummaryFails(j)
      BY <3>3 DEF SummaryFails, Exit
    <3> QED BY <1>1, <3>1, <3>2, <3>3
  <2>2. UNCHANGED <<memory, purges, thread>> /\ faults = 0 /\ \A g : ~Returns(j, g)
    BY <1>1, FaultsOnlyGrow DEF StartCompaction, ReadBatch, SummaryFails, Returns, Sound
  <2> QED BY <2>1, <2>2, PurgesAheadMove
<1>2. CASE Advance(j)
  <2>1. PICK x : job' = [job EXCEPT ![j] = x]
    <3>1. Exit(j) \/ job' = [job EXCEPT ![j] = [job[j] EXCEPT !.at = "saving"]]
      BY <1>2 DEF Advance
    <3> QED BY <3>1 DEF Exit
  <2>2. UNCHANGED <<memory, purges, faults>> /\ thread'.gen = thread.gen /\ \A g : ~Returns(j, g)
    BY <1>2, AdvanceEffect DEF Advance, Returns
  <2> QED BY <2>1, <2>2, PurgesAheadMove
<1>3. CASE Save(j)
  <2> DEFINE x == [job[j] EXCEPT !.at = "checking", !.saved = TRUE]
             text == job[j].summary \cup job[j].batch
  <2>1. /\ memory' = [memory EXCEPT ![job[j].gen] = @ \cup {text}] /\ job' = [job EXCEPT ![j] = x]
        /\ UNCHANGED <<thread, purges>> /\ faults = 0 /\ job[j].at = "saving"
    <3>1. faults = 0 /\ ~Fault
      BY <1>3, FaultsOnlyGrow DEF Save, Sound
    <3> QED BY <1>3, <3>1 DEF Save, FiledUnder
  <2>2. x.at = "checking" /\ x.saved /\ x.gen = job[j].gen
    <3>1. x.at = "checking" /\ x.saved = TRUE /\ x.gen = job[j].gen
      BY <1>0 DEF JobLocals
    <3> QED BY <3>1
  <2> HIDE DEF x, text
  <2>3. \A g \in Generation : g = job[j].gen => Returns(j, g)'
    BY <2>1, <2>2, OthersReturn DEF Returns, Sound
  <2>4. ASSUME NEW g \in Generation, g < thread.gen, memory'[g] # {}, g # job[j].gen
        PROVE  (\E gens \in purges' : g \in gens) \/ (\E i \in Job : Returns(i, g)')
    <3>1. memory[g] # {}
      BY <2>1, <2>4 DEF Sound, HistoryTypeOK
    <3>2. (\E gens \in purges : g \in gens) \/ (\E i \in Job \ {j} : Returns(i, g))
      BY <2>1, <2>4, <3>1 DEF PurgesAhead, Returns
    <3> QED BY <2>1, <3>2, OthersReturn DEF Sound
  <2> QED BY <2>1, <2>3, <2>4 DEF PurgesAhead
<1>4. CASE CheckAgain(j)
  <2>1. UNCHANGED <<memory, purges, thread, faults>> /\ job[j].at = "checking"
    BY <1>4 DEF CheckAgain
  <2>2. CASE Stale(j)
    <3> DEFINE x == [job[j] EXCEPT !.at = "purging", !.due = Due(thread)]
    <3>1. job' = [job EXCEPT ![j] = x]
      BY <1>4, <2>2 DEF CheckAgain
    <3>2. x.at = "purging" /\ x.gen = job[j].gen
      BY <1>0 DEF JobLocals
    <3> HIDE DEF x
    <3>3. \A g \in Generation : Returns(j, g) => Returns(j, g)'
      BY <3>1, <3>2, OthersReturn DEF Returns, Sound
    <3> QED BY <2>1, <3>1, <3>3, PurgesAheadMove
  <2>3. CASE ~Stale(j)
    <3>1. job' = [job EXCEPT ![j] = NoJob]
      BY <1>4, <2>3 DEF CheckAgain, Exit
    <3>2. \A g \in Generation : g < thread.gen => ~Returns(j, g)
      BY <2>1, <2>3, Numbers DEF Stale, Returns, Sound
    <3> QED BY <2>1, <3>1, <3>2, PurgesAheadMove
  <2> QED BY <2>2, <2>3
<1>5. CASE PurgeStale(j)
  <2>1. /\ memory' = Purged({job[j].gen}) /\ job' = [job EXCEPT ![j] = NoJob]
        /\ UNCHANGED <<thread, purges>> /\ faults = 0
    BY <1>5, FaultsOnlyGrow DEF PurgeStale, Exit, Sound
  <2>2. ASSUME NEW g \in Generation, g < thread.gen, memory'[g] # {}
        PROVE  (\E gens \in purges' : g \in gens) \/ (\E i \in Job : Returns(i, g)')
    <3>1. memory[g] # {} /\ g # job[j].gen
      BY <2>1, <2>2 DEF Purged
    <3>2. (\E gens \in purges : g \in gens) \/ (\E i \in Job \ {j} : Returns(i, g))
      BY <2>1, <2>2, <3>1 DEF PurgesAhead, Returns
    <3> QED BY <2>1, <3>2, OthersReturn DEF Sound
  <2> QED BY <2>1, <2>2 DEF PurgesAhead
<1>6. CASE Crash(j)
  BY <1>6, FaultsOnlyGrow DEF Crash, Sound
<1> QED BY <1>1, <1>2, <1>3, <1>4, <1>5, <1>6 DEF JobStep

\* Once the requests and jobs are through and the external memory answered them all, it
\* keeps nothing of an earlier generation: a save that arrives after the purge of the clear
\* is purged by the job that made it.
THEOREM NothingClearedIsKept == Spec => []ClearedIsPurged
<1>1. Init => PurgesAhead
  <2> SUFFICES ASSUME Init PROVE PurgesAhead
    OBVIOUS
  <2>1. \A g \in Generation : memory[g] = {}
    BY DEF Init
  <2> QED BY <2>1 DEF PurgesAhead
<1>2. Sound /\ PurgesAhead /\ [Next]_vars => PurgesAhead'
  <2> SUFFICES ASSUME Sound, PurgesAhead, [Next]_vars PROVE PurgesAhead'
    OBVIOUS
  <2>1. CASE UNCHANGED vars
    BY <2>1, PurgesAheadStays DEF vars
  <2> QED BY <2>1, PurgesAheadJob, PurgesAheadRun, PurgesAheadClear, PurgesAheadPurge DEF Next
<1>3. PurgesAhead => ClearedIsPurged
  BY DEF PurgesAhead, ClearedIsPurged, Returns
<1> QED BY <1>1, <1>2, <1>3, HistoryInvariant, PTL DEF Spec

=============================================================================
