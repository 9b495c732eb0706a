------------------------------ MODULE Teaching ------------------------------
(***************************************************************************)
(* A teaching session: the user shows a task on the bot's computer, the    *)
(* inputs are recorded, and when the session is stopped or expires the     *)
(* recording becomes a draft skill whose card appears in the bot's thread. *)
(* Requests and the expiry job finish a session concurrently, and any of   *)
(* them may die after any step.  Screen control is ComputerControl's.      *)
(***************************************************************************)
EXTENDS Integers, Sequences, FiniteSets

CONSTANTS
  Skill,         \* the taught skills of one bot
  Proc,          \* requests in progress and running expiry jobs
  MessageWindow, \* bot messages a lookup of a draft card reads, newest first
  EventWindow,   \* draft events a lookup reads, in no order
  MaxInputs,     \* bound: inputs recorded per skill
  MaxRequests,   \* bound: requests made
  MaxUpsets      \* bound: processes that die, messages of others, cleared threads

ASSUME TeachingAssumption ==
  /\ IsFiniteSet(Skill) /\ IsFiniteSet(Proc)
  /\ MessageWindow \in Nat \ {0} /\ EventWindow \in Nat \ {0}
  /\ MaxInputs \in Nat /\ MaxRequests \in Nat /\ MaxUpsets \in Nat

VARIABLES
  skill,    \* the taught_skills rows
  late,     \* skills whose expiresAt has passed
  timer,    \* skills whose expiry job is in the table
  cards,    \* the thread's bot messages: draft cards by skill, and Other
  drafted,  \* skill.draft.created events in the thread: <<skill, n>>, n of its earlier ones
  stopped,  \* history: skill.teaching.stopped events ever appended, by skill
  posted,   \* history: skills whose card was ever in the thread
  told,     \* history: inputs answered "recorded", by skill
  proc,     \* where each process is
  requests, upsets

vars == <<skill, late, timer, cards, drafted, posted, stopped, told, proc, requests, upsets>>
rows == <<skill, stopped, told>>
shown == <<cards, drafted, posted>>
budget == <<requests, upsets>>

Other == "other"
Idle == [pc |-> "idle"]
\* inputs and snapshots in the recording, and those the playbook was built from.
NoSkill == [status |-> "absent", inputs |-> 0, playbook |-> 0, edited |-> FALSE]
Finished == {"draft", "saved"}

Init ==
  /\ skill = [s \in Skill |-> NoSkill]
  /\ late = {} /\ timer = {}
  /\ cards = <<>> /\ drafted = {} /\ posted = {}
  /\ stopped = [s \in Skill |-> 0] /\ told = [s \in Skill |-> 0]
  /\ proc = [p \in Proc |-> Idle]
  /\ requests = 0 /\ upsets = 0

At(p, pc) == proc[p].pc = pc
My(p) == proc[p].skill
HandlesSkill(p, s) == ~At(p, "idle") /\ My(p) = s
Goto(p, pc) == proc' = [proc EXCEPT ![p].pc = pc]
Ends(p) == proc' = [proc EXCEPT ![p] = Idle]
Begins(p, pc, s, call) ==
  proc' = [proc EXCEPT ![p] = [pc |-> pc, skill |-> s, call |-> call, saw |-> skill[s].status]]
Request(p) == At(p, "idle") /\ requests < MaxRequests /\ requests' = requests + 1 /\ UNCHANGED upsets
Upset == upsets < MaxUpsets /\ upsets' = upsets + 1 /\ UNCHANGED requests
Status(s) == skill[s].status
Exists(s) == Status(s) \notin {"absent", "deleted"}

Recording == {s \in Skill : Status(s) = "recording"}

-----------------------------------------------------------------------------
\* start: a first look for another session, then the takeover of the screen.
Starts(p, s) ==
  /\ Request(p) /\ Status(s) = "absent" /\ Recording = {}
  /\ \A q \in Proc : ~HandlesSkill(q, s)  \* the id is new
  /\ Begins(p, "starting", s, "start")
  /\ UNCHANGED <<rows, late, timer, shown>>

AnyConflict == TRUE
Unconflicted == Recording = {}

\* The row, under the bot's row lock, unless another session began meanwhile.
StartCreates(p) ==
  /\ At(p, "starting")
  /\ IF Unconflicted
     THEN skill' = [skill EXCEPT ![My(p)] = [NoSkill EXCEPT !.status = "recording"]]
          /\ Goto(p, "scheduling")
     ELSE Ends(p) /\ UNCHANGED skill
  /\ UNCHANGED <<late, timer, shown, stopped, told, budget>>

\* The expiry job, then the first snapshot.
StartSchedules(p) ==
  /\ At(p, "scheduling")
  /\ timer' = timer \cup {My(p)}
  /\ Goto(p, "snapshot")
  /\ UNCHANGED <<rows, late, shown, budget>>

RecordsAnyway(s) == Exists(s)
StillRecording(s) == skill[s].status = "recording" /\ s \notin late

Recorded(s) == [skill EXCEPT ![s].inputs = @ + 1]

\* captureTeachingSnapshot: the screen was observed; the row is locked and checked again.
Snapshots(p) ==
  /\ At(p, "snapshot")
  /\ skill' = IF StillRecording(My(p)) THEN Recorded(My(p)) ELSE skill
  /\ Ends(p)
  /\ UNCHANGED <<late, timer, shown, stopped, told, budget>>

\* recordTeachingInputEvent: the session is read and checked, the input is applied to the
\* screen with no lock held, then it is recorded under the row lock if the session goes on.
InputReads(p, s) ==
  /\ Request(p) /\ Status(s) = "recording" /\ skill[s].inputs < MaxInputs
  /\ Begins(p, IF s \in late THEN "expiring" ELSE "input", s, "input")
  /\ UNCHANGED <<rows, late, timer, shown>>

InputRecords(p) ==
  LET s == My(p) IN
  /\ At(p, "input")
  /\ IF StillRecording(s)
     THEN /\ skill' = Recorded(s) /\ told' = [told EXCEPT ![s] = @ + 1] /\ Ends(p)
     ELSE /\ UNCHANGED <<skill, told>>
          /\ IF Status(s) = "recording" THEN Goto(p, "expiring") ELSE Ends(p)
  /\ UNCHANGED <<late, timer, shown, stopped, budget>>

-----------------------------------------------------------------------------
\* get, appendEvent and stop first expire the session if it is time; the job does only that.
Gets(p, s) ==
  /\ Request(p) /\ Exists(s)
  /\ Begins(p, "expiring", s, "get")
  /\ UNCHANGED <<rows, late, timer, shown>>

Stops(p, s) ==
  /\ Request(p) /\ Exists(s)
  /\ Begins(p, "expiring", s, "stop")
  /\ UNCHANGED <<rows, late, timer, shown>>

JobFires(p, s) ==
  /\ At(p, "idle") /\ s \in timer /\ s \in late
  /\ \A q \in Proc : ~(HandlesSkill(q, s) /\ proc[q].call = "job")
  /\ Begins(p, "expiring", s, "job")
  /\ UNCHANGED <<rows, late, timer, shown, budget>>

\* A returning expireTaughtSkillTeaching: stop reads the row again, a job is done.
Returns(p) ==
  /\ IF proc[p].call = "stop" THEN Goto(p, "stopping") ELSE Ends(p)
  /\ timer' = IF proc[p].call = "job" THEN timer \ {My(p)} ELSE timer

\* A finished session whose card may be missing, and the mutant that takes it for done.
TakenForDone(status) == FALSE
MayLackCard(status) == status = "draft"

\* The row is read once; a draft is published again, a late recording is finalized.
ExpireReads(p) ==
  LET s == My(p) IN
  /\ At(p, "expiring")
  /\ \/ MayLackCard(Status(s)) /\ Goto(p, "showing") /\ UNCHANGED timer
     \/ Status(s) = "recording" /\ s \in late /\ Goto(p, "finalizing") /\ UNCHANGED timer
     \/ ~MayLackCard(Status(s)) /\ ~(Status(s) = "recording" /\ s \in late) /\ Returns(p)
  /\ UNCHANGED <<rows, late, shown, budget>>

StopReads(p) ==
  /\ At(p, "stopping")
  /\ IF Status(My(p)) = "recording" THEN Goto(p, "finalizing") ELSE Ends(p)
  /\ UNCHANGED <<rows, late, timer, shown, budget>>

AnyStatus(s) == Exists(s)
Finalizable(s) == skill[s].status = "recording"

\* finalizeTeachingRecording: under the row lock the snapshot is added, the playbook is
\* built, the status flips and the stopped event is appended.  The second caller finds a
\* draft, and publishes it too; a deleted row makes it throw.
Finalizes(p) ==
  LET s == My(p) IN
  /\ At(p, "finalizing")
  /\ IF Finalizable(s)
     THEN /\ skill' = [skill EXCEPT ![s].status = "draft", ![s].inputs = @ + 1,
                                    ![s].playbook = skill[s].inputs + 1]
          /\ stopped' = [stopped EXCEPT ![s] = @ + 1]
          /\ Goto(p, "publishing")
     ELSE /\ UNCHANGED <<skill, stopped>>
          /\ CASE Status(s) = "draft" -> Goto(p, "publishing")
               [] Status(s) = "saved" -> Goto(p, "cancelling")
               [] OTHER -> Ends(p)
  /\ UNCHANGED <<late, timer, shown, told, budget>>

\* findSkillDraftMessage reads the newest MessageWindow bot messages.
NeverFinds(s) == FALSE
FindsCard(s) ==
  \E i \in DOMAIN cards : i > Len(cards) - MessageWindow /\ cards[i] = s

DraftEvents(s) == {e \in drafted : e[1] = s}

\* hasSkillDraftCreatedEvent reads EventWindow draft events of the thread, any of them.
FindsEvent(s, found) ==
  IF found THEN DraftEvents(s) # {}
  ELSE DraftEvents(s) = {} \/ Cardinality(drafted \ DraftEvents(s)) >= EventWindow

NextDraftEvent(s) == <<s, Cardinality(DraftEvents(s))>>

\* emitSkillDraftMessages: under the row lock, whatever the row became since it was read,
\* the card unless it is there, then its events unless they are there.
Shows(p) ==
  LET s == My(p) IN
  /\ proc[p].pc \in {"showing", "publishing"}
  /\ cards' = IF FindsCard(s) THEN cards ELSE Append(cards, s)
  /\ posted' = posted \cup {s}
  /\ \E found \in BOOLEAN :
       /\ FindsEvent(s, found)
       /\ drafted' = IF found THEN drafted ELSE drafted \cup {NextDraftEvent(s)}
  /\ IF At(p, "showing") THEN Returns(p) ELSE Goto(p, "cancelling") /\ UNCHANGED timer
  /\ UNCHANGED <<rows, late, budget>>

\* The expiry job is cancelled last.
Cancels(p) ==
  /\ At(p, "cancelling")
  /\ timer' = timer \ {My(p)}
  /\ Ends(p)
  /\ UNCHANGED <<rows, late, shown, budget>>

-----------------------------------------------------------------------------
Saves(p, s) ==
  /\ Request(p) /\ Status(s) \in Finished
  /\ skill' = [skill EXCEPT ![s].status = "saved"]
  /\ UNCHANGED <<late, timer, shown, stopped, told, proc>>

\* updateDraft writes back the status it read.
EditReads(p, s) ==
  /\ Request(p) /\ Status(s) \in Finished
  /\ Begins(p, "editing", s, "edit")
  /\ UNCHANGED <<rows, late, timer, shown>>

EditWrites(p) ==
  LET s == My(p) IN
  /\ At(p, "editing") /\ Ends(p)
  /\ skill' = IF Exists(s) THEN [skill EXCEPT ![s].status = proc[p].saw, ![s].edited = TRUE]
              ELSE skill
  /\ UNCHANGED <<late, timer, shown, stopped, told, budget>>

\* remove cancels the timer of a recording and deletes the row, in two steps.
RemoveReads(p, s) ==
  /\ Request(p) /\ Exists(s)
  /\ timer' = IF Status(s) = "recording" THEN timer \ {s} ELSE timer
  /\ Begins(p, "removing", s, "remove")
  /\ UNCHANGED <<rows, late, shown>>

RemoveDeletes(p) ==
  /\ At(p, "removing") /\ Ends(p)
  /\ skill' = [skill EXCEPT ![My(p)].status = "deleted"]
  /\ UNCHANGED <<late, timer, shown, stopped, told, budget>>

TimePasses(s) ==
  /\ Exists(s) /\ s \notin late
  /\ late' = late \cup {s}
  /\ UNCHANGED <<rows, timer, shown, proc, budget>>

\* The process of a request or of a worker dies; a worker's job stays in the table.
Dies(p) == ~At(p, "idle") /\ Upset /\ Ends(p) /\ UNCHANGED <<rows, late, timer, shown>>

OthersPost == Upset /\ cards' = Append(cards, Other) /\ UNCHANGED <<rows, late, timer, drafted, posted, proc>>

ClearThread ==
  /\ Upset
  /\ cards' = <<>> /\ drafted' = {}
  /\ UNCHANGED <<rows, late, timer, posted, proc>>

Step(p) ==
  \/ StartCreates(p) \/ StartSchedules(p) \/ Snapshots(p) \/ InputRecords(p)
  \/ ExpireReads(p) \/ StopReads(p) \/ Finalizes(p) \/ Shows(p) \/ Cancels(p)
  \/ EditWrites(p) \/ RemoveDeletes(p)

Requested(p) ==
  \E s \in Skill : \/ Starts(p, s) \/ InputReads(p, s) \/ Gets(p, s) \/ Stops(p, s)
                   \/ Saves(p, s) \/ EditReads(p, s) \/ RemoveReads(p, s)

Next ==
  \/ \E p \in Proc : Requested(p) \/ Step(p) \/ Dies(p) \/ \E s \in Skill : JobFires(p, s)
  \/ \E s \in Skill : TimePasses(s)
  \/ OthersPost \/ ClearThread

\* A process that does not die goes on, time passes, a due job is run.
Fairness ==
  /\ \A p \in Proc : WF_vars(Step(p))
  /\ \A s \in Skill : WF_vars(TimePasses(s)) /\ WF_vars(\E p \in Proc : JobFires(p, s))

Spec == Init /\ [][Next]_vars
FairSpec == Spec /\ Fairness

-----------------------------------------------------------------------------
(* Properties *)

\* The rows and the processes have their types, and however two starts interleave, one
\* session of the bot records at a time.
TeachTypeOK ==
  /\ \A s \in Skill :
       /\ Status(s) \in {"absent", "recording", "deleted"} \cup Finished
       /\ {skill[s].inputs, skill[s].playbook, stopped[s], told[s]} \subseteq Nat
       /\ skill[s].edited \in BOOLEAN
  /\ late \subseteq Skill /\ timer \subseteq Skill /\ drafted \subseteq Skill \X Nat
  /\ \A i \in DOMAIN cards : cards[i] \in Skill \cup {Other}
  /\ Cardinality(Recording) <= 1

\* A stop and an expiry that finish the session at once append one stopped event, and
\* every input the user was told was recorded, or that is in the recording, is in the
\* playbook: finalizeTeachingRecording and recordTeachingInputEvent exclude each other.
PlaybookIsWhole ==
  \A s \in Skill :
    /\ stopped[s] <= 1 /\ (Status(s) \in Finished => stopped[s] = 1)
    /\ told[s] <= skill[s].inputs
    /\ Status(s) \in Finished => skill[s].playbook = skill[s].inputs

\* The rows and processes are in order, and no finished recording misses an input.
TeachInv == TeachTypeOK /\ PlaybookIsWhole

\* Requests and jobs that publish the same draft leave one card and one draft event of it
\* in the thread, as far as the lookups of emitSkillDraftMessages see.
ShownOnce ==
  /\ Len(cards) <= MessageWindow =>
       \A i, j \in DOMAIN cards : (i # j /\ cards[i] # Other) => cards[i] # cards[j]
  /\ Cardinality(drafted) <= EventWindow => \A d, e \in drafted : d[1] = e[1] => d = e

\* Whoever dies between finishing the session and publishing its card, the card appears:
\* the expiry job is cancelled last and takes a draft row for unfinished work.
DraftIsShown ==
  \A s \in Skill :
    (Status(s) = "draft" /\ s \in timer) ~> (Status(s) # "draft" \/ s \in posted)
=============================================================================
