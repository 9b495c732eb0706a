---------------------------- MODULE TeachingProofs ----------------------------
(***************************************************************************)
(* Proofs about Teaching, for every number of skills and processes and     *)
(* every bound: one session records at a time, a finished recording misses *)
(* no input, and a draft is shown once.                                    *)
(***************************************************************************)
EXTENDS Teaching, FiniteSetTheorems, TLAPS

Statuses == {"absent", "recording", "deleted"} \cup Finished
Row == [status : Statuses, inputs : Nat, playbook : Nat, edited : BOOLEAN]
Stages == {"starting", "scheduling", "snapshot", "input", "expiring", "stopping", "showing",
           "finalizing", "publishing", "cancelling", "editing", "removing"}
Calls == {"start", "input", "get", "stop", "job", "edit", "remove"}
ProcRow == [pc : Stages, skill : Skill, call : Calls, saw : Statuses]

\* The draft events of the thread, each the n-th of its skill.
EventSets == {D \in SUBSET (Skill \X Nat) : IsFiniteSet(D)}

Rows ==
  /\ skill \in [Skill -> Row]
  /\ late \subseteq Skill /\ timer \subseteq Skill
  /\ cards \in Seq(Skill \cup {Other})
  /\ drafted \in EventSets /\ stopped \in [Skill -> Nat] /\ told \in [Skill -> Nat]
  /\ proc \in [Proc -> {Idle} \cup ProcRow]

\* What the row of a skill and the history of its recording have to do with each other.
SkillOK(s) ==
  /\ stopped[s] <= 1 /\ told[s] <= skill[s].inputs
  /\ Status(s) = "absent" => told[s] = 0
  /\ Status(s) \in {"absent", "recording"} => stopped[s] = 0
  /\ Status(s) \in Finished => stopped[s] = 1 /\ skill[s].playbook = skill[s].inputs

\* A process that is not about to create a row has found one; an edit found it finished.
ProcOK(p) ==
  /\ At(p, "starting") => Status(My(p)) = "absent"
  /\ ~At(p, "idle") /\ ~At(p, "starting") => Status(My(p)) # "absent"
  /\ At(p, "editing") => proc[p].saw \in Finished /\ Status(My(p)) \in Finished \cup {"deleted"}

\* The id of a new session is known to the request that creates it alone.
StartsAlone(p) == At(p, "starting") => \A q \in Proc \ {p} : ~HandlesSkill(q, My(p))

TeachIInv ==
  /\ Rows
  /\ \A s \in Skill : SkillOK(s)
  /\ \A s \in timer : Status(s) # "absent"
  /\ \A p \in Proc : ProcOK(p) /\ StartsAlone(p)
  /\ Cardinality(Recording) <= 1

\* How a step of p may move the status of s.
MovesTo(p, s, status) ==
  \/ status = Status(s)
  \/ Status(s) # "absent" /\ status = "deleted"
  \/ Status(s) = "recording" /\ status = "draft"
  \/ Status(s) \in Finished /\ status \in Finished
  \/ /\ Status(s) = "absent" /\ status = "recording"
     /\ Recording = {} /\ At(p, "starting") /\ My(p) = s

StatusMove(p, s) == MovesTo(p, s, skill'[s].status)

-----------------------------------------------------------------------------
(* What a step has to show.                                                *)

LEMMA NoEvents == {} \in EventSets
  BY FS_EmptySet DEF EventSets

\* One more draft event of s leaves finitely many.
LEMMA EventAdded ==
  ASSUME drafted \in EventSets, NEW s \in Skill
  PROVE  /\ NextDraftEvent(s) \in Skill \X Nat
         /\ drafted \cup {NextDraftEvent(s)} \in EventSets
<1>1. drafted \subseteq Skill \X Nat /\ IsFiniteSet(drafted)
  BY DEF EventSets
<1>2. IsFiniteSet(DraftEvents(s))
  BY <1>1, FS_Subset DEF DraftEvents
<1>3. NextDraftEvent(s) \in Skill \X Nat
  BY <1>2, FS_CardinalityType DEF NextDraftEvent
<1>4. IsFiniteSet(drafted \cup {NextDraftEvent(s)})
  BY <1>1, FS_AddElement
<1> QED BY <1>1, <1>3, <1>4 DEF EventSets

\* A process that is not idle has a row.
LEMMA BusyHasRow ==
  ASSUME Rows, NEW p \in Proc, ~At(p, "idle")
  PROVE  proc[p] \in ProcRow /\ My(p) \in Skill
<1>1. proc[p] \in ProcRow
  BY DEF Rows, At, Idle
<1> QED BY <1>1 DEF ProcRow, My

\* The sessions that record are at most one after a step that starts none beside another.
LEMMA OneRecords ==
  ASSUME TeachIInv, NEW p \in Proc, NEW s \in Skill, StatusMove(p, s),
         \A t \in Skill \ {s} : skill'[t] = skill[t]
  PROVE  Cardinality(Recording') <= 1
<1>1. IsFiniteSet(Recording)
  BY FS_Subset, TeachingAssumption DEF Recording
<1>2. CASE Recording' \subseteq Recording
  <2>1. IsFiniteSet(Recording') /\ Cardinality(Recording') <= Cardinality(Recording)
    BY <1>1, <1>2, FS_Subset
  <2> QED BY <2>1, <1>1, FS_CardinalityType DEF TeachIInv
<1>3. CASE ~(Recording' \subseteq Recording)
  <2>1. PICK t \in Recording' : t \notin Recording
    BY <1>3
  <2>2. t \in Skill /\ skill'[t].status = "recording" /\ Status(t) # "recording"
    BY <2>1 DEF Recording, Status
  <2>3. t = s
    BY <2>2 DEF Status
  <2>4. Recording = {}
    BY <2>2, <2>3 DEF StatusMove, MovesTo, Finished
  <2>5. \A u \in Recording' : u = s
    BY <2>4 DEF Recording, Status
  <2>6. Recording' = {s}
    BY <2>1, <2>3, <2>5
  <2>7. Cardinality(Recording') = 1
    BY <2>6, FS_Singleton
  <2> QED BY <2>7
<1> QED BY <1>2, <1>3

\* A step of p that touches the row of s alone, moves its status as the code may, and
\* leaves p and s in order leaves everything in order.
LEMMA StepKeeps ==
  ASSUME TeachIInv, NEW p \in Proc, NEW s \in Skill, Rows', StatusMove(p, s),
         \A t \in Skill \ {s} :
            skill'[t] = skill[t] /\ stopped'[t] = stopped[t] /\ told'[t] = told[t],
         SkillOK(s)', \A t \in timer' : Status(t)' # "absent",
         \A q \in Proc \ {p} : proc'[q] = proc[q],
         ProcOK(p)', StartsAlone(p)'
  PROVE  TeachIInv'
<1>1. ASSUME NEW t \in Skill PROVE SkillOK(t)'
  <2>1. CASE t = s
    BY <2>1
  <2>2. CASE t # s
    <3>1. SkillOK(t) /\ skill'[t] = skill[t] /\ stopped'[t] = stopped[t] /\ told'[t] = told[t]
      BY <2>2 DEF TeachIInv
    <3> QED BY <3>1 DEF SkillOK, Status
  <2> QED BY <2>1, <2>2
<1>2. ASSUME NEW q \in Proc \ {p} PROVE ProcOK(q)' /\ StartsAlone(q)'
  <2>0. proc'[q] = proc[q] /\ ProcOK(q) /\ StartsAlone(q)
    BY DEF TeachIInv
  <2>1. CASE At(q, "idle")
    BY <2>0, <2>1 DEF ProcOK, StartsAlone, At
  <2>2. CASE ~At(q, "idle")
    <3>1. My(q) \in Skill /\ My(q)' = My(q)
      BY <2>0, <2>2, BusyHasRow DEF TeachIInv, My
    <3>2. ASSUME My(q) # s PROVE ProcOK(q)'
      <4>1. Status(My(q))' = Status(My(q))
        BY <3>1, <3>2 DEF Status
      <4>2. ProcOK(q)'
        BY <2>0, <3>1, <4>1 DEF ProcOK, At
      <4> QED BY <4>2
    <3>3. ASSUME My(q) = s PROVE ProcOK(q)'
      <4>1. ~(At(p, "starting") /\ My(p) = s)
        BY <3>3, <2>2 DEF TeachIInv, StartsAlone, HandlesSkill
      <4>2. CASE At(q, "starting")
        <5>1. Status(s) = "absent"
          BY <2>0, <3>3, <4>2 DEF ProcOK
        <5>2. Status(My(q))' = "absent"
          BY <5>1, <4>1, <3>1, <3>3 DEF StatusMove, MovesTo, Status, Finished
        <5> QED BY <5>2, <4>2, <2>0 DEF ProcOK, At
      <4>3. CASE ~At(q, "starting")
        <5>1. Status(s) # "absent" /\ Status(My(q))' = Status(s)'
          BY <2>0, <2>2, <3>1, <3>3, <4>3 DEF ProcOK, Status
        <5>2. Status(s)' # "absent"
          BY <5>1 DEF StatusMove, MovesTo, Status, Finished
        <5>3. Status(s) \in Finished \cup {"deleted"} => Status(s)' \in Finished \cup {"deleted"}
          BY DEF StatusMove, MovesTo, Status, Finished
        <5>4. ProcOK(q)'
          BY <5>1, <5>2, <5>3, <4>3, <3>3, <2>0 DEF ProcOK, At
        <5> QED BY <5>4
      <4> QED BY <4>2, <4>3
    <3>4. StartsAlone(q)'
      <4>1. SUFFICES ASSUME At(q, "starting") PROVE \A r \in Proc \ {q} : ~HandlesSkill(r, My(q))'
        BY <2>0, <3>1 DEF StartsAlone, At, HandlesSkill
      <4>2. ASSUME NEW r \in Proc \ {q, p} PROVE ~HandlesSkill(r, My(q))'
        BY <2>0, <4>1, <4>2, <3>1 DEF StartsAlone, HandlesSkill, At, My
      <4>3. ~HandlesSkill(p, My(q))'
        <5>1. CASE At(p, "starting")'
          BY <5>1, <2>0, <2>2, <3>1 DEF StartsAlone, HandlesSkill, At, My
        <5>2. CASE ~At(p, "starting")'
          <6>0. ProcOK(q)'
            BY <3>2, <3>3
          <6>1. Status(My(q))' = "absent"
            BY <6>0, <4>1, <2>0 DEF ProcOK, At
          <6> QED BY <5>2, <6>1 DEF ProcOK, HandlesSkill
        <5> QED BY <5>1, <5>2
      <4> QED BY <4>2, <4>3
    <3>5. ProcOK(q)'
      BY <3>2, <3>3
    <3> QED BY <3>4, <3>5
  <2> QED BY <2>1, <2>2
<1>3. Cardinality(Recording') <= 1
  BY OneRecords
<1> QED BY <1>1, <1>2, <1>3 DEF TeachIInv

-----------------------------------------------------------------------------
(* The steps of a process, by what they do to its stage.                   *)

\* Goto changes the stage of a process and nothing else about it.
LEMMA GotoEffect ==
  ASSUME Rows, NEW p \in Proc, ~At(p, "idle"), NEW pc \in Stages, Goto(p, pc)
  PROVE  /\ proc' \in [Proc -> {Idle} \cup ProcRow]
         /\ proc'[p].pc = pc /\ proc'[p].skill = proc[p].skill /\ proc'[p].saw = proc[p].saw
         /\ \A q \in Proc \ {p} : proc'[q] = proc[q]
<1>1. proc' = [proc EXCEPT ![p] = [proc[p] EXCEPT !.pc = pc]] /\ proc \in [Proc -> {Idle} \cup ProcRow]
  BY DEF Goto, Rows
<1>2. proc[p] \in ProcRow
  BY BusyHasRow
<1>3. [proc[p] EXCEPT !.pc = pc] \in ProcRow
  BY <1>2 DEF ProcRow
<1> QED BY <1>1, <1>2, <1>3 DEF ProcRow

\* Ends leaves the process idle.
LEMMA EndsEffect ==
  ASSUME Rows, NEW p \in Proc, Ends(p)
  PROVE  /\ proc' \in [Proc -> {Idle} \cup ProcRow]
         /\ proc'[p].pc = "idle"
         /\ \A q \in Proc \ {p} : proc'[q] = proc[q]
<1>1. proc' = [proc EXCEPT ![p] = Idle] /\ proc \in [Proc -> {Idle} \cup ProcRow]
  BY DEF Ends, Rows
<1> QED BY <1>1 DEF Idle

\* Begins puts the process at its first stage, with the status it has read.
LEMMA BeginsEffect ==
  ASSUME Rows, NEW p \in Proc, NEW s \in Skill, NEW pc \in Stages, NEW c \in Calls,
         Begins(p, pc, s, c)
  PROVE  /\ proc' \in [Proc -> {Idle} \cup ProcRow]
         /\ proc'[p].pc = pc /\ proc'[p].skill = s /\ proc'[p].saw = Status(s)
         /\ \A q \in Proc \ {p} : proc'[q] = proc[q]
<1> DEFINE row == [pc |-> pc, skill |-> s, call |-> c, saw |-> skill[s].status]
<1>1. proc' = [proc EXCEPT ![p] = row] /\ proc \in [Proc -> {Idle} \cup ProcRow]
  BY DEF Begins, Rows
<1>2. skill[s].status \in Statuses
  BY DEF Rows, Row
<1>3. row \in ProcRow
  BY <1>2 DEF ProcRow
<1>4. row.pc = pc /\ row.skill = s /\ row.saw = Status(s)
  BY DEF Status
<1> HIDE DEF row
<1> QED BY <1>1, <1>3, <1>4

\* What is left to show of a step that writes no row of a skill and no new timer.
LEMMA NoRowWritten ==
  ASSUME TeachIInv, NEW p \in Proc, NEW s \in Skill, UNCHANGED rows,
         \A t \in timer' \ timer : Status(t) # "absent"
  PROVE  /\ StatusMove(p, s) /\ SkillOK(s)' /\ \A t \in timer' : Status(t)' # "absent"
         /\ \A t \in Skill : Status(t)' = Status(t)
         /\ skill' \in [Skill -> Row] /\ stopped' \in [Skill -> Nat] /\ told' \in [Skill -> Nat]
BY DEF TeachIInv, Rows, rows, StatusMove, MovesTo, SkillOK, Status

\* A process goes on with a skill whose row stays, and may set its timer.
LEMMA GoesOn ==
  ASSUME TeachIInv, NEW p \in Proc, ~At(p, "idle"), ~At(p, "starting"),
         NEW pc \in Stages \ {"starting", "editing"}, Goto(p, pc), UNCHANGED <<rows, late>>,
         timer' \subseteq timer \cup {My(p)},
         cards' \in Seq(Skill \cup {Other}), drafted' \in EventSets
  PROVE  TeachIInv'
<1>1. My(p) \in Skill /\ Status(My(p)) # "absent" /\ Rows
  BY BusyHasRow DEF TeachIInv, ProcOK
<1>2. /\ proc' \in [Proc -> {Idle} \cup ProcRow]
      /\ proc'[p].pc = pc /\ proc'[p].skill = proc[p].skill
      /\ \A q \in Proc \ {p} : proc'[q] = proc[q]
  BY <1>1, GotoEffect
<1>3. \A t \in timer' \ timer : Status(t) # "absent"
  BY <1>1
<1>4. UNCHANGED rows
  OBVIOUS
<1>5. PICK s \in Skill : s = My(p)
  BY <1>1
<1>6. /\ StatusMove(p, s) /\ SkillOK(s)' /\ \A t \in timer' : Status(t)' # "absent"
      /\ \A t \in Skill : Status(t)' = Status(t)
      /\ skill' \in [Skill -> Row] /\ stopped' \in [Skill -> Nat] /\ told' \in [Skill -> Nat]
  BY <1>3, <1>4, NoRowWritten
<1>7. ProcOK(p)' /\ StartsAlone(p)'
  <2>1. My(p)' = s /\ Status(s)' = Status(s) /\ Status(s) # "absent"
    BY <1>1, <1>2, <1>5, <1>6 DEF My
  <2>2. Status(My(p))' = Status(s)
    BY <2>1 DEF Status
  <2> QED BY <1>2, <2>1, <2>2 DEF ProcOK, StartsAlone, At
<1>8. Rows'
  BY <1>1, <1>2, <1>6 DEF Rows
<1>9. \A t \in Skill : skill'[t] = skill[t] /\ stopped'[t] = stopped[t] /\ told'[t] = told[t]
  BY DEF rows
<1> QED BY <1>2, <1>6, <1>7, <1>8, <1>9, StepKeeps

\* A process ends, returns or dies, and no row of a skill changes.
LEMMA GoesIdle ==
  ASSUME TeachIInv, NEW p \in Proc, ~At(p, "idle"), Ends(p), UNCHANGED <<rows, late>>,
         timer' \subseteq timer,
         cards' \in Seq(Skill \cup {Other}), drafted' \in EventSets
  PROVE  TeachIInv'
<1>1. My(p) \in Skill /\ Rows
  BY BusyHasRow DEF TeachIInv
<1>2. /\ proc' \in [Proc -> {Idle} \cup ProcRow]
      /\ proc'[p].pc = "idle"
      /\ \A q \in Proc \ {p} : proc'[q] = proc[q]
  BY <1>1, EndsEffect
<1>3. PICK s \in Skill : TRUE
  BY <1>1
<1>4. UNCHANGED rows /\ \A t \in timer' \ timer : Status(t) # "absent"
  OBVIOUS
<1>5. /\ StatusMove(p, s) /\ SkillOK(s)' /\ \A t \in timer' : Status(t)' # "absent"
      /\ skill' \in [Skill -> Row] /\ stopped' \in [Skill -> Nat] /\ told' \in [Skill -> Nat]
  BY <1>4, NoRowWritten
<1>6. ProcOK(p)' /\ StartsAlone(p)'
  BY <1>2 DEF ProcOK, StartsAlone, At
<1>7. Rows'
  BY <1>1, <1>2, <1>5 DEF Rows
<1>8. \A t \in Skill : skill'[t] = skill[t] /\ stopped'[t] = stopped[t] /\ told'[t] = told[t]
  BY DEF rows
<1> QED BY <1>2, <1>5, <1>6, <1>7, <1>8, StepKeeps

\* A process begins with a skill that has a row; what it edits is finished.
LEMMA BeginsWith ==
  ASSUME TeachIInv, NEW p \in Proc, At(p, "idle"), NEW s \in Skill, Status(s) # "absent",
         NEW pc \in Stages \ {"starting"}, NEW c \in Calls, Begins(p, pc, s, c),
         pc = "editing" => Status(s) \in Finished,
         UNCHANGED <<rows, late, shown>>, timer' \subseteq timer
  PROVE  TeachIInv'
<1>1. Rows
  BY DEF TeachIInv
<1>2. /\ proc' \in [Proc -> {Idle} \cup ProcRow]
      /\ proc'[p].pc = pc /\ proc'[p].skill = s /\ proc'[p].saw = Status(s)
      /\ \A q \in Proc \ {p} : proc'[q] = proc[q]
  BY <1>1, BeginsEffect
<1>3. UNCHANGED rows /\ \A t \in timer' \ timer : Status(t) # "absent"
  OBVIOUS
<1>4. /\ StatusMove(p, s) /\ SkillOK(s)' /\ \A t \in timer' : Status(t)' # "absent"
      /\ \A t \in Skill : Status(t)' = Status(t)
      /\ skill' \in [Skill -> Row] /\ stopped' \in [Skill -> Nat] /\ told' \in [Skill -> Nat]
  BY <1>3, NoRowWritten
<1>5. ProcOK(p)' /\ StartsAlone(p)'
  <2>1. My(p)' = s /\ Status(s)' = Status(s) /\ Status(My(p))' = Status(s)
    BY <1>2, <1>4 DEF My, Status
  <2> QED BY <1>2, <2>1 DEF ProcOK, StartsAlone, At
<1>6. Rows'
  BY <1>1, <1>2, <1>4 DEF Rows, shown
<1>7. \A t \in Skill : skill'[t] = skill[t] /\ stopped'[t] = stopped[t] /\ told'[t] = told[t]
  BY DEF rows
<1> QED BY <1>2, <1>4, <1>5, <1>6, <1>7, StepKeeps

-----------------------------------------------------------------------------
(* The steps that write the row of a skill.                                *)

\* After a step of p that wrote the row of s, p is idle or goes on with s.
Leaves(p, s) ==
  /\ proc' \in [Proc -> {Idle} \cup ProcRow]
  /\ \A q \in Proc \ {p} : proc'[q] = proc[q]
  /\ \/ proc'[p].pc = "idle"
     \/ proc'[p].pc \notin {"idle", "starting", "editing"} /\ proc'[p].skill = s

\* The writes of such a step, and the order the written row is in.
Writes(s, row, ends, tells) ==
  /\ skill' = [skill EXCEPT ![s] = row]
  /\ stopped' = [stopped EXCEPT ![s] = ends] /\ told' = [told EXCEPT ![s] = tells]
  /\ UNCHANGED <<late, timer, shown>>

InOrder(row, ends, tells) ==
  /\ ends <= 1 /\ tells <= row.inputs /\ row.status # "absent"
  /\ row.status = "recording" => ends = 0
  /\ row.status \in Finished => ends = 1 /\ row.playbook = row.inputs

\* A step that writes one row under its lock, and what has to hold of the row written.
LEMMA WritesRow ==
  ASSUME TeachIInv, NEW p \in Proc, NEW s \in Skill,
         NEW row \in Row, NEW ends \in Nat, NEW tells \in Nat,
         Writes(s, row, ends, tells), InOrder(row, ends, tells),
         MovesTo(p, s, row.status), Leaves(p, s)
  PROVE  TeachIInv'
<1>1. /\ skill' \in [Skill -> Row] /\ stopped' \in [Skill -> Nat] /\ told' \in [Skill -> Nat]
      /\ skill'[s] = row /\ stopped'[s] = ends /\ told'[s] = tells
      /\ \A t \in Skill \ {s} :
            skill'[t] = skill[t] /\ stopped'[t] = stopped[t] /\ told'[t] = told[t]
  BY DEF TeachIInv, Rows, Writes
<1>2. Rows'
  BY <1>1 DEF TeachIInv, Rows, shown, Writes, Leaves
<1>3. SkillOK(s)'
  BY <1>1 DEF SkillOK, Status, InOrder
<1>4. StatusMove(p, s)
  BY <1>1 DEF StatusMove, MovesTo
<1>5. \A t \in timer' : Status(t)' # "absent"
  <2>1. ASSUME NEW t \in timer PROVE Status(t)' # "absent"
    <3>1. t \in Skill /\ Status(t) # "absent"
      BY DEF TeachIInv, Rows
    <3> QED BY <1>1, <3>1 DEF Status, InOrder
  <2> QED BY <2>1 DEF Writes
<1>6. ProcOK(p)' /\ StartsAlone(p)'
  BY <1>1 DEF ProcOK, StartsAlone, At, My, Status, Leaves, InOrder
<1>7. \A q \in Proc \ {p} : proc'[q] = proc[q]
  BY DEF Leaves
<1> QED BY <1>1, <1>2, <1>3, <1>4, <1>5, <1>6, <1>7, StepKeeps

\* StartCreates makes the row of a session, recording, unless another session records.
LEMMA StartCreatesKeeps ==
  ASSUME TeachIInv, NEW p \in Proc, StartCreates(p)
  PROVE  TeachIInv'
<1>1. At(p, "starting") /\ ~At(p, "idle") /\ Rows /\ ProcOK(p)
  BY DEF StartCreates, At, TeachIInv
<1>2. PICK s \in Skill : s = My(p)
  BY <1>1, BusyHasRow
<1>3. CASE Unconflicted
  <2> DEFINE row == [NoSkill EXCEPT !.status = "recording"]
  <2>1. NoSkill \in Row /\ NoSkill.inputs = 0
    BY DEF NoSkill, Row, Statuses
  <2>2. row \in Row /\ row.status = "recording" /\ row.inputs = 0
    BY <2>1 DEF Row, Statuses
  <2>3. skill' = [skill EXCEPT ![s] = row]
    BY <1>2, <1>3 DEF StartCreates
  <2> HIDE DEF row
  <2>4. Status(s) = "absent" /\ told[s] = 0 /\ stopped[s] = 0
    BY <1>1, <1>2 DEF TeachIInv, ProcOK, SkillOK
  <2>5. stopped' = [stopped EXCEPT ![s] = 0] /\ told' = [told EXCEPT ![s] = 0]
    BY <2>4, <1>1 DEF StartCreates, Rows
  <2>6. Goto(p, "scheduling") /\ "scheduling" \in Stages
    BY <1>3 DEF StartCreates, Stages
  <2>7. /\ proc' \in [Proc -> {Idle} \cup ProcRow]
        /\ proc'[p].pc = "scheduling" /\ proc'[p].skill = s
        /\ \A q \in Proc \ {p} : proc'[q] = proc[q]
    BY <2>6, <1>1, <1>2, GotoEffect DEF My
  <2>8. Recording = {} /\ UNCHANGED <<late, timer, shown>>
    BY <1>3 DEF Unconflicted, StartCreates
  <2>9. MovesTo(p, s, row.status) /\ Leaves(p, s)
    BY <1>1, <1>2, <2>2, <2>4, <2>7, <2>8 DEF MovesTo, Leaves
  <2>10. Writes(s, row, 0, 0) /\ InOrder(row, 0, 0)
    BY <2>2, <2>3, <2>5, <2>8 DEF Finished, Writes, InOrder
  <2> QED BY <2>2, <2>9, <2>10, WritesRow
<1>4. CASE ~Unconflicted
  <2>1. Ends(p) /\ UNCHANGED <<rows, late, timer, shown>>
    BY <1>4 DEF StartCreates, rows
  <2> QED BY <2>1, <1>1, GoesIdle DEF Rows, shown
<1> QED BY <1>3, <1>4

\* One more input of a recording that goes on keeps its row in order.
LEMMA RecordedRow ==
  ASSUME TeachIInv, NEW s \in Skill, Status(s) = "recording"
  PROVE  \E row \in Row :
           /\ Recorded(s) = [skill EXCEPT ![s] = row]
           /\ row.status = "recording" /\ row.inputs = skill[s].inputs + 1
           /\ told[s] + 1 <= row.inputs /\ told[s] \in Nat /\ stopped[s] = 0
<1> DEFINE row == [skill[s] EXCEPT !.inputs = @ + 1]
<1>1. skill[s] \in Row /\ told[s] \in Nat /\ SkillOK(s) /\ skill[s].inputs \in Nat
  BY DEF TeachIInv, Rows, Row
<1>2. row \in Row /\ row.status = "recording" /\ row.inputs = skill[s].inputs + 1
  BY <1>1 DEF Row, Status
<1>3. Recorded(s) = [skill EXCEPT ![s] = row]
  BY DEF Recorded
<1> HIDE DEF row
<1>4. told[s] + 1 <= row.inputs /\ stopped[s] = 0
  BY <1>1, <1>2 DEF SkillOK
<1> QED BY <1>1, <1>2, <1>3, <1>4

\* The first snapshot is recorded under the row lock, if the session still records.
LEMMA SnapshotsKeeps ==
  ASSUME TeachIInv, NEW p \in Proc, Snapshots(p)
  PROVE  TeachIInv'
<1>1. At(p, "snapshot") /\ ~At(p, "idle") /\ Rows /\ Ends(p)
  BY DEF Snapshots, At, TeachIInv
<1>2. PICK s \in Skill : s = My(p)
  BY <1>1, BusyHasRow
<1>3. CASE StillRecording(s)
  <2>1. Status(s) = "recording"
    BY <1>3 DEF StillRecording, Status
  <2>2. PICK row \in Row :
           /\ Recorded(s) = [skill EXCEPT ![s] = row]
           /\ row.status = "recording" /\ row.inputs = skill[s].inputs + 1
           /\ told[s] + 1 <= row.inputs /\ told[s] \in Nat /\ stopped[s] = 0
    BY <2>1, RecordedRow
  <2>3. skill' = [skill EXCEPT ![s] = row] /\ UNCHANGED <<late, timer, shown>>
    BY <1>2, <1>3, <2>2 DEF Snapshots
  <2>4. stopped' = [stopped EXCEPT ![s] = 0] /\ told' = [told EXCEPT ![s] = told[s]]
    BY <2>2, <1>1 DEF Snapshots, Rows
  <2>5. /\ proc' \in [Proc -> {Idle} \cup ProcRow] /\ proc'[p].pc = "idle"
        /\ \A q \in Proc \ {p} : proc'[q] = proc[q]
    BY <1>1, EndsEffect
  <2>6. PICK tells \in Nat : tells = told[s]
    BY <2>2
  <2>7. MovesTo(p, s, row.status) /\ Leaves(p, s)
    BY <2>1, <2>2, <2>5 DEF MovesTo, Leaves
  <2>8. Writes(s, row, 0, tells) /\ InOrder(row, 0, tells)
    BY <2>2, <2>3, <2>4, <2>6 DEF Writes, InOrder, Finished, Row
  <2> QED BY <2>7, <2>8, WritesRow
<1>4. CASE ~StillRecording(s)
  <2>1. UNCHANGED <<rows, late, timer, shown>>
    BY <1>2, <1>4 DEF Snapshots, rows
  <2> QED BY <2>1, <1>1, GoesIdle DEF Rows, shown
<1> QED BY <1>3, <1>4

\* An input that was applied is recorded, and the user told so, if the session goes on.
LEMMA InputRecordsKeeps ==
  ASSUME TeachIInv, NEW p \in Proc, InputRecords(p)
  PROVE  TeachIInv'
<1>1. At(p, "input") /\ ~At(p, "idle") /\ ~At(p, "starting") /\ Rows
  BY DEF InputRecords, At, TeachIInv
<1>2. PICK s \in Skill : s = My(p)
  BY <1>1, BusyHasRow
<1>3. CASE StillRecording(s)
  <2>1. Status(s) = "recording"
    BY <1>3 DEF StillRecording, Status
  <2>2. PICK row \in Row :
           /\ Recorded(s) = [skill EXCEPT ![s] = row]
           /\ row.status = "recording" /\ row.inputs = skill[s].inputs + 1
           /\ told[s] + 1 <= row.inputs /\ told[s] \in Nat /\ stopped[s] = 0
    BY <2>1, RecordedRow
  <2>3. /\ skill' = [skill EXCEPT ![s] = row] /\ told' = [told EXCEPT ![s] = told[s] + 1]
        /\ Ends(p) /\ UNCHANGED <<late, timer, shown>>
    BY <1>2, <1>3, <2>2 DEF InputRecords
  <2>4. stopped' = [stopped EXCEPT ![s] = 0]
    BY <2>2, <1>1 DEF InputRecords, Rows
  <2>5. MovesTo(p, s, row.status) /\ Leaves(p, s)
    BY <1>1, <2>1, <2>2, <2>3, EndsEffect DEF MovesTo, Leaves
  <2>6. PICK tells \in Nat : tells = told[s] + 1
    BY <2>2
  <2>7. Writes(s, row, 0, tells) /\ InOrder(row, 0, tells)
    BY <2>2, <2>3, <2>4, <2>6 DEF Writes, InOrder, Finished, Row
  <2> QED BY <2>5, <2>7, WritesRow
<1>4. CASE ~StillRecording(s)
  <2>1. UNCHANGED <<rows, late, timer, shown>> /\ (Goto(p, "expiring") \/ Ends(p))
    BY <1>2, <1>4 DEF InputRecords, rows
  <2>2. cards' \in Seq(Skill \cup {Other}) /\ drafted' \in EventSets
    BY <1>1, <2>1 DEF Rows, shown
  <2>3. "expiring" \in Stages \ {"starting", "editing"}
    BY DEF Stages
  <2>4. timer' \subseteq timer /\ timer' \subseteq timer \cup {My(p)} /\ UNCHANGED <<rows, late>>
    BY <2>1
  <2> QED BY <1>1, <2>1, <2>2, <2>3, <2>4, GoesOn, GoesIdle
<1> QED BY <1>3, <1>4

\* The first to finish a recording flips its row with the snapshot and the playbook.
LEMMA FinalizesKeeps ==
  ASSUME TeachIInv, NEW p \in Proc, Finalizes(p)
  PROVE  TeachIInv'
<1>1. At(p, "finalizing") /\ ~At(p, "idle") /\ ~At(p, "starting") /\ Rows
  BY DEF Finalizes, At, TeachIInv
<1>2. PICK s \in Skill : s = My(p)
  BY <1>1, BusyHasRow
<1>3. CASE Finalizable(s)
  <2>1. Status(s) = "recording" /\ SkillOK(s)
    BY <1>3 DEF Finalizable, Status, TeachIInv
  <2>2. skill[s] \in Row /\ skill[s].inputs \in Nat /\ told[s] \in Nat /\ stopped[s] = 0
    BY <1>1, <2>1 DEF Rows, Row, SkillOK
  <2> DEFINE row == [skill[s] EXCEPT !.status = "draft", !.inputs = @ + 1,
                                     !.playbook = skill[s].inputs + 1]
  <2>3. /\ row \in Row /\ row.status = "draft"
        /\ row.inputs = skill[s].inputs + 1 /\ row.playbook = skill[s].inputs + 1
    <3>1. "draft" \in Statuses /\ skill[s].inputs + 1 \in Nat
      BY <2>2 DEF Statuses, Finished
    <3> HIDE DEF Statuses
    <3>2. row \in Row
      BY <2>2, <3>1 DEF Row
    <3>3. row.status = "draft" /\ row.inputs = skill[s].inputs + 1
      BY <2>2 DEF Row
    <3>4. row.playbook = skill[s].inputs + 1
      BY <2>2 DEF Row
    <3> QED BY <3>2, <3>3, <3>4
  <2>4. skill' = [skill EXCEPT ![s] = row]
    BY <1>2, <1>3 DEF Finalizes
  <2> HIDE DEF row
  <2>5. stopped' = [stopped EXCEPT ![s] = 1]
    BY <1>2, <1>3, <2>2 DEF Finalizes
  <2>6. told' = [told EXCEPT ![s] = told[s]] /\ UNCHANGED <<late, timer, shown>>
    BY <1>1 DEF Finalizes, Rows
  <2>7. Goto(p, "publishing") /\ "publishing" \in Stages
    BY <1>2, <1>3 DEF Finalizes, Stages
  <2>8. MovesTo(p, s, row.status)
    BY <2>1, <2>3 DEF MovesTo
  <2>9. Leaves(p, s)
    BY <1>1, <1>2, <2>7, GotoEffect DEF Leaves, My
  <2>10. PICK tells \in Nat : tells = told[s]
    BY <2>2
  <2>11. Writes(s, row, 1, tells)
    BY <2>4, <2>5, <2>6, <2>10 DEF Writes
  <2>12. InOrder(row, 1, tells)
    BY <2>1, <2>2, <2>3, <2>10 DEF InOrder, SkillOK
  <2> QED BY <2>3, <2>8, <2>9, <2>11, <2>12, WritesRow
<1>4. CASE ~Finalizable(s)
  <2>1. UNCHANGED <<rows, late, timer, shown>>
    BY <1>2, <1>4 DEF Finalizes, rows
  <2>2. Goto(p, "publishing") \/ Goto(p, "cancelling") \/ Ends(p)
    BY <1>2, <1>4 DEF Finalizes
  <2>3. cards' \in Seq(Skill \cup {Other}) /\ drafted' \in EventSets
    BY <1>1, <2>1 DEF Rows, shown
  <2>4. {"publishing", "cancelling"} \subseteq Stages \ {"starting", "editing"}
    BY DEF Stages
  <2>5. timer' \subseteq timer /\ timer' \subseteq timer \cup {My(p)} /\ UNCHANGED <<rows, late>>
    BY <2>1
  <2> QED BY <1>1, <2>2, <2>3, <2>4, <2>5, GoesOn, GoesIdle
<1> QED BY <1>3, <1>4

\* save flips a draft, and leaves its recording and its playbook.
LEMMA SavesKeeps ==
  ASSUME TeachIInv, NEW p \in Proc, NEW s \in Skill, Saves(p, s)
  PROVE  TeachIInv'
<1>1. At(p, "idle") /\ Status(s) \in Finished /\ Rows /\ SkillOK(s)
  BY DEF Saves, Request, TeachIInv
<1>2. skill[s] \in Row /\ skill[s].inputs \in Nat /\ told[s] \in Nat
  BY <1>1 DEF Rows, Row
<1> DEFINE row == [skill[s] EXCEPT !.status = "saved"]
<1>3. /\ row \in Row /\ row.status = "saved"
      /\ row.inputs = skill[s].inputs /\ row.playbook = skill[s].playbook
  BY <1>2 DEF Row, Statuses, Finished
<1>4. skill' = [skill EXCEPT ![s] = row]
  BY DEF Saves
<1> HIDE DEF row
<1>5. stopped[s] = 1 /\ skill[s].playbook = skill[s].inputs /\ told[s] <= skill[s].inputs
  BY <1>1 DEF SkillOK
<1>6. PICK tells \in Nat : tells = told[s]
  BY <1>2
<1>7. Writes(s, row, 1, tells)
  BY <1>1, <1>4, <1>5, <1>6 DEF Writes, Saves, Rows
<1>8. InOrder(row, 1, tells)
  BY <1>3, <1>5, <1>6 DEF InOrder
<1>9. MovesTo(p, s, row.status) /\ Leaves(p, s)
  BY <1>1, <1>3 DEF MovesTo, Leaves, Saves, Finished, Rows, At
<1> QED BY <1>3, <1>7, <1>8, <1>9, WritesRow

\* updateDraft writes back the status it read: of a skill that was finished and still is,
\* unless it was deleted.
LEMMA EditWritesKeeps ==
  ASSUME TeachIInv, NEW p \in Proc, EditWrites(p)
  PROVE  TeachIInv'
<1>1. At(p, "editing") /\ ~At(p, "idle") /\ Rows /\ Ends(p) /\ ProcOK(p)
  BY DEF EditWrites, At, TeachIInv
<1>2. PICK s \in Skill : s = My(p)
  BY <1>1, BusyHasRow
<1>3. CASE Exists(s)
  <2>1. Status(s) \in Finished /\ SkillOK(s) /\ proc[p].saw \in Finished
    BY <1>1, <1>2, <1>3 DEF ProcOK, Exists, TeachIInv
  <2>2. PICK status \in Finished : status = proc[p].saw
    BY <2>1
  <2>3. skill[s] \in Row /\ skill[s].inputs \in Nat /\ told[s] \in Nat /\ status \in Statuses
    BY <1>1 DEF Rows, Row, Statuses
  <2> DEFINE row == [skill[s] EXCEPT !.status = status, !.edited = TRUE]
  <2>4. skill' = [skill EXCEPT ![s] = row]
    BY <1>2, <1>3, <2>2 DEF EditWrites
  <2>5. row \in Row
    <3> HIDE DEF Statuses
    <3> QED BY <2>3 DEF Row
  <2>6. row.status = status /\ row.inputs = skill[s].inputs /\ row.playbook = skill[s].playbook
    BY <2>3 DEF Row
  <2> HIDE DEF row
  <2>7. stopped[s] = 1 /\ skill[s].playbook = skill[s].inputs /\ told[s] <= skill[s].inputs
    BY <2>1 DEF SkillOK
  <2>8. PICK tells \in Nat : tells = told[s]
    BY <2>3
  <2>9. Writes(s, row, 1, tells)
    BY <1>1, <2>4, <2>7, <2>8 DEF Writes, EditWrites, Rows
  <2>10. InOrder(row, 1, tells)
    BY <2>6, <2>7, <2>8 DEF InOrder, Finished
  <2>11. MovesTo(p, s, row.status) /\ Leaves(p, s)
    BY <1>1, <2>1, <2>6, EndsEffect DEF MovesTo, Leaves
  <2> QED BY <2>5, <2>9, <2>10, <2>11, WritesRow
<1>4. CASE ~Exists(s)
  <2>1. UNCHANGED <<rows, late, timer, shown>>
    BY <1>2, <1>4 DEF EditWrites, rows
  <2> QED BY <2>1, <1>1, GoesIdle DEF Rows, shown
<1> QED BY <1>3, <1>4

\* remove deletes the row, whatever it has become.
LEMMA RemoveDeletesKeeps ==
  ASSUME TeachIInv, NEW p \in Proc, RemoveDeletes(p)
  PROVE  TeachIInv'
<1>1. At(p, "removing") /\ ~At(p, "idle") /\ ~At(p, "starting") /\ Rows /\ Ends(p) /\ ProcOK(p)
  BY DEF RemoveDeletes, At, TeachIInv
<1>2. PICK s \in Skill : s = My(p)
  BY <1>1, BusyHasRow
<1>3. skill[s] \in Row /\ skill[s].inputs \in Nat /\ SkillOK(s) /\ Status(s) # "absent"
  BY <1>1, <1>2 DEF Rows, Row, TeachIInv, ProcOK
<1> DEFINE row == [skill[s] EXCEPT !.status = "deleted"]
<1>4. row \in Row /\ row.status = "deleted" /\ row.inputs = skill[s].inputs
  BY <1>3 DEF Row, Statuses
<1>5. skill' = [skill EXCEPT ![s] = row]
  BY <1>2 DEF RemoveDeletes
<1> HIDE DEF row
<1>6. PICK tells \in Nat, ends \in Nat : tells = told[s] /\ ends = stopped[s]
  BY <1>1 DEF Rows
<1>7. Writes(s, row, ends, tells)
  BY <1>1, <1>5, <1>6 DEF Writes, RemoveDeletes, Rows
<1>8. InOrder(row, ends, tells)
  BY <1>3, <1>4, <1>6 DEF InOrder, SkillOK, Finished
<1>9. MovesTo(p, s, row.status) /\ Leaves(p, s)
  BY <1>1, <1>3, <1>4, EndsEffect DEF MovesTo, Leaves
<1> QED BY <1>4, <1>7, <1>8, <1>9, WritesRow

-----------------------------------------------------------------------------
(* The steps that write no row.                                            *)

\* A start has a new id, which nothing else handles.
LEMMA StartsKeeps ==
  ASSUME TeachIInv, NEW p \in Proc, NEW s \in Skill, Starts(p, s)
  PROVE  TeachIInv'
<1>1. /\ At(p, "idle") /\ Status(s) = "absent" /\ Rows
      /\ \A q \in Proc : ~HandlesSkill(q, s)
      /\ Begins(p, "starting", s, "start") /\ UNCHANGED <<rows, late, timer, shown>>
  BY DEF Starts, Request, TeachIInv
<1>2. /\ proc' \in [Proc -> {Idle} \cup ProcRow]
      /\ proc'[p].pc = "starting" /\ proc'[p].skill = s
      /\ \A q \in Proc \ {p} : proc'[q] = proc[q]
  BY <1>1, BeginsEffect DEF Stages, Calls
<1>3. UNCHANGED rows /\ \A t \in timer' \ timer : Status(t) # "absent"
  BY <1>1
<1>4. /\ StatusMove(p, s) /\ SkillOK(s)' /\ \A t \in timer' : Status(t)' # "absent"
      /\ \A t \in Skill : Status(t)' = Status(t)
      /\ skill' \in [Skill -> Row] /\ stopped' \in [Skill -> Nat] /\ told' \in [Skill -> Nat]
  BY <1>3, NoRowWritten
<1>5. ProcOK(p)'
  <2>1. Status(My(p))' = "absent"
    BY <1>1, <1>2, <1>4 DEF My, Status
  <2> QED BY <1>2, <2>1 DEF ProcOK, At
<1>6. StartsAlone(p)'
  BY <1>1, <1>2 DEF StartsAlone, HandlesSkill, At, My
<1>7. Rows'
  BY <1>1, <1>2, <1>4 DEF Rows, shown
<1>8. \A t \in Skill : skill'[t] = skill[t] /\ stopped'[t] = stopped[t] /\ told'[t] = told[t]
  BY <1>1 DEF rows
<1> QED BY <1>2, <1>4, <1>5, <1>6, <1>7, <1>8, StepKeeps

\* A request for a session, and a job that fires, find a row.
LEMMA CallsKeep ==
  ASSUME TeachIInv, NEW p \in Proc, NEW s \in Skill,
         \/ InputReads(p, s) \/ Gets(p, s) \/ Stops(p, s) \/ JobFires(p, s)
         \/ EditReads(p, s) \/ RemoveReads(p, s)
  PROVE  TeachIInv'
<1>1. At(p, "idle") /\ UNCHANGED <<rows, late, shown>> /\ timer' \subseteq timer
  BY DEF InputReads, Gets, Stops, JobFires, EditReads, RemoveReads, Request
<1>2. Status(s) # "absent"
  BY DEF InputReads, Gets, Stops, JobFires, EditReads, RemoveReads, Exists, Finished, TeachIInv
<1>3. /\ {"expiring", "input", "editing", "removing"} \subseteq Stages \ {"starting"}
      /\ {"input", "get", "stop", "job", "edit", "remove"} \subseteq Calls
  BY DEF Stages, Calls
<1>4. \E pc \in Stages \ {"starting"}, c \in Calls :
         Begins(p, pc, s, c) /\ (pc = "editing" => Status(s) \in Finished)
  <2>1. CASE InputReads(p, s)
    <3>1. Begins(p, "input", s, "input") \/ Begins(p, "expiring", s, "input")
      BY <2>1 DEF InputReads
    <3> QED BY <3>1, <1>3
  <2>2. CASE Gets(p, s)
    BY <2>2, <1>3 DEF Gets
  <2>3. CASE Stops(p, s)
    BY <2>3, <1>3 DEF Stops
  <2>4. CASE JobFires(p, s)
    BY <2>4, <1>3 DEF JobFires
  <2>5. CASE EditReads(p, s)
    BY <2>5, <1>3 DEF EditReads
  <2>6. CASE RemoveReads(p, s)
    BY <2>6, <1>3 DEF RemoveReads
  <2> QED BY <2>1, <2>2, <2>3, <2>4, <2>5, <2>6
<1> QED BY <1>1, <1>2, <1>4, BeginsWith

\* A process schedules the job, reads a row, publishes, cancels the job, or dies.
LEMMA StagesKeep ==
  ASSUME TeachIInv, NEW p \in Proc,
         \/ StartSchedules(p) \/ ExpireReads(p) \/ StopReads(p) \/ Shows(p) \/ Cancels(p)
         \/ Dies(p)
  PROVE  TeachIInv'
<1>0. Rows
  BY DEF TeachIInv
<1>1. ~At(p, "idle") /\ UNCHANGED <<rows, late>>
  BY DEF StartSchedules, ExpireReads, StopReads, Shows, Cancels, Dies, At
<1>2. PICK s \in Skill : s = My(p)
  BY <1>0, <1>1, BusyHasRow
<1>3. cards' \in Seq(Skill \cup {Other}) /\ drafted' \in EventSets
  <2>1. CASE Shows(p)
    <3>1. cards' = cards \/ cards' = Append(cards, s)
      BY <1>2, <2>1 DEF Shows
    <3>2. drafted' = drafted \/ drafted' = drafted \cup {NextDraftEvent(s)}
      BY <1>2, <2>1 DEF Shows
    <3> DEFINE T == Skill \cup {Other}
    <3>3. cards \in Seq(T) /\ s \in T /\ drafted \in EventSets
      BY <1>0 DEF Rows
    <3>4. cards' \in Seq(T)
      <4> HIDE DEF T
      <4> QED BY <3>1, <3>3
    <3>5. drafted' \in EventSets
      BY <3>2, <3>3, EventAdded
    <3> QED BY <3>4, <3>5
  <2>2. CASE ~Shows(p)
    BY <1>0, <2>2 DEF StartSchedules, ExpireReads, StopReads, Cancels, Dies, shown, Rows
  <2> QED BY <2>1, <2>2
<1>4. timer' \subseteq timer \cup {My(p)}
  BY DEF StartSchedules, ExpireReads, StopReads, Shows, Cancels, Dies, Returns
<1>5. {"snapshot", "stopping", "showing", "finalizing", "cancelling"}
         \subseteq Stages \ {"starting", "editing"}
  BY DEF Stages
<1>6. \/ Ends(p) /\ timer' \subseteq timer
      \/ /\ ~At(p, "starting")
         /\ \E pc \in Stages \ {"starting", "editing"} : Goto(p, pc)
  <2>1. CASE StartSchedules(p)
    BY <2>1, <1>5 DEF StartSchedules, At
  <2>2. CASE ExpireReads(p)
    <3>1. ~At(p, "starting") /\ (Goto(p, "showing") \/ Goto(p, "finalizing") \/ Returns(p))
      BY <2>2 DEF ExpireReads, At
    <3>2. CASE Returns(p)
      BY <3>1, <3>2, <1>5 DEF Returns
    <3> QED BY <3>1, <3>2, <1>5
  <2>3. CASE StopReads(p)
    BY <2>3, <1>5 DEF StopReads, At
  <2>4. CASE Shows(p)
    <3>1. ~At(p, "starting") /\ (Returns(p) \/ Goto(p, "cancelling"))
      BY <2>4 DEF Shows, At
    <3>2. CASE Returns(p)
      BY <3>1, <3>2, <1>5 DEF Returns
    <3> QED BY <3>1, <3>2, <1>5
  <2>5. CASE Cancels(p)
    BY <2>5 DEF Cancels
  <2>6. CASE Dies(p)
    BY <2>6 DEF Dies
  <2> QED BY <2>1, <2>2, <2>3, <2>4, <2>5, <2>6
<1>7. CASE Ends(p) /\ timer' \subseteq timer
  BY <1>1, <1>3, <1>7, GoesIdle
<1>8. CASE ~At(p, "starting") /\ \E pc \in Stages \ {"starting", "editing"} : Goto(p, pc)
  BY <1>1, <1>3, <1>4, <1>8, GoesOn
<1> QED BY <1>6, <1>7, <1>8

\* Time, other messages of the thread and a clear touch no session.
LEMMA OthersKeep ==
  ASSUME TeachIInv,
         \/ UNCHANGED vars
         \/ \E s \in Skill : TimePasses(s)
         \/ OthersPost \/ ClearThread
  PROVE  TeachIInv'
<1>1. UNCHANGED <<skill, stopped, told, timer, proc>> /\ Rows
  BY DEF vars, rows, TimePasses, OthersPost, ClearThread, TeachIInv
<1>2. late' \subseteq Skill /\ cards' \in Seq(Skill \cup {Other}) /\ drafted' \in EventSets
  <2>1. CASE UNCHANGED vars
    BY <2>1, <1>1 DEF vars, Rows
  <2>2. CASE \E s \in Skill : TimePasses(s)
    BY <2>2, <1>1 DEF TimePasses, shown, Rows
  <2>3. CASE OthersPost
    BY <2>3, <1>1 DEF OthersPost, Rows
  <2>4. CASE ClearThread
    BY <2>4, <1>1, NoEvents DEF ClearThread, Rows
  <2> QED BY <2>1, <2>2, <2>3, <2>4
<1>3. Rows'
  BY <1>1, <1>2 DEF Rows
<1>4. Recording' = Recording
  BY <1>1 DEF Recording, Status
<1> QED BY <1>1, <1>3, <1>4 DEF TeachIInv, SkillOK, ProcOK, StartsAlone, HandlesSkill, Status,
            At, My

-----------------------------------------------------------------------------
(* What the thread shows.                                                  *)

\* Cards, then events, as far as the lookups see them; the events of a skill are numbered
\* from zero.
CardsOnce ==
  Len(cards) <= MessageWindow =>
    \A i, j \in DOMAIN cards : (i # j /\ cards[i] # Other) => cards[i] # cards[j]
EventsOnce ==
  Cardinality(drafted) <= EventWindow => \A d, e \in drafted : d[1] = e[1] => d = e
Numbered == \A e \in drafted : e[2] < Cardinality(DraftEvents(e[1]))

\* A card that is appended because the lookup, which saw them all, did not find it.
LEMMA CardAppended ==
  ASSUME Rows, CardsOnce, NEW s \in Skill \cup {Other}, s # Other => ~FindsCard(s),
         cards' = Append(cards, s)
  PROVE  CardsOnce'
<1> SUFFICES ASSUME Len(cards') <= MessageWindow,
                    NEW i \in DOMAIN cards', NEW j \in DOMAIN cards', i # j, cards'[i] # Other
             PROVE  cards'[i] # cards'[j]
  BY DEF CardsOnce
<1>1. cards \in Seq(Skill \cup {Other}) /\ MessageWindow \in Nat \ {0}
  BY TeachingAssumption DEF Rows
<1>2. /\ Len(cards') = Len(cards) + 1 /\ Len(cards) \in Nat
      /\ DOMAIN cards = 1..Len(cards) /\ DOMAIN cards' = 1..(Len(cards) + 1)
      /\ \A k \in DOMAIN cards' : cards'[k] = IF k = Len(cards) + 1 THEN s ELSE cards[k]
  BY <1>1
<1>3. ASSUME s # Other, NEW k \in DOMAIN cards PROVE cards[k] # s
  <2>1. k > Len(cards) - MessageWindow
    BY <1>1, <1>2
  <2> QED BY <1>3, <2>1 DEF FindsCard
<1>4. Len(cards) <= MessageWindow
  BY <1>1, <1>2
<1>5. CASE i = Len(cards) + 1
  BY <1>2, <1>3, <1>5
<1>6. CASE j = Len(cards) + 1
  BY <1>2, <1>3, <1>6
<1>7. CASE i # Len(cards) + 1 /\ j # Len(cards) + 1
  BY <1>2, <1>4, <1>7 DEF CardsOnce
<1> QED BY <1>5, <1>6, <1>7

\* A draft event that is appended because the lookup did not find one: it read them all,
\* or the thread has more of them than it reads.
LEMMA EventAppended ==
  ASSUME Rows, EventsOnce, Numbered, NEW s \in Skill, FindsEvent(s, FALSE),
         drafted' = drafted \cup {NextDraftEvent(s)}
  PROVE  EventsOnce' /\ Numbered'
<1> DEFINE n == Cardinality(DraftEvents(s))
<1>1. /\ drafted \subseteq Skill \X Nat /\ IsFiniteSet(drafted)
      /\ EventWindow \in Nat \ {0} /\ Cardinality(drafted) \in Nat
  BY TeachingAssumption, FS_CardinalityType DEF Rows, EventSets
<1>2. IsFiniteSet(DraftEvents(s)) /\ n \in Nat
  BY <1>1, FS_Subset, FS_CardinalityType DEF DraftEvents
<1>3. NextDraftEvent(s) = <<s, n>>
  BY DEF NextDraftEvent
<1>4. \A e \in DraftEvents(s) : e[1] = s /\ e \in drafted
  BY DEF DraftEvents
<1>5. <<s, n>> \notin drafted
  BY <1>2 DEF Numbered
<1>6. Cardinality(drafted') = Cardinality(drafted) + 1
  BY <1>1, <1>3, <1>5, FS_AddElement
<1>7. EventsOnce'
  <2> SUFFICES ASSUME Cardinality(drafted') <= EventWindow,
                      NEW d \in drafted', NEW e \in drafted', d[1] = e[1]
               PROVE  d = e
    BY DEF EventsOnce
  <2>1. Cardinality(drafted \ DraftEvents(s)) <= Cardinality(drafted)
        /\ Cardinality(drafted \ DraftEvents(s)) \in Nat
    BY <1>1, FS_Subset, FS_CardinalityType
  <2>2. DraftEvents(s) = {}
    BY <1>1, <1>6, <2>1 DEF FindsEvent
  <2>3. \A c \in drafted : c[1] # s
    BY <2>2 DEF DraftEvents
  <2>4. Cardinality(drafted) <= EventWindow
    BY <1>1, <1>6
  <2>5. (d \in drafted \/ d = <<s, n>>) /\ (e \in drafted \/ e = <<s, n>>)
    BY <1>3
  <2> QED BY <2>3, <2>4, <2>5 DEF EventsOnce
<1>8. Numbered'
  <2> SUFFICES ASSUME NEW e \in drafted' PROVE e[2] < Cardinality(DraftEvents(e[1]))'
    BY DEF Numbered
  <2>1. DraftEvents(s)' = DraftEvents(s) \cup {<<s, n>>}
    BY <1>3 DEF DraftEvents
  <2>2. Cardinality(DraftEvents(s)') = n + 1
    BY <1>2, <1>4, <1>5, <2>1, FS_AddElement
  <2>3. e \in drafted \/ e = <<s, n>>
    BY <1>3
  <2>4. PICK t \in Skill, k \in Nat : e = <<t, k>>
    BY <1>1, <1>2, <2>3
  <2>5. CASE t = s
    <3>1. k = n \/ k < n
      BY <2>3, <2>4, <2>5 DEF Numbered
    <3>2. k < Cardinality(DraftEvents(s)')
      BY <1>2, <2>2, <3>1
    <3> QED BY <2>4, <2>5, <3>2
  <2>6. CASE t # s
    <3>1. DraftEvents(t)' = DraftEvents(t)
      BY <1>3, <2>6 DEF DraftEvents
    <3>2. k < Cardinality(DraftEvents(t))
      BY <2>3, <2>4, <2>6 DEF Numbered
    <3> QED BY <2>4, <3>1, <3>2
  <2> QED BY <2>5, <2>6
<1> QED BY <1>7, <1>8

\* Every step keeps what the thread shows in order: emitSkillDraftMessages looks first, a
\* clear leaves nothing, and no other step adds an event.
LEMMA ShownKept ==
  ASSUME TeachIInv, CardsOnce, EventsOnce, Numbered, [Next]_vars
  PROVE  CardsOnce' /\ EventsOnce' /\ Numbered'
<1>0. Rows
  BY DEF TeachIInv
<1>1. ASSUME UNCHANGED cards PROVE CardsOnce'
  BY <1>1 DEF CardsOnce
<1>2. ASSUME UNCHANGED drafted PROVE EventsOnce' /\ Numbered'
  BY <1>2 DEF EventsOnce, Numbered, DraftEvents
<1>3. ASSUME NEW p \in Proc, Shows(p) PROVE CardsOnce' /\ EventsOnce' /\ Numbered'
  <2>1. My(p) \in Skill
    BY <1>0, <1>3, BusyHasRow DEF Shows, At
  <2>2. cards' = IF FindsCard(My(p)) THEN cards ELSE Append(cards, My(p))
    BY <1>3 DEF Shows
  <2>3. CardsOnce'
    BY <1>0, <1>1, <2>1, <2>2, CardAppended
  <2>4. UNCHANGED drafted
        \/ (FindsEvent(My(p), FALSE) /\ drafted' = drafted \cup {NextDraftEvent(My(p))})
    BY <1>3 DEF Shows
  <2>5. EventsOnce' /\ Numbered'
    BY <1>0, <1>2, <2>1, <2>4, EventAppended
  <2> QED BY <2>3, <2>5
<1>4. CASE OthersPost
  <2>1. cards' = Append(cards, Other) /\ UNCHANGED drafted
    BY <1>4 DEF OthersPost
  <2> QED BY <1>0, <1>2, <2>1, CardAppended
<1>5. CASE ClearThread
  <2>1. cards' = <<>> /\ drafted' = {}
    BY <1>5 DEF ClearThread
  <2> QED BY <2>1 DEF CardsOnce, EventsOnce, Numbered
<1>6. ASSUME NEW p \in Proc, Requested(p) \/ Dies(p) \/ \E s \in Skill : JobFires(p, s)
      PROVE  UNCHANGED shown
  BY <1>6 DEF Requested, Starts, InputReads, Gets, Stops, Saves, EditReads, RemoveReads, Dies,
     JobFires
<1>7. ASSUME NEW p \in Proc, Step(p), ~Shows(p) PROVE UNCHANGED shown
  BY <1>7 DEF Step, StartCreates, StartSchedules, Snapshots, InputRecords, ExpireReads, StopReads,
     Finalizes, Cancels, EditWrites, RemoveDeletes
<1>8. CASE UNCHANGED shown
  BY <1>1, <1>2, <1>8 DEF shown
<1>9. ASSUME NEW s \in Skill, TimePasses(s) PROVE UNCHANGED shown
  BY <1>9 DEF TimePasses
<1>10. CASE UNCHANGED vars
  BY <1>8, <1>10 DEF vars, shown
<1> QED BY <1>3, <1>4, <1>5, <1>6, <1>7, <1>8, <1>9, <1>10 DEF Next

-----------------------------------------------------------------------------

\* At first there is no skill, and nothing is under way.
LEMMA InitOK == Init => TeachIInv
<1> SUFFICES ASSUME Init PROVE TeachIInv
  OBVIOUS
<1>1. NoSkill \in Row /\ NoSkill.status = "absent" /\ NoSkill.inputs = 0
  BY DEF NoSkill, Row, Statuses
<1>2. Rows
  BY <1>1, NoEvents DEF Init, Rows
<1>3. \A s \in Skill : Status(s) = "absent" /\ skill[s].inputs = 0
  BY <1>1 DEF Init, Status
<1>4. \A s \in Skill : SkillOK(s)
  BY <1>3 DEF Init, SkillOK, Finished
<1>5. \A p \in Proc : At(p, "idle")
  BY DEF Init, At, Idle
<1>6. \A p \in Proc : ProcOK(p) /\ StartsAlone(p)
  BY <1>5 DEF ProcOK, StartsAlone, At
<1>7. Recording = {} /\ timer = {}
  BY <1>3 DEF Recording, Init
<1>8. Cardinality(Recording) <= 1
  BY <1>7, FS_EmptySet
<1> QED BY <1>2, <1>4, <1>6, <1>7, <1>8 DEF TeachIInv

\* Every step of a request, of the job and of the world keeps sessions in order.
LEMMA StepsKeep == TeachIInv /\ [Next]_vars => TeachIInv'
<1> SUFFICES ASSUME TeachIInv, [Next]_vars PROVE TeachIInv'
  OBVIOUS
<1>1. CASE \E p \in Proc : Requested(p)
  <2>1. PICK p \in Proc, s \in Skill :
           \/ Starts(p, s) \/ InputReads(p, s) \/ Gets(p, s) \/ Stops(p, s)
           \/ Saves(p, s) \/ EditReads(p, s) \/ RemoveReads(p, s)
    BY <1>1 DEF Requested
  <2> QED BY <2>1, StartsKeeps, CallsKeep, SavesKeeps
<1>2. CASE \E p \in Proc : Step(p)
  <2>1. PICK p \in Proc : Step(p)
    BY <1>2
  <2> QED BY <2>1, StartCreatesKeeps, SnapshotsKeeps, InputRecordsKeeps, FinalizesKeeps,
             EditWritesKeeps, RemoveDeletesKeeps, StagesKeep DEF Step
<1>3. CASE \E p \in Proc : Dies(p)
  BY <1>3, StagesKeep
<1>4. CASE \E p \in Proc, s \in Skill : JobFires(p, s)
  BY <1>4, CallsKeep
<1>5. CASE UNCHANGED vars \/ (\E s \in Skill : TimePasses(s)) \/ OthersPost \/ ClearThread
  BY <1>5, OthersKeep
<1> QED BY <1>1, <1>2, <1>3, <1>4, <1>5 DEF Next

\* However starts, inputs, stops, expiries, edits and deletions interleave, and whoever
\* dies, sessions are in order.
THEOREM TeachInvariant == Spec => []TeachIInv
<1>1. Init => TeachIInv
  BY InitOK
<1>2. TeachIInv /\ [Next]_vars => TeachIInv'
  BY StepsKeep
<1> QED BY <1>1, <1>2, PTL DEF Spec

\* One session of a bot records at a time, a recording is finished once, and its playbook
\* tells every input it holds and every input the user was told was recorded.
THEOREM RecordingIsWhole == Spec => []TeachInv
<1>1. TeachIInv => TeachInv
  <2> SUFFICES ASSUME TeachIInv PROVE TeachInv
    OBVIOUS
  <2>1. ASSUME NEW s \in Skill
        PROVE  /\ Status(s) \in {"absent", "recording", "deleted"} \cup Finished
               /\ {skill[s].inputs, skill[s].playbook, stopped[s], told[s]} \subseteq Nat
               /\ skill[s].edited \in BOOLEAN
    <3>1. skill[s] \in Row /\ stopped[s] \in Nat /\ told[s] \in Nat
      BY DEF TeachIInv, Rows
    <3> QED BY <3>1 DEF Row, Statuses, Status
  <2>2. (\A i \in DOMAIN cards : cards[i] \in Skill \cup {Other}) /\ drafted \subseteq Skill \X Nat
    BY DEF TeachIInv, Rows, EventSets
  <2>3. TeachTypeOK
    BY <2>1, <2>2 DEF TeachIInv, Rows, TeachTypeOK
  <2>4. PlaybookIsWhole
    BY DEF TeachIInv, SkillOK, PlaybookIsWhole
  <2> QED BY <2>3, <2>4 DEF TeachInv
<1> QED BY <1>1, TeachInvariant, PTL

\* However requests and jobs that publish a draft interleave with each other, with other
\* messages of the thread and with a clear, emitSkillDraftMessages leaves one card and one
\* event of a skill while the thread holds no more than its lookups read.
THEOREM DraftsAreShownOnce == Spec => []ShownOnce
<1>1. Init => CardsOnce /\ EventsOnce /\ Numbered
  BY DEF Init, CardsOnce, EventsOnce, Numbered
<1>2. TeachIInv /\ CardsOnce /\ EventsOnce /\ Numbered /\ [Next]_vars
         => CardsOnce' /\ EventsOnce' /\ Numbered'
  BY ShownKept
<1>3. CardsOnce /\ EventsOnce => ShownOnce
  BY DEF CardsOnce, EventsOnce, ShownOnce
<1> QED BY <1>1, <1>2, <1>3, TeachInvariant, PTL DEF Spec
=============================================================================
