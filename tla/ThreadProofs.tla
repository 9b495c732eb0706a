---------------------------- MODULE ThreadProofs ----------------------------
(***************************************************************************)
(* Proofs about the two modules of a thread.                               *)
(*                                                                         *)
(* SendOnce: no key delivers twice, no message is lost to a cancel and     *)
(* nothing survives a clear, for every number of calls, bots, groups and   *)
(* keys, and every bound on calls and upsets.                              *)
(*                                                                         *)
(* ThreadLog: events appear behind no cursor, a stream that sleeps has     *)
(* missed nothing, and a client that has caught up shows the messages      *)
(* there are, for every number of writers, requests, events and faults and *)
(* every batch and page.                                                   *)
(***************************************************************************)
EXTENDS SendOnce, ThreadLog, FiniteSetTheorems, WellFoundedInduction, TLAPS

-----------------------------------------------------------------------------
(* SendOnce: its rows and its inductive invariant.                          *)

Status == Active \cup Cancelled \cup {"done"}
RunId == Nat \X Bot
RunRow == [thread : Thread, status : Status, read : Nat]
Message == [thread : Thread, key : Key \cup {NoKey}, asked : Key \cup {NoKey},
            live : BOOLEAN, from : {0} \X (Bot \cup {Nobody})]
InTransaction == {"written", "inbound", "echo"}
CallRow == [pc : {"begun", "replay"} \cup InTransaction, key : Key, seen : SUBSET RunId]

Rows ==
    /\ message \in Seq(Message)
    /\ DOMAIN run \subseteq RunId
    /\ {0} \X Sender \subseteq DOMAIN run
    /\ \A id \in DOMAIN run : run[id] \in RunRow
    /\ lock \in [Thread -> Call \cup {Nobody}]
    /\ call \in [Call -> {Idle} \cup CallRow]

\* Only a call whose transaction is under way holds a lock.
LocksHeld == \A t \in Thread : lock[t] = Nobody \/ call[lock[t]].pc \in InTransaction

\* A message carries the key of the call that wrote it, or is the echo of a delivery.
KeysWritten ==
    \A m \in DOMAIN message :
        /\ message[m].asked # NoKey =>
             /\ message[m].thread = Address[message[m].asked].thread
             /\ message[m].key = Nonce(message[m].asked)
        /\ message[m].from[2] # Nobody => message[m].from = <<0, message[m].thread>>

\* A run is in the thread of the message that started it; a sending run in its bot's own.
RunsPlaced ==
    \A id \in DOMAIN run :
        IF id[1] = 0 THEN run[id].thread = id[2]
        ELSE id[1] \in DOMAIN message /\ run[id].thread = message[id[1]].thread

\* What a call holds, and what cannot have happened while it holds it.
CallHolds(c) ==
    /\ call[c].pc \in InTransaction => lock[Of(c).thread] = c
    /\ call[c].pc = "echo" => lock[Of(c).from] = c
    /\ call[c].pc \in {"inbound", "echo"} => Of(c).kind = "bot_message"

CallIsFirst(c) ==
    call[c].pc \in InTransaction /\ Of(c).kind # "follow_up" =>
        \A m \in DOMAIN message : message[m].live => message[m].asked # call[c].key

CallSaw(c) ==
    call[c].pc # "idle" /\ Of(c).kind = "send" =>
        \A id \in call[c].seen :
            id \in DOMAIN run /\ run[id].thread = Of(c).thread /\ id[2] \in Of(c).to

CallMayEcho(c) ==
    call[c].pc = "echo" => run[SendingRun(call[c].key)].status # "cleared"

CallOK(c) == CallHolds(c) /\ CallIsFirst(c) /\ CallSaw(c) /\ CallMayEcho(c)

CallsOK == \A c \in Call : CallOK(c)

SendIInv ==
    /\ Rows /\ LocksHeld /\ KeysWritten /\ RunsPlaced /\ CallsOK
    /\ OneDelivery /\ EveryMessageIsHeard /\ ClearedStaysClear

-----------------------------------------------------------------------------
(* The steps of a call that write no row but its locks.                    *)

\* Goto changes the stage of a call and nothing else about it.
LEMMA GotoEffect ==
    ASSUME NEW c \in Call, NEW pc \in {"begun", "replay"} \cup InTransaction,
           call \in [Call -> {Idle} \cup CallRow], call[c] \in CallRow, Goto(c, pc)
    PROVE  /\ call' \in [Call -> {Idle} \cup CallRow]
           /\ call'[c] \in CallRow
           /\ call'[c].pc = pc /\ call'[c].key = call[c].key /\ call'[c].seen = call[c].seen
           /\ \A d \in Call \ {c} : call'[d] = call[d]
<1>1. call' = [call EXCEPT ![c] = [call[c] EXCEPT !.pc = pc]]
  BY DEF Goto
<1>2. [call[c] EXCEPT !.pc = pc] \in CallRow
  BY DEF CallRow
<1> QED BY <1>1, <1>2 DEF CallRow

\* A call that is not idle has a row with a key.
LEMMA BusyHasRow ==
    ASSUME Rows, NEW c \in Call, call[c].pc # "idle"
    PROVE  call[c] \in CallRow /\ call[c].key \in Key
BY DEF Rows, Idle, CallRow

\* What a key addresses.
LEMMA AddressShape ==
    ASSUME NEW k \in Key
    PROVE  /\ Address[k].thread \in Thread
           /\ Address[k].to \subseteq Bot
           /\ Address[k].from \in Bot \cup {Nobody}
           /\ Address[k].kind = "bot_message" =>
                /\ Address[k].from \in Sender /\ Address[k].from \in Thread
                /\ Address[k].from # Address[k].thread
                /\ SendingRun(k) = <<0, Address[k].from>>
<1>1. Address[k] \in [kind : Kind, thread : Thread, to : SUBSET Bot, from : Bot \cup {Nobody}]
  BY SendAssumption
<1> QED BY <1>1, SendAssumption DEF Thread, SendingRun

\* A step of c that writes neither a message nor a run: it takes free locks or gives its
\* own back, and every other call is where it was.
LEMMA CallStep ==
    ASSUME SendIInv, NEW c \in Call, UNCHANGED <<message, run>>, Rows', LocksHeld',
           \A d \in Call \ {c} : call'[d] = call[d],
           \A t \in Thread : lock[t] \notin {c, Nobody} => lock'[t] = lock[t],
           CallOK(c)'
    PROVE  SendIInv'
<1>1. ASSUME NEW d \in Call \ {c} PROVE CallOK(d)'
  <2>1. CallOK(d) /\ call'[d] = call[d]
    BY DEF SendIInv, CallsOK
  <2>2. CASE call[d].pc = "idle"
    BY <2>1, <2>2 DEF CallOK, CallHolds, CallIsFirst, CallSaw, CallMayEcho, InTransaction
  <2>3. CASE call[d].pc # "idle"
    <3>1. call[d].key \in Key
      BY <2>3, BusyHasRow DEF SendIInv
    <3>2. Of(d).thread \in Thread /\ (Of(d).kind = "bot_message" => Of(d).from \in Thread)
      BY <3>1, AddressShape DEF Of
    <3>3. Of(d)' = Of(d) /\ d # Nobody
      BY <2>1, SendAssumption DEF Of
    <3>4. CallHolds(d)'
      BY <2>1, <3>2, <3>3 DEF CallOK, CallHolds
    <3>5. CallIsFirst(d)'
      BY <2>1, <3>3 DEF CallOK, CallIsFirst
    <3>6. CallSaw(d)'
      BY <2>1, <3>3 DEF CallOK, CallSaw
    <3>7. CallMayEcho(d)'
      BY <2>1 DEF CallOK, CallMayEcho, SendingRun
    <3> QED BY <3>4, <3>5, <3>6, <3>7 DEF CallOK
  <2> QED BY <2>2, <2>3
<1>2. CallsOK'
  BY <1>1 DEF CallsOK
<1>3. KeysWritten' /\ RunsPlaced' /\ OneDelivery' /\ EveryMessageIsHeard' /\ ClearedStaysClear'
  BY DEF SendIInv, KeysWritten, RunsPlaced, OneDelivery, EveryMessageIsHeard, ClearedStaysClear
<1> QED BY <1>2, <1>3 DEF SendIInv

\* Giving back what c holds touches no lock of another call.
LEMMA UnlockEffect ==
    ASSUME Rows, NEW c \in Call, lock' = Unlocked(c)
    PROVE  /\ lock' \in [Thread -> Call \cup {Nobody}]
           /\ \A t \in Thread : lock'[t] # c
           /\ \A t \in Thread : lock'[t] = Nobody \/ lock'[t] = lock[t]
           /\ \A t \in Thread : lock[t] # c => lock'[t] = lock[t]
BY SendAssumption DEF Rows, Unlocked

\* A call that ends, or goes back to where it holds nothing, keeps the invariant when it
\* gives its locks back.
LEMMA LeavesTransaction ==
    ASSUME SendIInv, NEW c \in Call, UNCHANGED <<message, run>>, lock' = Unlocked(c),
           \/ Ends(c)
           \/ call[c] \in CallRow /\ (Goto(c, "begun") \/ Goto(c, "replay"))
    PROVE  SendIInv'
<1> USE DEF SendIInv
<1>1. /\ call' \in [Call -> {Idle} \cup CallRow]
      /\ \A d \in Call \ {c} : call'[d] = call[d]
      /\ call'[c].pc \in {"idle", "begun", "replay"}
      /\ call'[c].pc # "idle" =>
           call[c] \in CallRow /\ call'[c].key = call[c].key /\ call'[c].seen = call[c].seen
  <2>1. CASE Ends(c)
    <3>1. call' = [call EXCEPT ![c] = Idle] /\ Idle.pc = "idle"
      BY <2>1 DEF Ends, Idle
    <3> QED BY <3>1 DEF Rows
  <2>2. CASE call[c] \in CallRow /\ (Goto(c, "begun") \/ Goto(c, "replay"))
    BY <2>2, GotoEffect DEF Rows
  <2> QED BY <2>1, <2>2
<1>2. Rows'
  BY <1>1, UnlockEffect DEF Rows
<1>3. LocksHeld'
  <2> SUFFICES ASSUME NEW t \in Thread, lock'[t] # Nobody
               PROVE  call'[lock'[t]].pc \in InTransaction
    BY DEF LocksHeld
  <2>1. lock'[t] = lock[t] /\ lock'[t] # c /\ lock'[t] \in Call
    BY UnlockEffect
  <2> QED BY <1>1, <2>1 DEF LocksHeld
<1>4. CallOK(c)'
  <2>1. call'[c].pc \notin InTransaction
    BY <1>1 DEF InTransaction
  <2>2. CallSaw(c)'
    <3>1. CASE call'[c].pc = "idle"
      BY <3>1 DEF CallSaw
    <3>2. CASE call'[c].pc # "idle"
      <4>1. call[c].pc # "idle" /\ CallSaw(c) /\ Of(c)' = Of(c)
        BY <1>1, <3>2 DEF CallsOK, CallOK, Of, CallRow, InTransaction
      <4> QED BY <1>1, <3>2, <4>1 DEF CallSaw
    <3> QED BY <3>1, <3>2
  <2> QED BY <2>1, <2>2 DEF CallOK, CallHolds, CallIsFirst, CallMayEcho, InTransaction
<1> QED BY <1>1, <1>2, <1>3, <1>4, UnlockEffect, CallStep

\* A call that holds nothing and moves to where it holds nothing.
LEMMA StaysOutside ==
    ASSUME SendIInv, NEW c \in Call, UNCHANGED <<message, run, lock>>,
           call[c].pc \notin InTransaction,
           call' \in [Call -> {Idle} \cup CallRow],
           \A d \in Call \ {c} : call'[d] = call[d],
           call'[c].pc \notin InTransaction, CallSaw(c)'
    PROVE  SendIInv'
<1>1. Rows'
  BY DEF SendIInv, Rows
<1>2. LocksHeld'
  BY DEF SendIInv, LocksHeld, Rows
<1>3. CallOK(c)'
  BY DEF CallOK, CallHolds, CallIsFirst, CallMayEcho, InTransaction
<1> QED BY <1>1, <1>2, <1>3, CallStep

\* sendThreadMessage, sendUserMessage and messageBot look for an earlier message.
LEMMA AsksStep ==
    ASSUME SendIInv, NEW c \in Call, NEW k \in Key, Asks(c, k)
    PROVE  SendIInv'
<1> DEFINE begun == [pc |-> "begun", key |-> k, seen |-> {}]
<1>1. begun \in CallRow
  BY DEF CallRow
<1>2. UNCHANGED <<message, run, lock>> /\ call[c].pc = "idle"
  BY DEF Asks, At
<1>3. CASE call' = call
  BY <1>2, <1>3, StaysOutside DEF SendIInv, Rows, CallSaw, InTransaction
<1>4. CASE call' = [call EXCEPT ![c] = begun]
  <2>1. call'[c] = begun /\ call' \in [Call -> {Idle} \cup CallRow]
    BY <1>1, <1>4 DEF SendIInv, Rows
  <2> QED BY <1>2, <1>4, <2>1, StaysOutside DEF CallSaw, InTransaction
<1> QED BY <1>3, <1>4 DEF Asks

\* The unique key refuses the insert.
LEMMA RejectedStep ==
    ASSUME SendIInv, NEW c \in Call, Rejected(c)
    PROVE  SendIInv'
<1>1. call[c].pc = "begun" /\ Goto(c, "replay") /\ UNCHANGED <<message, run, lock>>
  BY DEF Rejected, At
<1>2. call[c] \in CallRow /\ CallSaw(c)
  BY <1>1, BusyHasRow DEF SendIInv, CallsOK, CallOK
<1>3. /\ call' \in [Call -> {Idle} \cup CallRow]
      /\ call'[c].pc = "replay" /\ call'[c].key = call[c].key /\ call'[c].seen = call[c].seen
      /\ \A d \in Call \ {c} : call'[d] = call[d]
  BY <1>1, <1>2, GotoEffect DEF SendIInv, Rows
<1>4. CallSaw(c)'
  BY <1>1, <1>2, <1>3 DEF CallSaw, Of
<1> QED BY <1>1, <1>3, <1>4, StaysOutside DEF InTransaction

\* The loser of a key answers with the winner's receipt.
LEMMA ReplaysStep ==
    ASSUME SendIInv, NEW c \in Call, Replays(c)
    PROVE  SendIInv'
<1>1. call[c].pc = "replay" /\ call' = [call EXCEPT ![c] = Idle] /\ UNCHANGED <<message, run, lock>>
  BY DEF Replays, At, Ends
<1>2. call'[c].pc = "idle" /\ call' \in [Call -> {Idle} \cup CallRow]
  BY <1>1 DEF SendIInv, Rows, Idle
<1> QED BY <1>1, <1>2, StaysOutside DEF CallSaw, InTransaction

\* The row lock of the thread: no message has the key, and none can appear while it is held.
LEMMA LocksStep ==
    ASSUME SendIInv, NEW c \in Call, Locks(c)
    PROVE  SendIInv'
<1> USE DEF SendIInv
<1> DEFINE k == call[c].key
           found == CASE Of(c).kind = "send" -> SupersededBy(k)
                      [] Of(c).kind = "follow_up" -> BusyRuns(k)
                      [] OTHER -> {}
           stage == IF Of(c).kind = "bot_message" THEN "inbound" ELSE "written"
           row == [pc |-> stage, key |-> k, seen |-> found]
<1>1. /\ call[c].pc = "begun"
      /\ lock[Of(c).thread] = Nobody
      /\ Receipt(k) = {}
      /\ lock' = [lock EXCEPT ![Of(c).thread] = c]
      /\ call' = [call EXCEPT ![c] = row]
      /\ UNCHANGED <<message, run>>
  BY DEF Locks, LockFree, At
<1>2. k \in Key /\ Of(c) = Address[k] /\ Of(c).thread \in Thread
  BY <1>1, BusyHasRow, AddressShape DEF Of
<1>3. found \subseteq RunId
  <2>1. SupersededBy(k) \subseteq RunId /\ BusyRuns(k) \subseteq RunId
    BY DEF SupersededBy, BusyRuns, Rows
  <2> QED BY <2>1
<1>4. stage \in {"inbound", "written"} /\ (stage = "inbound" => Of(c).kind = "bot_message")
  OBVIOUS
<1>5. Of(c).kind = "send" => found = SupersededBy(k)
  OBVIOUS
<1> HIDE DEF found, stage
<1>6. row \in CallRow
  BY <1>2, <1>3, <1>4 DEF CallRow, InTransaction
<1>7. call'[c] = row /\ call' \in [Call -> {Idle} \cup CallRow]
      /\ \A d \in Call \ {c} : call'[d] = call[d]
  BY <1>1, <1>6 DEF Rows
<1>8. lock' \in [Thread -> Call \cup {Nobody}] /\ lock'[Of(c).thread] = c
      /\ \A t \in Thread : t # Of(c).thread => lock'[t] = lock[t]
  BY <1>1, <1>2 DEF Rows
<1>9. Rows'
  BY <1>1, <1>7, <1>8 DEF Rows
<1>10. call'[c].pc = stage /\ call'[c].key = k /\ call'[c].seen = found /\ Of(c)' = Of(c)
  BY <1>7 DEF Of
<1>11. LocksHeld'
  <2> SUFFICES ASSUME NEW t \in Thread, lock'[t] # Nobody
               PROVE  call'[lock'[t]].pc \in InTransaction
    BY DEF LocksHeld
  <2>1. CASE t = Of(c).thread
    BY <1>4, <1>8, <1>10, <2>1 DEF InTransaction
  <2>2. CASE t # Of(c).thread
    <3>1. lock'[t] = lock[t] /\ lock[t] \in Call /\ call[lock[t]].pc \in InTransaction
      BY <1>8, <2>2 DEF LocksHeld, Rows
    <3>2. lock[t] # c
      BY <1>1, <3>1 DEF InTransaction
    <3> QED BY <1>7, <3>1, <3>2
  <2> QED BY <2>1, <2>2
<1>12. CallHolds(c)'
  BY <1>4, <1>8, <1>10 DEF CallHolds
<1>13. CallIsFirst(c)'
  <2> SUFFICES ASSUME Of(c).kind # "follow_up", NEW m \in DOMAIN message, message[m].live,
                      message[m].asked = k
               PROVE  FALSE
    BY <1>1, <1>10 DEF CallIsFirst
  <2>1. Nonce(k) = k /\ k # NoKey
    BY <1>2, SendAssumption DEF Nonce
  <2>2. m \in Receipt(k)
    BY <1>2, <2>1 DEF KeysWritten, Receipt
  <2> QED BY <1>1, <2>2
<1>14. CallSaw(c)'
  BY <1>1, <1>2, <1>5, <1>10 DEF CallSaw, SupersededBy
<1>15. CallMayEcho(c)'
  BY <1>4, <1>10 DEF CallMayEcho
<1>16. CallOK(c)'
  BY <1>12, <1>13, <1>14, <1>15 DEF CallOK
<1>17. \A t \in Thread : lock[t] \notin {c, Nobody} => lock'[t] = lock[t]
  BY <1>1, <1>8
<1> QED BY <1>1, <1>7, <1>9, <1>11, <1>16, <1>17, CallStep

\* The second row lock of a delivery, and assertRunCanWriteHistory under it.
LEMMA LocksEchoStep ==
    ASSUME SendIInv, NEW c \in Call, LocksEcho(c)
    PROVE  SendIInv'
<1> USE DEF SendIInv
<1>1. call[c].pc = "inbound" /\ lock[Of(c).from] = Nobody /\ UNCHANGED <<message, run>>
  BY DEF LocksEcho, LockFree, At
<1>2. call[c] \in CallRow /\ CallOK(c) /\ Of(c).kind = "bot_message"
  BY <1>1, BusyHasRow DEF CallsOK, CallOK, CallHolds
<1>3. Of(c).from \in Thread /\ Of(c).thread \in Thread /\ Of(c).from # Of(c).thread
  BY <1>1, <1>2, BusyHasRow, AddressShape DEF Of
<1>4. CASE ~ CanWriteHistory(SendingRun(call[c].key))
  BY <1>1, <1>4, LeavesTransaction DEF LocksEcho
<1>5. CASE CanWriteHistory(SendingRun(call[c].key))
  <2>1. Goto(c, "echo") /\ lock' = [lock EXCEPT ![Of(c).from] = c]
    BY <1>5 DEF LocksEcho
  <2>2. /\ call' \in [Call -> {Idle} \cup CallRow]
        /\ call'[c].pc = "echo" /\ call'[c].key = call[c].key /\ call'[c].seen = call[c].seen
        /\ \A d \in Call \ {c} : call'[d] = call[d]
        /\ Of(c)' = Of(c)
    BY <1>2, <2>1, GotoEffect DEF Rows, Of, InTransaction
  <2>3. /\ lock' \in [Thread -> Call \cup {Nobody}] /\ lock'[Of(c).from] = c
        /\ \A t \in Thread : t # Of(c).from => lock'[t] = lock[t]
    BY <1>3, <2>1 DEF Rows
  <2>4. Rows'
    BY <1>1, <2>2, <2>3 DEF Rows
  <2>5. LocksHeld'
    <3> SUFFICES ASSUME NEW t \in Thread, lock'[t] # Nobody
                 PROVE  call'[lock'[t]].pc \in InTransaction
      BY DEF LocksHeld
    <3>1. CASE lock'[t] = c
      BY <2>2, <3>1 DEF InTransaction
    <3>2. CASE lock'[t] # c
      BY <2>2, <2>3, <3>2 DEF LocksHeld, Rows
    <3> QED BY <3>1, <3>2
  <2>6. CallOK(c)'
    <3>1. CallHolds(c)'
      BY <1>1, <1>2, <1>3, <2>2, <2>3 DEF CallOK, CallHolds, InTransaction
    <3>2. CallIsFirst(c)'
      BY <1>1, <1>2, <2>2 DEF CallOK, CallIsFirst, InTransaction
    <3>3. CallSaw(c)'
      BY <1>1, <1>2, <2>2 DEF CallOK, CallSaw
    <3>4. CallMayEcho(c)'
      BY <1>1, <1>5, <2>2 DEF CallMayEcho, CanWriteHistory, SendingRun, Cancelled
    <3> QED BY <3>1, <3>2, <3>3, <3>4 DEF CallOK
  <2>7. \A t \in Thread : lock[t] \notin {c, Nobody} => lock'[t] = lock[t]
    BY <1>1, <2>3
  <2> QED BY <1>1, <2>2, <2>4, <2>5, <2>6, <2>7, CallStep
<1> QED BY <1>4, <1>5

\* The database ends a transaction: a deadlock of two deliveries, or any abort.
LEMMA AbortsStep ==
    ASSUME SendIInv, NEW c \in Call, Deadlock(c) \/ Aborts(c)
    PROVE  SendIInv'
<1>1. CASE Deadlock(c)
  BY <1>1, LeavesTransaction DEF Deadlock
<1>2. CASE Aborts(c)
  <2>1. call[c] \in CallRow
    BY <1>2, BusyHasRow DEF Aborts, SendIInv
  <2> QED BY <1>2, <2>1, LeavesTransaction DEF Aborts
<1> QED BY <1>1, <1>2

-----------------------------------------------------------------------------
(* The commits.                                                            *)

\* What a committing call does to the runs: it starts those it found no reason not to,
\* and a send supersedes the ones it read under its lock.
LEMMA RunsAfterEffect ==
    ASSUME SendIInv, NEW c \in Call, call[c] \in CallRow, run' = RunsAfter(c)
    PROVE  /\ DOMAIN run' = DOMAIN run \cup Started(c)
           /\ \A id \in Started(c) :
                /\ id \in RunId /\ id[1] = Len(message) + 1 /\ id[2] \in Of(c).to
                /\ run'[id].thread = Of(c).thread /\ run'[id].status = "queued"
                /\ run'[id] \in RunRow
           /\ \A id \in DOMAIN run :
                /\ id \notin Started(c)
                /\ run'[id] \in RunRow
                /\ run'[id].thread = run[id].thread /\ run'[id].read = run[id].read
                /\ run'[id].status = IF Of(c).kind = "send" /\ id \in call[c].seen
                                     THEN "superseded" ELSE run[id].status
<1> USE DEF SendIInv
<1>1. Len(message) \in Nat /\ DOMAIN message = 1 .. Len(message)
  BY DEF Rows
<1>2. Of(c).thread \in Thread /\ Of(c).to \subseteq Bot
  BY AddressShape DEF Of, CallRow
<1>3. \A id \in Started(c) : id \in RunId /\ id[1] = Len(message) + 1 /\ id[2] \in Of(c).to
  BY <1>1, <1>2 DEF Started, RunId
<1>4. \A id \in DOMAIN run : id \notin Started(c)
  BY <1>1, <1>3 DEF RunsPlaced
<1>5. DOMAIN run' = DOMAIN run \cup Started(c)
  BY DEF RunsAfter
<1>6. ASSUME NEW id \in Started(c)
      PROVE  /\ run'[id].thread = Of(c).thread /\ run'[id].status = "queued"
             /\ run'[id] \in RunRow
  <2>1. run'[id] = [thread |-> Of(c).thread, status |-> "queued", read |-> 0]
    BY <1>6 DEF RunsAfter
  <2> QED BY <1>2, <2>1 DEF RunRow, Status, Active
<1>7. ASSUME NEW id \in DOMAIN run
      PROVE  /\ run'[id] \in RunRow
             /\ run'[id].thread = run[id].thread /\ run'[id].read = run[id].read
             /\ run'[id].status = IF Of(c).kind = "send" /\ id \in call[c].seen
                                  THEN "superseded" ELSE run[id].status
  <2>1. run[id] \in RunRow /\ id \notin Started(c)
    BY <1>4 DEF Rows
  <2>2. CASE Of(c).kind = "send" /\ id \in call[c].seen
    <3>1. run'[id] = [run[id] EXCEPT !.status = "superseded"]
      BY <2>1, <2>2 DEF RunsAfter
    <3> QED BY <2>1, <2>2, <3>1 DEF RunRow, Status, Cancelled
  <2>3. CASE ~ (Of(c).kind = "send" /\ id \in call[c].seen)
    <3>1. run'[id] = run[id]
      BY <2>1, <2>3 DEF RunsAfter
    <3> QED BY <2>1, <2>3, <3>1
  <2> QED BY <2>2, <2>3
<1> QED BY <1>3, <1>4, <1>5, <1>6, <1>7

\* A commit: the message of the call, then the echo of a delivery; the runs; the locks.
Delivers(c) ==
    LET n == Len(message) IN
    /\ message' \in Seq(Message)
    /\ DOMAIN message \subseteq DOMAIN message'
    /\ DOMAIN message' \subseteq DOMAIN message \cup {n + 1, n + 2}
    /\ \A m \in DOMAIN message : message'[m] = message[m]
    /\ n + 1 \in DOMAIN message'
    /\ message'[n + 1] = Written(Of(c).thread, Nonce(call[c].key), call[c].key, <<0, Nobody>>)
    /\ n + 2 \in DOMAIN message' =>
         /\ call[c].pc = "echo"
         /\ message'[n + 2] = Written(Of(c).from, NoKey, NoKey, SendingRun(call[c].key))
    /\ run' = RunsAfter(c)
    /\ lock' = Unlocked(c)
    /\ Ends(c) \/ Goto(c, "replay")

\* A commit keeps the invariant.
LEMMA DeliversStep ==
    ASSUME SendIInv, NEW c \in Call, call[c].pc \in InTransaction, Delivers(c)
    PROVE  SendIInv'
<1> USE DEF SendIInv
<1> DEFINE n == Len(message)
           k == call[c].key
<1>1. n \in Nat /\ DOMAIN message = 1 .. n
  BY DEF Rows
<1>2. call[c] \in CallRow /\ k \in Key /\ k # NoKey /\ Of(c) = Address[k] /\ CallOK(c)
  BY BusyHasRow, SendAssumption DEF InTransaction, Of, CallsOK
<1>3. /\ Of(c).thread \in Thread /\ Of(c).to \subseteq Bot
      /\ Of(c).kind = "bot_message" =>
           /\ Of(c).from \in Sender /\ Of(c).from \in Thread
           /\ SendingRun(k) = <<0, Of(c).from>>
  BY <1>2, AddressShape
<1>4. /\ message' \in Seq(Message)
      /\ DOMAIN message \subseteq DOMAIN message'
      /\ DOMAIN message' \subseteq DOMAIN message \cup {n + 1, n + 2}
      /\ \A m \in DOMAIN message : message'[m] = message[m]
      /\ n + 1 \in DOMAIN message' /\ n + 1 \notin DOMAIN message /\ n + 2 \notin DOMAIN message
      /\ run' = RunsAfter(c) /\ lock' = Unlocked(c)
      /\ Ends(c) \/ Goto(c, "replay")
  BY <1>1 DEF Delivers
<1>5. /\ message'[n + 1].thread = Of(c).thread /\ message'[n + 1].key = Nonce(k)
      /\ message'[n + 1].asked = k /\ message'[n + 1].live
      /\ message'[n + 1].from = <<0, Nobody>>
  BY DEF Delivers, Written
<1>6. n + 2 \in DOMAIN message' =>
        /\ call[c].pc = "echo" /\ Of(c).kind = "bot_message"
        /\ message'[n + 2].thread = Of(c).from /\ message'[n + 2].asked = NoKey
        /\ message'[n + 2].from = <<0, Of(c).from>> /\ SendingRun(k) = <<0, Of(c).from>>
  BY <1>2, <1>3 DEF Delivers, Written, CallOK, CallHolds
<1>7. /\ DOMAIN run' = DOMAIN run \cup Started(c)
      /\ \A id \in Started(c) :
           /\ id \in RunId /\ id[1] = n + 1 /\ id[2] \in Of(c).to
           /\ run'[id].thread = Of(c).thread /\ run'[id].status = "queued"
           /\ run'[id] \in RunRow
      /\ \A id \in DOMAIN run :
           /\ id \notin Started(c)
           /\ run'[id] \in RunRow
           /\ run'[id].thread = run[id].thread /\ run'[id].read = run[id].read
           /\ run'[id].status = IF Of(c).kind = "send" /\ id \in call[c].seen
                                THEN "superseded" ELSE run[id].status
  BY <1>2, <1>4, RunsAfterEffect
<1>8. /\ call' \in [Call -> {Idle} \cup CallRow]
      /\ \A d \in Call \ {c} : call'[d] = call[d]
      /\ call'[c].pc \in {"idle", "replay"}
      /\ call'[c].pc # "idle" => call'[c].key = k /\ call'[c].seen = call[c].seen
  <2>1. CASE Ends(c)
    <3>1. call' = [call EXCEPT ![c] = Idle] /\ Idle.pc = "idle"
      BY <2>1 DEF Ends, Idle
    <3> QED BY <3>1 DEF Rows
  <2>2. CASE Goto(c, "replay")
    BY <1>2, <2>2, GotoEffect DEF Rows
  <2> QED BY <1>4, <2>1, <2>2
<1>9. /\ lock' \in [Thread -> Call \cup {Nobody}]
      /\ \A t \in Thread : lock'[t] # c
      /\ \A t \in Thread : lock'[t] = Nobody \/ lock'[t] = lock[t]
      /\ \A t \in Thread : lock[t] # c => lock'[t] = lock[t]
  BY <1>4, UnlockEffect
<1> HIDE DEF n, k
<1>10. Rows'
  <2>1. DOMAIN run' \subseteq RunId /\ {0} \X Sender \subseteq DOMAIN run'
    BY <1>7 DEF Rows
  <2> QED BY <1>4, <1>7, <1>8, <1>9, <2>1 DEF Rows
<1>11. LocksHeld'
  <2> SUFFICES ASSUME NEW t \in Thread, lock'[t] # Nobody
               PROVE  call'[lock'[t]].pc \in InTransaction
    BY DEF LocksHeld
  <2>1. lock'[t] = lock[t] /\ lock'[t] # c /\ lock'[t] \in Call
    BY <1>9
  <2> QED BY <1>8, <2>1 DEF LocksHeld
<1>12. KeysWritten'
  <2> SUFFICES ASSUME NEW m \in DOMAIN message'
               PROVE  /\ message'[m].asked # NoKey =>
                           /\ message'[m].thread = Address[message'[m].asked].thread
                           /\ message'[m].key = Nonce(message'[m].asked)
                      /\ message'[m].from[2] # Nobody =>
                           message'[m].from = <<0, message'[m].thread>>
    BY DEF KeysWritten, Nonce
  <2>1. CASE m \in DOMAIN message
    BY <1>4, <2>1 DEF KeysWritten
  <2>2. CASE m = n + 1
    BY <1>2, <1>5, <2>2
  <2>3. CASE m = n + 2
    BY <1>6, <2>3
  <2> QED BY <1>4, <2>1, <2>2, <2>3
<1>13. RunsPlaced'
  <2> SUFFICES ASSUME NEW id \in DOMAIN run'
               PROVE  IF id[1] = 0 THEN run'[id].thread = id[2]
                      ELSE id[1] \in DOMAIN message' /\ run'[id].thread = message'[id[1]].thread
    BY DEF RunsPlaced
  <2>1. CASE id \in DOMAIN run
    BY <1>4, <1>7, <2>1 DEF RunsPlaced
  <2>2. CASE id \in Started(c)
    BY <1>1, <1>4, <1>5, <1>7, <2>2
  <2> QED BY <1>7, <2>1, <2>2
<1>14. CallOK(c)'
  <2>1. CallSaw(c)'
    <3>1. CASE call'[c].pc = "idle"
      BY <3>1 DEF CallSaw
    <3>2. CASE call'[c].pc # "idle"
      <4>1. Of(c)' = Of(c) /\ call'[c].seen = call[c].seen
        BY <1>2, <1>8, <3>2 DEF Of, k
      <4>2. call[c].pc # "idle" /\ CallSaw(c)
        BY <1>2 DEF CallOK, InTransaction
      <4> QED BY <1>7, <4>1, <4>2 DEF CallSaw
    <3> QED BY <3>1, <3>2
  <2> QED BY <1>8, <2>1 DEF CallOK, CallHolds, CallIsFirst, CallMayEcho, InTransaction
<1>15. ASSUME NEW d \in Call \ {c} PROVE CallOK(d)'
  <2>1. CallOK(d) /\ call'[d] = call[d] /\ Of(d)' = Of(d)
    BY <1>8 DEF CallsOK, Of
  <2>2. CASE call[d].pc = "idle"
    BY <2>1, <2>2 DEF CallOK, CallHolds, CallIsFirst, CallSaw, CallMayEcho, InTransaction
  <2>3. CASE call[d].pc # "idle"
    <3>1. call[d].key \in Key /\ Of(d) = Address[call[d].key]
      BY <2>3, BusyHasRow DEF Of
    <3>2. Of(d).thread \in Thread /\ (Of(d).kind = "bot_message" =>
            /\ Of(d).from \in Thread
            /\ SendingRun(call[d].key) \in DOMAIN run)
      BY <3>1, AddressShape DEF Rows
    <3>3. CallHolds(d)'
      BY <1>9, <2>1, <3>2 DEF CallOK, CallHolds
    <3>4. CallIsFirst(d)'
      <4> SUFFICES ASSUME call[d].pc \in InTransaction, Of(d).kind # "follow_up",
                          NEW m \in DOMAIN message', message'[m].live
                   PROVE  message'[m].asked # call[d].key
        BY <2>1 DEF CallIsFirst
      <4>1. CASE m \in DOMAIN message
        BY <1>4, <2>1, <4>1 DEF CallOK, CallIsFirst
      <4>2. CASE m = n + 1
        <5>1. call[d].key # k
          BY <1>2, <2>1, <3>1 DEF CallOK, CallHolds
        <5> QED BY <1>5, <4>2, <5>1
      <4>3. CASE m = n + 2
        BY <1>6, <3>1, <4>3, SendAssumption
      <4> QED BY <1>4, <4>1, <4>2, <4>3
    <3>5. CallSaw(d)'
      BY <1>7, <2>1 DEF CallOK, CallSaw
    <3>6. CallMayEcho(d)'
      <4> SUFFICES ASSUME call[d].pc = "echo"
                   PROVE  run'[SendingRun(call[d].key)].status # "cleared"
        BY <2>1 DEF CallMayEcho, SendingRun
      <4>1. SendingRun(call[d].key) \in DOMAIN run
        BY <2>1, <3>2 DEF CallOK, CallHolds
      <4> QED BY <1>7, <2>1, <4>1 DEF CallOK, CallMayEcho
    <3> QED BY <3>3, <3>4, <3>5, <3>6 DEF CallOK
  <2> QED BY <2>2, <2>3
<1>16. CallsOK'
  BY <1>14, <1>15 DEF CallsOK
<1>17. OneDelivery'
  <2> SUFFICES ASSUME NEW m \in DOMAIN message', message'[m].live,
                      NEW o \in DOMAIN message', message'[o].live,
                      m # o, message'[m].asked = message'[o].asked,
                      message'[m].asked # NoKey
               PROVE  Address[message'[m].asked].kind = "follow_up"
    BY DEF OneDelivery
  <2>1. m # n + 2 /\ o # n + 2
    BY <1>6
  <2>2. CASE m \in DOMAIN message /\ o \in DOMAIN message
    BY <1>4, <2>2 DEF OneDelivery
  <2>3. CASE (m = n + 1 /\ o \in DOMAIN message) \/ (o = n + 1 /\ m \in DOMAIN message)
    <3>1. PICK old \in DOMAIN message : message[old].live /\ message[old].asked = k
      BY <1>4, <1>5, <2>3
    <3>2. Of(c).kind = "follow_up"
      BY <1>2, <3>1 DEF CallOK, CallIsFirst, k
    <3> QED BY <1>2, <1>5, <2>3, <3>2
  <2> QED BY <1>4, <2>1, <2>2, <2>3
<1>18. EveryMessageIsHeard'
  <2> SUFFICES ASSUME NEW id \in DOMAIN run', id[1] # 0, message'[id[1]].live
               PROVE  \E other \in DOMAIN run' :
                        /\ other[2] = id[2] /\ run'[other].thread = run'[id].thread
                        /\ \/ run'[other].status = "queued"
                           \/ /\ run'[other].status \in {"running", "done", "stopped"}
                              /\ run'[other].read >= id[1]
    BY DEF EveryMessageIsHeard
  <2>1. CASE id \in Started(c)
    BY <1>7, <2>1
  <2>2. CASE id \in DOMAIN run
    <3>1. message[id[1]].live
      BY <1>4, <2>2 DEF RunsPlaced
    <3>2. PICK other \in DOMAIN run :
            /\ other[2] = id[2] /\ run[other].thread = run[id].thread
            /\ \/ run[other].status = "queued"
               \/ run[other].status \in {"running", "done", "stopped"} /\ run[other].read >= id[1]
      BY <2>2, <3>1 DEF EveryMessageIsHeard
    <3>3. CASE ~ (Of(c).kind = "send" /\ other \in call[c].seen)
      BY <1>7, <2>2, <3>2, <3>3
    <3>4. CASE Of(c).kind = "send" /\ other \in call[c].seen
      <4>1. run[other].thread = Of(c).thread /\ other[2] \in Of(c).to
        BY <1>2, <3>4 DEF CallOK, CallSaw, InTransaction
      <4>2. PICK next : next = <<n + 1, other[2]>>
        OBVIOUS
      <4>3. next \in Started(c) /\ next[2] = id[2]
        BY <3>2, <3>4, <4>1, <4>2 DEF Started, n
      <4>4. next \in DOMAIN run' /\ run'[next].status = "queued"
            /\ run'[next].thread = run'[id].thread
        BY <1>7, <2>2, <3>2, <4>1, <4>3
      <4> QED BY <4>3, <4>4
    <3> QED BY <3>3, <3>4
  <2> QED BY <1>7, <2>1, <2>2
<1>19. ClearedStaysClear'
  <2>1. ASSUME NEW m \in DOMAIN message', message'[m].live, message'[m].from \in DOMAIN run'
        PROVE  run'[message'[m].from].status # "cleared"
    <3>1. message'[m].from[1] = 0
      <4>1. message'[m] \in Message
        BY <1>4
      <4>2. message'[m].from \in {0} \X (Bot \cup {Nobody})
        BY <4>1 DEF Message
      <4> QED BY <4>2
    <3>2. message'[m].from \in DOMAIN run
      BY <1>1, <1>7, <2>1, <3>1
    <3>3. CASE m \in DOMAIN message
      BY <1>4, <1>7, <2>1, <3>2, <3>3 DEF ClearedStaysClear
    <3>4. CASE m = n + 1
      <4>1. <<0, Nobody>> \in RunId
        BY <1>5, <3>2, <3>4 DEF Rows
      <4> QED BY <4>1, SendAssumption DEF RunId
    <3>5. CASE m = n + 2
      <4>1. run[SendingRun(k)].status # "cleared"
        BY <1>2, <1>6, <3>5 DEF CallOK, CallMayEcho, k
      <4> QED BY <1>6, <1>7, <3>2, <3>5, <4>1
    <3> QED BY <1>4, <3>3, <3>4, <3>5
  <2>2. ASSUME NEW id \in DOMAIN run', id[1] # 0, run'[id].status \in Active
        PROVE  message'[id[1]].live
    <3>1. CASE id \in Started(c)
      BY <1>5, <1>7, <3>1
    <3>2. CASE id \in DOMAIN run
      <4>1. run[id].status \in Active
        BY <1>7, <2>2, <3>2 DEF Active
      <4> QED BY <1>4, <2>2, <3>2, <4>1 DEF ClearedStaysClear, RunsPlaced
    <3> QED BY <1>7, <3>1, <3>2
  <2> QED BY <2>1, <2>2 DEF ClearedStaysClear
<1> QED BY <1>10, <1>11, <1>12, <1>13, <1>16, <1>17, <1>18, <1>19

\* The rows a call writes are rows of the table.
LEMMA WrittenIsMessage ==
    ASSUME NEW t \in Thread, NEW key \in Key \cup {NoKey}, NEW asked \in Key \cup {NoKey},
           NEW from \in {0} \X (Bot \cup {Nobody})
    PROVE  Written(t, key, asked, from) \in Message
BY DEF Written, Message

\* Every commit writes what Delivers says.
LEMMA CommitsStep ==
    ASSUME SendIInv, NEW c \in Call,
           Commits(c) \/ CommitLooksFailed(c) \/ CommitsDelivery(c)
    PROVE  SendIInv'
<1> USE DEF SendIInv
<1> DEFINE k == call[c].key
           own == Written(Of(c).thread, Nonce(k), k, <<0, Nobody>>)
           echo == Written(Of(c).from, NoKey, NoKey, SendingRun(k))
<1>1. call[c].pc \in {"written", "echo"}
  BY DEF Commits, CommitLooksFailed, CommitsDelivery, CommitsSend, At
<1>2. call[c] \in CallRow /\ k \in Key /\ Of(c) = Address[k] /\ CallOK(c) /\ message \in Seq(Message)
  BY <1>1, BusyHasRow DEF Of, CallsOK, Rows
<1>3. own \in Message
  BY <1>2, AddressShape, WrittenIsMessage DEF Nonce
<1>4. CASE Commits(c) \/ CommitLooksFailed(c)
  <2>1. /\ message' = Append(message, own) /\ run' = RunsAfter(c) /\ lock' = Unlocked(c)
        /\ Ends(c) \/ Goto(c, "replay")
    BY <1>4 DEF Commits, CommitLooksFailed, CommitsSend
  <2> HIDE DEF own
  <2>2. /\ message' \in Seq(Message) /\ Len(message) \in Nat
        /\ DOMAIN message = 1 .. Len(message) /\ DOMAIN message' = 1 .. Len(message) + 1
        /\ \A m \in DOMAIN message : message'[m] = message[m]
        /\ message'[Len(message) + 1] = own
    BY <1>2, <1>3, <2>1
  <2>3. Delivers(c)
    BY <2>1, <2>2 DEF Delivers, own
  <2> QED BY <1>1, <2>3, DeliversStep DEF InTransaction
<1>5. CASE CommitsDelivery(c)
  <2>1. /\ call[c].pc = "echo" /\ message' = message \o <<own, echo>>
        /\ run' = RunsAfter(c) /\ lock' = Unlocked(c) /\ Ends(c)
    BY <1>5 DEF CommitsDelivery, At
  <2>2. Of(c).kind = "bot_message"
    BY <1>2, <2>1 DEF CallOK, CallHolds
  <2>3. echo \in Message
    <3>1. /\ Of(c).from \in Thread /\ Of(c).from \in Bot
          /\ SendingRun(k) = <<0, Of(c).from>>
      BY <1>2, <2>2, AddressShape, SendAssumption
    <3> QED BY <3>1, WrittenIsMessage
  <2> HIDE DEF own, echo
  <2>4. <<own, echo>> \in Seq(Message) /\ Len(<<own, echo>>) = 2
        /\ <<own, echo>>[1] = own /\ <<own, echo>>[2] = echo
    BY <1>3, <2>3
  <2>5. /\ message' \in Seq(Message) /\ Len(message) \in Nat
        /\ DOMAIN message = 1 .. Len(message) /\ DOMAIN message' = 1 .. Len(message) + 2
        /\ \A m \in DOMAIN message : message'[m] = message[m]
        /\ message'[Len(message) + 1] = own
        /\ message'[Len(message) + 2] = echo
    BY <1>2, <2>1, <2>4
  <2>6. Delivers(c)
    BY <2>1, <2>5 DEF Delivers, own, echo
  <2> QED BY <1>1, <2>6, DeliversStep DEF InTransaction
<1> QED BY <1>4, <1>5

-----------------------------------------------------------------------------
(* The runs themselves, and what the user does to them.                    *)

\* A run moves on, or is stopped: it hears no less than before.
MovesOn(id) ==
    \/ run'[id] = run[id]
    \/ /\ run[id].status = "queued" /\ run'[id].status = "running"
       /\ run'[id].read = Len(message)
    \/ run[id].status = "running" /\ run'[id].status = "done" /\ run'[id].read = run[id].read
    \/ /\ run[id].status \in Active /\ run'[id].status = "stopped"
       /\ run'[id].read = Len(message)

\* Runs that move on keep the invariant.
LEMMA RunStep ==
    ASSUME SendIInv, UNCHANGED <<message, lock, call>>, DOMAIN run' = DOMAIN run,
           \A id \in DOMAIN run : /\ run'[id] \in RunRow /\ run'[id].thread = run[id].thread
                                  /\ MovesOn(id)
    PROVE  SendIInv'
<1> USE DEF SendIInv
<1>1. Len(message) \in Nat /\ DOMAIN message = 1 .. Len(message)
  BY DEF Rows
<1>2. Rows' /\ LocksHeld' /\ KeysWritten' /\ RunsPlaced' /\ OneDelivery'
  BY DEF Rows, LocksHeld, KeysWritten, RunsPlaced, OneDelivery, Nonce
<1>3. \A id \in DOMAIN run : run'[id].status = "cleared" => run[id].status = "cleared"
  BY DEF MovesOn
<1>4. \A id \in DOMAIN run : run'[id].status \in Active => run[id].status \in Active
  BY DEF MovesOn, Active
<1>5. ASSUME NEW c \in Call PROVE CallOK(c)'
  <2>1. CallOK(c) /\ Of(c)' = Of(c)
    BY DEF CallsOK, Of
  <2>2. CallMayEcho(c)'
    <3> SUFFICES ASSUME call[c].pc = "echo"
                 PROVE  run'[SendingRun(call[c].key)].status # "cleared"
      BY DEF CallMayEcho, SendingRun
    <3>1. Of(c).kind = "bot_message" /\ call[c].key \in Key /\ Of(c) = Address[call[c].key]
      BY <2>1, BusyHasRow DEF CallOK, CallHolds, Of
    <3>2. SendingRun(call[c].key) \in DOMAIN run
      BY <3>1, AddressShape DEF Rows
    <3> QED BY <1>3, <2>1, <3>2 DEF CallOK, CallMayEcho
  <2> QED BY <2>1, <2>2 DEF CallOK, CallHolds, CallIsFirst, CallSaw
<1>6. EveryMessageIsHeard'
  <2> SUFFICES ASSUME NEW id \in DOMAIN run, id[1] # 0, message[id[1]].live
               PROVE  \E other \in DOMAIN run' :
                        /\ other[2] = id[2] /\ run'[other].thread = run'[id].thread
                        /\ \/ run'[other].status = "queued"
                           \/ /\ run'[other].status \in {"running", "done", "stopped"}
                              /\ run'[other].read >= id[1]
    BY DEF EveryMessageIsHeard
  <2>1. PICK other \in DOMAIN run :
          /\ other[2] = id[2] /\ run[other].thread = run[id].thread
          /\ \/ run[other].status = "queued"
             \/ run[other].status \in {"running", "done", "stopped"} /\ run[other].read >= id[1]
    BY DEF EveryMessageIsHeard
  <2>2. id[1] <= Len(message) /\ id[1] \in Nat
    BY <1>1 DEF RunsPlaced
  <2>3. \/ run'[other].status = "queued"
        \/ /\ run'[other].status \in {"running", "done", "stopped"}
           /\ run'[other].read >= id[1]
    BY <1>1, <2>1, <2>2 DEF MovesOn, Active
  <2> QED BY <2>1, <2>3
<1>7. ClearedStaysClear'
  BY <1>3, <1>4 DEF ClearedStaysClear
<1> QED BY <1>2, <1>5, <1>6, <1>7 DEF CallsOK

\* A handler claims a run, or ends it.
LEMMA HandlerStep ==
    ASSUME SendIInv, NEW id \in DOMAIN run, Claim(id) \/ Finish(id)
    PROVE  SendIInv'
<1>1. run[id] \in RunRow /\ Len(message) \in Nat
  BY DEF SendIInv, Rows
<1>2. CASE Claim(id)
  <2> DEFINE row == [run[id] EXCEPT !.status = "running", !.read = Len(message)]
  <2>1. run' = [run EXCEPT ![id] = row] /\ run[id].status = "queued" /\ UNCHANGED <<message, lock, call>>
    BY <1>2 DEF Claim
  <2>2. row \in RunRow /\ row.thread = run[id].thread /\ row.status = "running"
        /\ row.read = Len(message)
    BY <1>1 DEF RunRow, Status, Active
  <2> HIDE DEF row
  <2>3. \A other \in DOMAIN run : run'[other] = IF other = id THEN row ELSE run[other]
    BY <2>1
  <2>4. DOMAIN run' = DOMAIN run
    BY <2>1
  <2> QED BY <2>1, <2>2, <2>3, <2>4, RunStep DEF SendIInv, Rows, MovesOn
<1>3. CASE Finish(id)
  <2> DEFINE row == [run[id] EXCEPT !.status = "done"]
  <2>1. run' = [run EXCEPT ![id] = row] /\ run[id].status = "running" /\ UNCHANGED <<message, lock, call>>
    BY <1>3 DEF Finish
  <2>2. row \in RunRow /\ row.thread = run[id].thread /\ row.status = "done"
        /\ row.read = run[id].read
    BY <1>1 DEF RunRow, Status
  <2> HIDE DEF row
  <2>3. \A other \in DOMAIN run : run'[other] = IF other = id THEN row ELSE run[other]
    BY <2>1
  <2>4. DOMAIN run' = DOMAIN run
    BY <2>1
  <2> QED BY <2>1, <2>2, <2>3, <2>4, RunStep DEF SendIInv, Rows, MovesOn
<1> QED BY <1>2, <1>3

\* The active runs of a thread, and only they, are cancelled.
LEMMA CancelEffect ==
    ASSUME SendIInv, NEW t \in Thread, NEW why \in Cancelled, run' = CancelledIn(t, why)
    PROVE  /\ DOMAIN run' = DOMAIN run
           /\ \A id \in DOMAIN run :
                /\ run'[id] \in RunRow /\ run'[id].thread = run[id].thread
                /\ IF run[id].thread = t /\ run[id].status \in Active
                   THEN run'[id].status = why /\ run'[id].read = Len(message)
                   ELSE run'[id] = run[id]
<1>1. DOMAIN run' = DOMAIN run
  BY DEF CancelledIn
<1>2. ASSUME NEW id \in DOMAIN run
      PROVE  /\ run'[id] \in RunRow /\ run'[id].thread = run[id].thread
             /\ IF run[id].thread = t /\ run[id].status \in Active
                THEN run'[id].status = why /\ run'[id].read = Len(message)
                ELSE run'[id] = run[id]
  <2>1. run[id] \in RunRow /\ Len(message) \in Nat
    BY DEF SendIInv, Rows
  <2>2. CASE run[id].thread = t /\ run[id].status \in Active
    <3>1. run'[id] = [run[id] EXCEPT !.status = why, !.read = Len(message)]
      BY <2>2 DEF CancelledIn
    <3> QED BY <2>1, <2>2, <3>1 DEF RunRow, Status
  <2>3. CASE ~ (run[id].thread = t /\ run[id].status \in Active)
    <3>1. run'[id] = run[id]
      BY <2>3 DEF CancelledIn
    <3> QED BY <2>1, <2>3, <3>1
  <2> QED BY <2>2, <2>3
<1> QED BY <1>1, <1>2

\* stopThreadRuns.
LEMMA StopStep ==
    ASSUME SendIInv, NEW t \in Thread, Stop(t)
    PROVE  SendIInv'
<1>1. run' = CancelledIn(t, "stopped") /\ UNCHANGED <<message, lock, call>>
  BY DEF Stop
<1>2. "stopped" \in Cancelled
  BY DEF Cancelled
<1> QED BY <1>1, <1>2, CancelEffect, RunStep DEF MovesOn

\* clearThread: no call is between its lock of the thread and its commit.
LEMMA ClearStep ==
    ASSUME SendIInv, NEW t \in Thread, Clear(t)
    PROVE  SendIInv'
<1> USE DEF SendIInv
<1> DEFINE gone(m) == IF message[m].thread = t THEN [message[m] EXCEPT !.live = FALSE]
                      ELSE message[m]
<1>1. /\ lock[t] = Nobody /\ run' = CancelledIn(t, "cleared")
      /\ message' = [m \in DOMAIN message |-> gone(m)]
      /\ UNCHANGED <<lock, call>>
  BY DEF Clear, ClearableThread, LockFree
<1>2. Len(message) \in Nat /\ DOMAIN message = 1 .. Len(message)
      /\ \A m \in DOMAIN message : message[m] \in Message
  BY DEF Rows
<1>3. ASSUME NEW m \in DOMAIN message
      PROVE  /\ gone(m) \in Message
             /\ gone(m).thread = message[m].thread /\ gone(m).key = message[m].key
             /\ gone(m).asked = message[m].asked /\ gone(m).from = message[m].from
             /\ gone(m).live = (message[m].live /\ message[m].thread # t)
  <2>1. message[m] \in Message
    BY <1>2
  <2>2. CASE message[m].thread = t
    <3>1. gone(m) = [message[m] EXCEPT !.live = FALSE]
      BY <2>2
    <3> HIDE DEF gone
    <3>2. /\ gone(m) \in Message
          /\ gone(m).thread = message[m].thread /\ gone(m).key = message[m].key
          /\ gone(m).asked = message[m].asked /\ gone(m).from = message[m].from
          /\ gone(m).live = FALSE
      BY <2>1, <3>1 DEF Message
    <3> QED BY <2>2, <3>2
  <2>3. CASE message[m].thread # t
    <3>1. gone(m) = message[m] /\ message[m].live \in BOOLEAN
      BY <2>1, <2>3 DEF Message
    <3> QED BY <2>1, <2>3, <3>1
  <2> QED BY <2>2, <2>3
<1> HIDE DEF gone
<1>4. /\ DOMAIN message' = DOMAIN message /\ message' \in Seq(Message)
      /\ \A m \in DOMAIN message :
           /\ message'[m].thread = message[m].thread /\ message'[m].key = message[m].key
           /\ message'[m].asked = message[m].asked /\ message'[m].from = message[m].from
           /\ message'[m].live = (message[m].live /\ message[m].thread # t)
  <2>1. message' \in [1 .. Len(message) -> Message]
    BY <1>1, <1>2, <1>3
  <2> QED BY <1>1, <1>2, <1>3, <2>1
<1>5. /\ DOMAIN run' = DOMAIN run
      /\ \A id \in DOMAIN run :
           /\ run'[id] \in RunRow /\ run'[id].thread = run[id].thread
           /\ IF run[id].thread = t /\ run[id].status \in Active
              THEN run'[id].status = "cleared"
              ELSE run'[id] = run[id]
  BY <1>1, CancelEffect DEF Cancelled
<1>6. Rows' /\ LocksHeld'
  BY <1>1, <1>4, <1>5 DEF Rows, LocksHeld
<1>7. KeysWritten'
  BY <1>4 DEF KeysWritten, Nonce
<1>8. RunsPlaced'
  BY <1>4, <1>5 DEF RunsPlaced
<1>9. OneDelivery'
  <2> SUFFICES ASSUME NEW m \in DOMAIN message', message'[m].live,
                      NEW o \in DOMAIN message', message'[o].live,
                      m # o, message'[m].asked = message'[o].asked
               PROVE  message'[m].asked = NoKey \/ Address[message'[m].asked].kind = "follow_up"
    BY DEF OneDelivery
  <2>1. message[m].live /\ message[o].live
    BY <1>4
  <2>2. m \in DOMAIN message /\ o \in DOMAIN message /\ message[m].asked = message[o].asked
        /\ message'[m].asked = message[m].asked
    BY <1>4
  <2> QED BY <2>1, <2>2 DEF OneDelivery
<1>10. ASSUME NEW c \in Call PROVE CallOK(c)'
  <2>1. CallOK(c) /\ Of(c)' = Of(c) /\ call' = call /\ lock' = lock
    BY <1>1 DEF CallsOK, Of
  <2>2. CallMayEcho(c)'
    <3> SUFFICES ASSUME call[c].pc = "echo"
                 PROVE  run'[SendingRun(call[c].key)].status # "cleared"
      BY <2>1 DEF CallMayEcho, SendingRun
    <3>1. Of(c).kind = "bot_message" /\ call[c].key \in Key /\ Of(c) = Address[call[c].key]
      BY <2>1, BusyHasRow DEF CallOK, CallHolds, Of
    <3>2. SendingRun(call[c].key) = <<0, Of(c).from>> /\ SendingRun(call[c].key) \in DOMAIN run
      BY <3>1, AddressShape DEF Rows
    <3>3. run[SendingRun(call[c].key)].thread = Of(c).from
      BY <3>2 DEF RunsPlaced
    <3>4. Of(c).from # t
      BY <1>1, <2>1, SendAssumption DEF CallOK, CallHolds
    <3> QED BY <1>5, <2>1, <3>2, <3>3, <3>4 DEF CallOK, CallMayEcho
  <2>3. CallHolds(c)' /\ CallSaw(c)'
    BY <1>5, <2>1 DEF CallOK, CallHolds, CallSaw
  <2>4. CallIsFirst(c)'
    BY <1>4, <2>1 DEF CallOK, CallIsFirst
  <2> QED BY <2>2, <2>3, <2>4 DEF CallOK
<1>11. EveryMessageIsHeard'
  <2> SUFFICES ASSUME NEW id \in DOMAIN run, id[1] # 0, message'[id[1]].live
               PROVE  \E other \in DOMAIN run' :
                        /\ other[2] = id[2] /\ run'[other].thread = run'[id].thread
                        /\ \/ run'[other].status = "queued"
                           \/ /\ run'[other].status \in {"running", "done", "stopped"}
                              /\ run'[other].read >= id[1]
    BY <1>5 DEF EveryMessageIsHeard
  <2>1. message[id[1]].live /\ run[id].thread # t
    BY <1>4 DEF RunsPlaced
  <2>2. PICK other \in DOMAIN run :
          /\ other[2] = id[2] /\ run[other].thread = run[id].thread
          /\ \/ run[other].status = "queued"
             \/ run[other].status \in {"running", "done", "stopped"} /\ run[other].read >= id[1]
    BY <2>1 DEF EveryMessageIsHeard
  <2>3. run'[other] = run[other] /\ run'[id].thread = run[id].thread
    BY <1>5, <2>1, <2>2
  <2> QED BY <1>5, <2>2, <2>3
<1>12. ClearedStaysClear'
  <2>1. ASSUME NEW m \in DOMAIN message', message'[m].live, message'[m].from \in DOMAIN run'
        PROVE  run'[message'[m].from].status # "cleared"
    <3>1. /\ m \in DOMAIN message /\ message[m].live /\ message[m].thread # t
          /\ message'[m].from = message[m].from /\ message[m].from \in DOMAIN run
      BY <1>4, <1>5, <2>1
    <3>2. message[m].from \in RunId
      BY <3>1 DEF Rows
    <3>3. message[m].from = <<0, message[m].thread>>
      BY <3>1, <3>2, SendAssumption DEF KeysWritten, RunId
    <3>4. run[message[m].from].thread = message[m].thread
      BY <3>1, <3>3 DEF RunsPlaced
    <3> QED BY <1>5, <3>1, <3>4 DEF ClearedStaysClear
  <2>2. ASSUME NEW id \in DOMAIN run', id[1] # 0, run'[id].status \in Active
        PROVE  message'[id[1]].live
    <3>1. id \in DOMAIN run /\ run[id].status \in Active /\ run[id].thread # t
      BY <1>5, <2>2 DEF Active
    <3> QED BY <1>4, <2>2, <3>1 DEF ClearedStaysClear, RunsPlaced
  <2> QED BY <2>1, <2>2 DEF ClearedStaysClear
<1> QED BY <1>6, <1>7, <1>8, <1>9, <1>10, <1>11, <1>12 DEF CallsOK

-----------------------------------------------------------------------------
\* At the start there are no messages, locks or calls, and the sending runs run.
LEMMA SendInit == Init => SendIInv
<1> SUFFICES ASSUME Init PROVE SendIInv
  OBVIOUS
<1>1. /\ message = <<>> /\ DOMAIN message = {} /\ message \in Seq(Message)
      /\ run = [id \in {0} \X Sender |-> [thread |-> id[2], status |-> "running", read |-> 0]]
      /\ lock = [t \in Thread |-> Nobody]
      /\ call = [c \in Call |-> Idle]
  BY DEF Init
<1>2. DOMAIN run = {0} \X Sender
      /\ \A id \in DOMAIN run :
           /\ id[1] = 0 /\ id[2] \in Bot /\ run[id].thread = id[2] /\ run[id].status = "running"
           /\ run[id] \in RunRow
  <2>1. ASSUME NEW id \in {0} \X Sender
        PROVE  /\ id[1] = 0 /\ id[2] \in Bot /\ run[id].thread = id[2]
               /\ run[id].status = "running" /\ run[id] \in RunRow
    <3>1. run[id] = [thread |-> id[2], status |-> "running", read |-> 0]
      BY <1>1
    <3> QED BY <3>1, SendAssumption DEF RunRow, Thread, Status, Active
  <2> QED BY <1>1, <2>1
<1>3. Rows
  <2>1. DOMAIN run \subseteq RunId
    BY <1>2, SendAssumption DEF RunId
  <2> QED BY <1>1, <1>2, <2>1 DEF Rows
<1>4. \A c \in Call : call[c].pc = "idle"
  BY <1>1 DEF Idle
<1>5. CallsOK
  BY <1>4 DEF CallsOK, CallOK, CallHolds, CallIsFirst, CallSaw, CallMayEcho, InTransaction
<1>6. LocksHeld /\ KeysWritten /\ RunsPlaced
  BY <1>1, <1>2 DEF LocksHeld, KeysWritten, RunsPlaced
<1>7. OneDelivery /\ EveryMessageIsHeard /\ ClearedStaysClear
  BY <1>1, <1>2 DEF OneDelivery, EveryMessageIsHeard, ClearedStaysClear
<1> QED BY <1>3, <1>5, <1>6, <1>7 DEF SendIInv

\* Every step of the system keeps the invariant.
LEMMA SendNext == SendIInv /\ [Next]_vars => SendIInv'
<1> SUFFICES ASSUME SendIInv, [Next]_vars PROVE SendIInv'
  OBVIOUS
<1>1. ASSUME NEW c \in Call,
             \/ \E k \in Key : Asks(c, k)
             \/ Locks(c) \/ Rejected(c) \/ Replays(c) \/ LocksEcho(c)
             \/ Deadlock(c) \/ Aborts(c)
      PROVE  SendIInv'
  BY <1>1, AsksStep, LocksStep, RejectedStep, ReplaysStep, LocksEchoStep, AbortsStep
<1>2. ASSUME NEW c \in Call, Commits(c) \/ CommitLooksFailed(c) \/ CommitsDelivery(c)
      PROVE  SendIInv'
  BY <1>2, CommitsStep
<1>3. ASSUME NEW id \in DOMAIN run, Claim(id) \/ Finish(id) PROVE SendIInv'
  BY <1>3, HandlerStep
<1>4. ASSUME NEW t \in Thread, Stop(t) \/ Clear(t) PROVE SendIInv'
  BY <1>4, StopStep, ClearStep
<1>5. CASE UNCHANGED vars
  BY <1>5 DEF vars, SendIInv, Rows, LocksHeld, KeysWritten, Nonce, RunsPlaced, CallsOK, CallOK,
     CallHolds, CallIsFirst, CallSaw, CallMayEcho, Of, SendingRun, OneDelivery,
     EveryMessageIsHeard, ClearedStaysClear
<1> QED BY <1>1, <1>2, <1>3, <1>4, <1>5 DEF Next

\* The tables stay well formed, a lock is held by the transaction that took it, and what a
\* call read under its lock stays true until it commits.
THEOREM SendInvariant == Spec => []SendIInv
<1>1. Init => SendIInv
  BY SendInit
<1>2. SendIInv /\ [Next]_vars => SendIInv'
  BY SendNext
<1> QED BY <1>1, <1>2, PTL DEF Spec

\* A call repeated under its key (clientNonce, deliveryKey) delivers once: one message in
\* the thread, so one run of every bot it addresses.
THEOREM DeliversOnce == Spec => []SendInv
<1>1. SendIInv => SendTypeOK
  <2> SUFFICES ASSUME SendIInv PROVE SendTypeOK
    OBVIOUS
  <2> USE DEF SendIInv
  <2>1. message \in Seq(Message) /\ \A id \in DOMAIN run : run[id] \in RunRow
    BY DEF Rows
  <2>2. \A id \in DOMAIN run : run[id].status \in Active \cup Cancelled \cup {"done"}
    BY <2>1 DEF RunRow, Status
  <2>3. \A t \in Thread : lock[t] = Nobody \/ (lock[t] \in Call /\
          call[lock[t]].pc \in {"written", "inbound", "echo"})
    BY DEF Rows, LocksHeld, InTransaction
  <2>4. \A c \in Call :
          /\ call[c].pc \in {"written", "inbound", "echo"} => lock[Of(c).thread] = c
          /\ call[c].pc = "echo" => lock[Of(c).from] = c
    BY DEF CallsOK, CallOK, CallHolds, InTransaction
  <2> QED BY <2>1, <2>2, <2>3, <2>4 DEF SendTypeOK, Message
<1>2. SendIInv => SendInv
  BY <1>1 DEF SendInv, SendIInv
<1> QED BY <1>2, SendInvariant, PTL

\* cancelSupersededQueuedRuns loses no message: whoever it cancels, a run of the same bot
\* in the same thread is still to read the message, has read it, or was stopped after it.
THEOREM NoMessageUnheard == Spec => []EveryMessageIsHeard
<1>1. SendIInv => EveryMessageIsHeard
  BY DEF SendIInv
<1> QED BY <1>1, SendInvariant, PTL

\* clearThread is final: no message of a run it cancelled comes after it, and no run goes
\* on for a message it deleted.
THEOREM ClearIsFinal == Spec => []ClearedStaysClear
<1>1. SendIInv => ClearedStaysClear
  BY DEF SendIInv
<1> QED BY <1>1, SendInvariant, PTL

-----------------------------------------------------------------------------
(* ThreadLog: its inductive invariant.                                      *)

Stream == [at : {"off", "reading", "yielding", "waiting"}, seq : Cursor,
           changed : BOOLEAN, batch : SUBSET Event, full : BOOLEAN]
Client == [open : BOOLEAN, cursor : Cursor, seen : Cursor, shown : SUBSET Seqs]
Req == [at : {"out", "paged", "answered"}, page : SUBSET Seqs, cursor : Cursor,
        opening : BOOLEAN]

\* A message is announced by an event, which stays as long as the message.
MessagesAnnounced ==
    \A s \in Seqs : s \in messages <=> [seq |-> s, type |-> "message"] \in events

\* Numbers are given in order, and everything a reader has is below the next one.
Numbered ==
    /\ \A e \in events \cup stream.batch : e.seq < nextEventSeq
    /\ \A d, e \in events \cup stream.batch : d.seq = e.seq => d = e
    /\ stream.seq < nextEventSeq /\ client.cursor < nextEventSeq /\ client.seen < nextEventSeq
    /\ \A q \in Request : req[q].cursor < nextEventSeq

\* One transaction holds the thread's row, and the number it has read is the next one.
RowHeld ==
    \A w \in Writer : tx[w].at = "locked" =>
        /\ tx[w].seq = nextEventSeq
        /\ \A v \in Writer : tx[v].at = "locked" => v = w
        /\ \A q \in Request : req[q].at # "paged"

\* A clear left nothing before it.
ClearsFirst ==
    \A c, d \in events : c.type = "cleared" /\ d # c => d.seq > c.seq

\* The thread was cleared after s.
ClearedAfter(s) == \E c \in events : c.type = "cleared" /\ c.seq > s

\* What followThreadEvents has read is all there is from its cursor to the last event
\* read; what is in the log no more was progress, or was cleared.
Streamed ==
    /\ stream.at # "off" => client.open /\ stream.seq = client.cursor
    /\ stream.at = "yielding" <=> stream.batch # {}
    /\ \A b \in stream.batch :
           /\ b.seq > stream.seq
           /\ \A e \in events : e.seq > stream.seq /\ e.seq <= b.seq => e \in stream.batch
           /\ b \in events \/ b.type = "progress" \/ ClearedAfter(b.seq)

\* The first answer opens the client; until then it shows nothing and follows nothing.
Opened ==
    /\ ~client.open => client.shown = {}
    /\ \A q \in Request :
           /\ req[q].opening => ~client.open
           /\ req[q].opening => \A p \in Request : req[p].opening => p = q
           /\ req[q].at # "out" /\ ~req[q].opening => client.open

\* shown is what there is to show up to the cursor s, unless a clear is still to come.
ShowsTo(s, shown) ==
    \/ ClearedAfter(s)
    \/ shown \subseteq messages /\ \A m \in Last(PageSize, messages) : m \in shown \/ m > s

Honest ==
    /\ client.open => client.seen >= client.cursor /\ ShowsTo(client.cursor, client.shown)
    /\ \A q \in Request :
           /\ req[q].at = "paged" => req[q].page = Last(PageSize, messages)
           /\ req[q].at = "answered" => ShowsTo(req[q].cursor, req[q].page)

\* Nobody has announced, or is about to announce, what the stream has not read.
NoNews ==
    ~stream.changed /\ listening /\ ~lost /\ \A w \in Writer : tx[w].at # "committed"

\* A stream that is about to sleep without a signal has, or has in hand, all there is.
Awake ==
    NoNews /\ (stream.at = "waiting" \/ (stream.at = "yielding" /\ ~stream.full)) =>
        \A e \in events : e.seq <= stream.seq \/ e \in stream.batch

LogIInv ==
    /\ LogTypeOK /\ MessagesAnnounced /\ Numbered /\ RowHeld /\ ClearsFirst
    /\ Streamed /\ Opened /\ Honest /\ Awake

-----------------------------------------------------------------------------
(* Sets of sequence numbers.                                               *)

\* Max picks the greatest member.
LEMMA MaxIsGreatest ==
    ASSUME NEW S \in SUBSET Int, NEW x \in S, \A y \in S : y <= x
    PROVE  Max(S) = x
<1>1. \A y \in S : x >= y
  OBVIOUS
<1>2. Max(S) \in S /\ \A y \in S : Max(S) >= y
  BY <1>1 DEF Max
<1>3. Max(S) >= x /\ x >= Max(S) /\ Max(S) \in Int
  BY <1>1, <1>2
<1> QED BY <1>3

\* A set of natural numbers has a least member.
LEMMA LeastNumber ==
    ASSUME NEW S \in SUBSET Nat, S # {}
    PROVE  \E x \in S : \A y \in S : x <= y
<1>1. PICK x \in S : \A y \in S : ~ (<<y, x>> \in OpToRel(<, Nat))
  BY NatLessThanWellFounded, WFMin
<1>2. ASSUME NEW y \in S PROVE x <= y
  <2>1. <<y, x>> \notin {ss \in Nat \X Nat : ss[1] < ss[2]}
    BY <1>1 DEF OpToRel
  <2> QED BY <2>1
<1> QED BY <1>2

\* A set of cursors has a greatest one.
LEMMA GreatestCursor ==
    ASSUME NEW S \in SUBSET Cursor, S # {}
    PROVE  \E x \in S : \A y \in S : y <= x
<1> USE LogAssumption
<1> DEFINE T == {MaxEvents - s : s \in S}
<1>0. \A s \in S : s \in Int /\ MaxEvents - s \in Nat
  BY DEF Cursor, Seqs
<1>1. T \in SUBSET Nat /\ T # {}
  BY <1>0
<1>2. PICK t \in T : \A u \in T : t <= u
  BY <1>1, LeastNumber
<1>3. PICK x \in S : t = MaxEvents - x
  OBVIOUS
<1>4. ASSUME NEW y \in S PROVE y <= x
  <2>1. MaxEvents - x <= MaxEvents - y
    BY <1>2, <1>3
  <2> QED BY <2>1, <1>0
<1> QED BY <1>4

\* The events of a set of events are finitely many.
LEMMA EventsFinite == IsFiniteSet(Event)
<1> USE LogAssumption
<1>1. IsFiniteSet(Seqs)
  BY FS_Interval DEF Seqs
<1>2. IsFiniteSet(Types)
  <2>1. IsFiniteSet({"message"})
    BY FS_Singleton
  <2>2. IsFiniteSet({"message"} \cup {"progress"})
    BY <2>1, FS_AddElement
  <2>3. IsFiniteSet(({"message"} \cup {"progress"}) \cup {"completed"})
    BY <2>2, FS_AddElement
  <2>4. IsFiniteSet((({"message"} \cup {"progress"}) \cup {"completed"}) \cup {"cleared"})
    BY <2>3, FS_AddElement
  <2>5. Types = (({"message"} \cup {"progress"}) \cup {"completed"}) \cup {"cleared"}
    BY DEF Types
  <2> QED BY <2>4, <2>5
<1>3. IsFiniteSet(Seqs \X Types)
  BY <1>1, <1>2, FS_Product
<1> DEFINE f == [p \in Seqs \X Types |-> [seq |-> p[1], type |-> p[2]]]
<1>4. f \in Surjection(Seqs \X Types, Event)
  <2>1. f \in [Seqs \X Types -> Event]
    BY DEF Event
  <2>2. ASSUME NEW e \in Event PROVE \E p \in Seqs \X Types : f[p] = e
    <3>1. e.seq \in Seqs /\ e.type \in Types /\ e = [seq |-> e.seq, type |-> e.type]
      BY DEF Event
    <3>2. <<e.seq, e.type>> \in Seqs \X Types /\ f[<<e.seq, e.type>>] = e
      BY <3>1
    <3> QED BY <3>2
  <2> QED BY <2>1, <2>2 DEF Surjection
<1> QED BY <1>3, <1>4, FS_Surjection

\* eventsAfter returns an empty batch only at the end of the log.
LEMMA FirstOfNone ==
    ASSUME NEW S \in SUBSET Event, NEW n \in Nat \ {0}, First(n, S) = {}
    PROVE  S = {}
<1> SUFFICES ASSUME S # {} PROVE FALSE
  OBVIOUS
<1> DEFINE N == {e.seq : e \in S}
<1>0. \A e \in S : e.seq \in Nat
  BY LogAssumption DEF Event, Seqs
<1>1. N \in SUBSET Nat /\ N # {}
  BY <1>0
<1>2. PICK x \in N : \A y \in N : x <= y
  BY <1>1, LeastNumber
<1>3. PICK e \in S : e.seq = x
  OBVIOUS
<1>4. {d \in S : d.seq < e.seq} = {}
  <2>1. ASSUME NEW d \in S PROVE ~(d.seq < e.seq)
    <3>1. e.seq <= d.seq /\ e.seq \in Nat /\ d.seq \in Nat
      BY <1>0, <1>2, <1>3
    <3> QED BY <3>1
  <2> QED BY <2>1
<1>5. Cardinality({d \in S : d.seq < e.seq}) < n
  BY <1>4, FS_EmptySet
<1> QED BY <1>5 DEF First

\* With an event a batch has every one before it.
LEMMA FirstComeFirst ==
    ASSUME NEW S \in SUBSET Event, NEW n \in Nat, NEW b \in First(n, S), NEW e \in S,
           e.seq <= b.seq
    PROVE  e \in First(n, S)
<1> DEFINE Before(x) == {d \in S : d.seq < x.seq}
<1>0. \A d \in S : d.seq \in Int
  BY LogAssumption DEF Event, Seqs
<1>1. IsFiniteSet(S)
  BY EventsFinite, FS_Subset
<1>2. b \in S /\ Cardinality(Before(b)) < n
  BY DEF First
<1>3. Before(e) \in SUBSET Before(b) /\ Before(b) \in SUBSET S
  BY <1>0, <1>2
<1>4. IsFiniteSet(Before(b)) /\ IsFiniteSet(Before(e))
  BY <1>1, <1>3, FS_Subset
<1>5. Cardinality(Before(e)) <= Cardinality(Before(b))
  BY <1>3, <1>4, FS_Subset
<1>6. Cardinality(Before(e)) \in Nat /\ Cardinality(Before(b)) \in Nat
  BY <1>4, FS_CardinalityType
<1> QED BY <1>2, <1>5, <1>6 DEF First

\* A batch that is not full is the rest of the log.
LEMMA FirstIsFull ==
    ASSUME NEW S \in SUBSET Event, NEW n \in Nat \ {0}, Cardinality(First(n, S)) # n,
           \A d, e \in S : d.seq = e.seq => d = e
    PROVE  First(n, S) = S
<1> DEFINE F == First(n, S)
           Before(x) == {d \in S : d.seq < x.seq}
<1> SUFFICES ASSUME F # S PROVE FALSE
  OBVIOUS
<1>0. \A d \in S : d.seq \in Nat /\ d.seq \in Cursor
  BY LogAssumption DEF Event, Seqs, Cursor
<1>1. IsFiniteSet(S) /\ F \in SUBSET S
  BY EventsFinite, FS_Subset DEF First
<1>2. IsFiniteSet(F) /\ Cardinality(F) \in Nat
  BY <1>1, FS_Subset, FS_CardinalityType
<1>3. PICK x \in S : x \notin F
  BY <1>1
<1>4. IsFiniteSet(Before(x)) /\ Cardinality(Before(x)) \in Nat
  BY <1>1, FS_Subset, FS_CardinalityType
<1>5. Cardinality(Before(x)) >= n
  BY <1>3, <1>4 DEF First
<1>6. Cardinality(F) <= n
  <2>1. CASE F = {}
    BY <2>1, FS_EmptySet
  <2>2. CASE F # {}
    <3> DEFINE N == {e.seq : e \in F}
    <3>1. N \in SUBSET Cursor /\ N # {}
      BY <1>0, <1>1, <2>2
    <3>2. PICK m \in N : \A y \in N : y <= m
      BY <3>1, GreatestCursor
    <3>3. PICK y \in F : y.seq = m
      OBVIOUS
    <3>4. y \in S /\ Cardinality(Before(y)) < n
      BY <3>3 DEF First
    <3>5. F \in SUBSET (Before(y) \cup {y})
      <4> SUFFICES ASSUME NEW e \in F, e # y PROVE e \in Before(y)
        OBVIOUS
      <4>1. e \in S /\ e.seq <= y.seq
        BY <1>1, <3>2, <3>3
      <4>2. e.seq # y.seq
        BY <4>1, <3>4
      <4> QED BY <4>1, <4>2, <3>4, <1>0
    <3>6. IsFiniteSet(Before(y)) /\ Cardinality(Before(y)) \in Nat
      BY <1>1, FS_Subset, FS_CardinalityType
    <3>7. /\ IsFiniteSet(Before(y) \cup {y})
          /\ Cardinality(Before(y) \cup {y}) = Cardinality(Before(y)) + 1
      <4>1. y \notin Before(y)
        <5>1. y.seq \in Nat
          BY <1>0, <3>4
        <5>2. ~(y.seq < y.seq)
          BY <5>1
        <5> QED BY <5>2
      <4> HIDE DEF Before
      <4> QED BY <3>6, <4>1, FS_AddElement
    <3>8. Cardinality(F) <= Cardinality(Before(y) \cup {y})
      BY <3>5, <3>7, FS_Subset
    <3> HIDE DEF Before, F
    <3> QED BY <3>4, <3>6, <3>7, <3>8, <1>2
  <2> QED BY <2>1, <2>2
<1>7. Before(x) \in SUBSET F
  <2> SUFFICES ASSUME NEW d \in Before(x), d \notin F PROVE FALSE
    OBVIOUS
  <2> DEFINE N == {e.seq : e \in S \ F}
  <2>1. N \in SUBSET Nat /\ N # {}
    BY <1>0, <1>3
  <2>2. PICK m \in N : \A y \in N : m <= y
    BY <2>1, LeastNumber
  <2>3. PICK y \in S \ F : y.seq = m
    OBVIOUS
  <2>4. Before(y) \in SUBSET F
    BY <1>0, <2>2, <2>3
  <2>5. IsFiniteSet(Before(y)) /\ Cardinality(Before(y)) \in Nat
    BY <1>1, FS_Subset, FS_CardinalityType
  <2>6. Cardinality(Before(y)) >= n
    BY <2>3, <2>5 DEF First
  <2>7. Cardinality(Before(y)) <= Cardinality(F)
    BY <1>2, <2>4, FS_Subset
  <2>8. Cardinality(F) = n
    <3> HIDE DEF Before, F
    <3> QED BY <1>2, <1>6, <2>5, <2>6, <2>7
  <2> QED BY <2>8
<1>8. Cardinality(Before(x)) <= Cardinality(F)
  BY <1>2, <1>7, FS_Subset
<1>9. Cardinality(F) = n
  <2> HIDE DEF Before, F
  <2> QED BY <1>2, <1>4, <1>5, <1>6, <1>8
<1> QED BY <1>9

\* One more message displaces others from the page, and brings none but itself.
LEMMA LastOfMore ==
    ASSUME NEW S \in SUBSET Seqs, NEW x \in Seqs, NEW n \in Nat
    PROVE  Last(n, S \cup {x}) \subseteq Last(n, S) \cup {x}
<1> SUFFICES ASSUME NEW s \in Last(n, S \cup {x}), s # x PROVE s \in Last(n, S)
  OBVIOUS
<1> DEFINE A == {t \in S : t > s}
           B == {t \in S \cup {x} : t > s}
<1>1. s \in S /\ Cardinality(B) < n
  BY DEF Last
<1>2. IsFiniteSet(Seqs)
  BY LogAssumption, FS_Interval DEF Seqs
<1>3. B \in SUBSET Seqs /\ A \in SUBSET B
  OBVIOUS
<1>4. IsFiniteSet(B) /\ IsFiniteSet(A)
  BY <1>2, <1>3, FS_Subset
<1>5. Cardinality(A) <= Cardinality(B) /\ Cardinality(A) \in Nat /\ Cardinality(B) \in Nat
  BY <1>3, <1>4, FS_Subset, FS_CardinalityType
<1> QED BY <1>1, <1>5 DEF Last

-----------------------------------------------------------------------------
(* How the log moves.                                                       *)

Tables == <<nextEventSeq, events, messages>>

\* A transaction that clears nothing, or a stop: events and a message are added under new
\* numbers, and progress goes.
Grown ==
    /\ nextEventSeq' \in nextEventSeq .. MaxEvents
    /\ events' \subseteq Event
    /\ \A e \in events' :
           e \in events \/ (nextEventSeq <= e.seq /\ e.seq < nextEventSeq' /\ e.type # "cleared")
    /\ \A e \in events : e \in events' \/ e.type = "progress"
    /\ \A d, e \in events' : d.seq = e.seq => d = e
    /\ \/ messages' = messages
       \/ nextEventSeq \in Seqs /\ messages' = messages \cup {nextEventSeq}
    /\ MessagesAnnounced'

\* A clear leaves its own event alone.
Emptied ==
    /\ nextEventSeq' = nextEventSeq + 1 /\ nextEventSeq' <= MaxEvents
    /\ events' = {[seq |-> nextEventSeq, type |-> "cleared"]} /\ messages' = {}

\* The numbers of the tables.
LEMMA TableTypes ==
    ASSUME LogIInv
    PROVE  /\ nextEventSeq \in Nat /\ nextEventSeq <= MaxEvents /\ MaxEvents \in Nat
           /\ \A e \in events : e \in Event /\ e.seq \in Nat /\ e.seq < nextEventSeq
           /\ \A e \in stream.batch : e \in Event /\ e.seq \in Nat /\ e.seq < nextEventSeq
           /\ \A s \in messages : s \in Seqs /\ s \in Nat /\ s < nextEventSeq
           /\ stream.seq \in Int /\ client.cursor \in Int /\ client.seen \in Int
           /\ \A q \in Request : req[q].cursor \in Int
<1>1. LogTypeOK /\ Numbered /\ MessagesAnnounced
  BY DEF LogIInv
<1>2. nextEventSeq \in Nat /\ nextEventSeq <= MaxEvents /\ MaxEvents \in Nat
  BY <1>1, LogAssumption DEF LogTypeOK
<1>3. \A e \in Event : e.seq \in Nat
  BY LogAssumption DEF Event, Seqs
<1>4. stream \in Stream /\ client \in Client /\ req \in [Request -> Req]
  BY <1>1 DEF LogTypeOK, Stream, Client, Req
<1>5. stream.batch \subseteq Event
  BY <1>4 DEF Stream
<1>6. \A e \in events : e \in Event
  BY <1>1 DEF LogTypeOK
<1>7. \A s \in messages : s \in Seqs /\ s \in Nat /\ s < nextEventSeq
  <2> SUFFICES ASSUME NEW s \in messages PROVE s \in Seqs /\ s \in Nat /\ s < nextEventSeq
    OBVIOUS
  <2>1. s \in Seqs
    BY <1>1 DEF LogTypeOK
  <2>2. [seq |-> s, type |-> "message"] \in events
    BY <1>1, <2>1 DEF MessagesAnnounced
  <2>3. [seq |-> s, type |-> "message"].seq < nextEventSeq
    BY <1>1, <2>2 DEF Numbered
  <2> QED BY <2>1, <2>3, LogAssumption DEF Seqs
<1>8. \A c \in Cursor : c \in Int
  BY DEF Cursor, Seqs
<1>9. stream.seq \in Cursor /\ client.cursor \in Cursor /\ client.seen \in Cursor
      /\ \A q \in Request : req[q].cursor \in Cursor
  BY <1>4 DEF Stream, Client, Req
<1> QED BY <1>1, <1>2, <1>3, <1>5, <1>6, <1>7, <1>8, <1>9 DEF Numbered

\* A commit of the number n: what it appends, and the next number after it.
LEMMA CommitMoves ==
    ASSUME LogIInv, NEW w \in Writer, Commit(w)
    PROVE  Grown \/ Emptied
<1> DEFINE n == nextEventSeq
           E(k, type) == [seq |-> k, type |-> type]
<1>1. /\ n \in Nat /\ MaxEvents \in Nat /\ tx[w].seq = n /\ MessagesAnnounced /\ Numbered
      /\ \A e \in events : e \in Event /\ e.seq \in Nat /\ e.seq < n
      /\ \A s \in messages : s \in Seqs
  BY TableTypes DEF LogIInv, RowHeld, Commit
<1>2. \A d, e \in events : d.seq = e.seq => d = e
  BY <1>1 DEF Numbered
<1>3. PICK type \in Types :
         /\ events' = Appended(type, n)
         /\ messages' = CASE type = "cleared"  -> {}
                          [] type = "progress" -> messages
                          [] OTHER             -> messages \cup {n}
  BY <1>1 DEF Commit
<1>4. nextEventSeq' = Max({e.seq : e \in events'}) + 1 /\ nextEventSeq' <= MaxEvents
  BY DEF Commit
<1>5. ASSUME NEW s \in Nat, s < MaxEvents, NEW t \in Types PROVE E(s, t) \in Event
  BY <1>5, <1>1 DEF Event, Seqs
<1>6. \A s \in Nat, t \in Types : E(s, t).seq = s /\ E(s, t).type = t
  OBVIOUS
<1>7. CASE type = "cleared"
  <2>1. events' = {E(n, "cleared")} /\ messages' = {}
    BY <1>3, <1>7 DEF Appended
  <2>2. {e.seq : e \in events'} = {n}
    BY <2>1
  <2>3. Max({n}) = n
    <3>1. {n} \in SUBSET Int /\ n \in {n} /\ \A y \in {n} : y <= n
      BY <1>1
    <3> HIDE DEF n
    <3> QED BY <3>1, MaxIsGreatest
  <2>4. nextEventSeq' = n + 1
    BY <1>4, <2>2, <2>3
  <2> QED BY <1>4, <2>1, <2>4 DEF Emptied
<1>8. CASE type = "completed"
  <2> DEFINE kept == {e \in events : e.type # "progress"}
  <2>1. events' = kept \cup {E(n, "message"), E(n + 1, "completed")}
    BY <1>3, <1>8 DEF Appended
  <2>2. messages' = messages \cup {n}
    BY <1>3, <1>8
  <2>3. \A y \in {e.seq : e \in events'} : y \in Int /\ y <= n + 1
    <3> SUFFICES ASSUME NEW e \in events' PROVE e.seq \in Int /\ e.seq <= n + 1
      OBVIOUS
    <3>1. CASE e \in kept
      BY <1>1, <3>1
    <3>2. CASE e = E(n, "message") \/ e = E(n + 1, "completed")
      BY <1>1, <3>2
    <3> QED BY <2>1, <3>1, <3>2
  <2>4. n + 1 \in {e.seq : e \in events'}
    <3>1. E(n + 1, "completed") \in events' /\ E(n + 1, "completed").seq = n + 1
      BY <2>1
    <3> QED BY <3>1
  <2>5. Max({e.seq : e \in events'}) = n + 1
    <3> HIDE DEF n
    <3> QED BY <2>3, <2>4, MaxIsGreatest
  <2>6. nextEventSeq' = n + 2 /\ n + 2 <= MaxEvents
    BY <1>1, <1>4, <2>5
  <2>7. E(n, "message") \in Event /\ E(n + 1, "completed") \in Event /\ n \in Seqs
    BY <1>1, <2>6 DEF Event, Seqs, Types
  <2>8. events' \subseteq Event
    BY <1>1, <2>1, <2>7
  <2>9. \A e \in events' :
           e \in events \/ (n <= e.seq /\ e.seq < nextEventSeq' /\ e.type # "cleared")
    BY <1>1, <2>1, <2>6
  <2>10. \A d, e \in events' : d.seq = e.seq => d = e
    <3> SUFFICES ASSUME NEW d \in events', NEW e \in events', d.seq = e.seq PROVE d = e
      OBVIOUS
    <3>1. (d \in events \/ d = E(n, "message") \/ d = E(n + 1, "completed"))
          /\ (e \in events \/ e = E(n, "message") \/ e = E(n + 1, "completed"))
      BY <2>1
    <3>2. CASE d \in events /\ e \in events
      BY <1>2, <3>2
    <3>3. CASE d \notin events /\ e \notin events
      BY <1>1, <3>1, <3>3
    <3>4. CASE d \in events /\ e \notin events
      BY <1>1, <3>1, <3>4
    <3>5. CASE d \notin events /\ e \in events
      BY <1>1, <3>1, <3>5
    <3> QED BY <3>2, <3>3, <3>4, <3>5
  <2>11. MessagesAnnounced'
    <3> SUFFICES ASSUME NEW s \in Seqs PROVE s \in messages' <=> E(s, "message") \in events'
      BY DEF MessagesAnnounced
    <3>1. E(s, "message") \in events' <=> E(s, "message") \in events \/ s = n
      BY <1>6, <2>1
    <3> QED BY <1>1, <2>2, <3>1 DEF MessagesAnnounced
  <2>12. nextEventSeq' \in n .. MaxEvents
    BY <1>1, <2>6
  <2> QED BY <2>1, <2>2, <2>7, <2>8, <2>9, <2>10, <2>11, <2>12 DEF Grown
<1>9. CASE type \in {"message", "progress"}
  <2>1. events' = events \cup {E(n, type)}
    BY <1>3, <1>9 DEF Appended
  <2>2. messages' = IF type = "message" THEN messages \cup {n} ELSE messages
    BY <1>3, <1>9
  <2>3. \A y \in {e.seq : e \in events'} : y \in Int /\ y <= n
    <3> SUFFICES ASSUME NEW e \in events' PROVE e.seq \in Int /\ e.seq <= n
      OBVIOUS
    <3>1. CASE e \in events
      BY <1>1, <3>1
    <3>2. CASE e = E(n, type)
      BY <1>1, <3>2
    <3> QED BY <2>1, <3>1, <3>2
  <2>4. n \in {e.seq : e \in events'}
    <3>1. E(n, type) \in events' /\ E(n, type).seq = n
      BY <2>1
    <3> QED BY <3>1
  <2>5. Max({e.seq : e \in events'}) = n
    <3> HIDE DEF n
    <3> QED BY <2>3, <2>4, MaxIsGreatest
  <2>6. nextEventSeq' = n + 1 /\ n + 1 <= MaxEvents
    BY <1>1, <1>4, <2>5
  <2>7. E(n, type) \in Event /\ n \in Seqs
    BY <1>1, <2>6 DEF Event, Seqs
  <2>8. events' \subseteq Event
    BY <1>1, <2>1, <2>7
  <2>9. \A e \in events' :
           e \in events \/ (n <= e.seq /\ e.seq < nextEventSeq' /\ e.type # "cleared")
    BY <1>1, <1>9, <2>1, <2>6
  <2>10. \A d, e \in events' : d.seq = e.seq => d = e
    <3> SUFFICES ASSUME NEW d \in events', NEW e \in events', d.seq = e.seq PROVE d = e
      OBVIOUS
    <3>1. (d \in events \/ d = E(n, type)) /\ (e \in events \/ e = E(n, type))
      BY <2>1
    <3>2. CASE d \in events /\ e \in events
      BY <1>2, <3>2
    <3>3. CASE d \notin events \/ e \notin events
      BY <1>1, <3>1, <3>3
    <3> QED BY <3>2, <3>3
  <2>11. MessagesAnnounced'
    <3> SUFFICES ASSUME NEW s \in Seqs PROVE s \in messages' <=> E(s, "message") \in events'
      BY DEF MessagesAnnounced
    <3>1. E(s, "message") \in events' <=>
              E(s, "message") \in events \/ (s = n /\ type = "message")
      BY <2>1
    <3> QED BY <1>1, <2>2, <3>1 DEF MessagesAnnounced
  <2>12. nextEventSeq' \in n .. MaxEvents
    BY <1>1, <2>6
  <2>13. messages' = messages \/ messages' = messages \cup {n}
    BY <2>2
  <2> QED BY <2>1, <2>7, <2>8, <2>9, <2>10, <2>11, <2>12, <2>13 DEF Grown
<1> QED BY <1>7, <1>8, <1>9 DEF Types

\* What a client or an answer shows stays right when the log grows.
LEMMA GrownShows ==
    ASSUME LogIInv, Grown, NEW s \in Int, s < nextEventSeq, NEW shown, ShowsTo(s, shown)
    PROVE  ShowsTo(s, shown)'
<1>1. CASE ClearedAfter(s)
  <2>1. PICK c \in events : c.type = "cleared" /\ c.seq > s
    BY <1>1 DEF ClearedAfter
  <2>2. c \in events'
    BY <2>1 DEF Grown
  <2> QED BY <2>1, <2>2 DEF ClearedAfter, ShowsTo
<1>2. CASE ~ClearedAfter(s)
  <2>1. shown \subseteq messages /\ \A m \in Last(PageSize, messages) : m \in shown \/ m > s
    BY <1>2 DEF ShowsTo
  <2>2. CASE messages' = messages
    BY <2>1, <2>2 DEF ShowsTo
  <2>3. CASE nextEventSeq \in Seqs /\ messages' = messages \cup {nextEventSeq}
    <3>1. messages \in SUBSET Seqs /\ PageSize \in Nat
      BY TableTypes, LogAssumption
    <3>2. PICK n \in Seqs : n = nextEventSeq
      BY <2>3
    <3>3. Last(PageSize, messages \cup {n}) \subseteq Last(PageSize, messages) \cup {n}
      BY <3>1, LastOfMore
    <3>4. n > s
      BY <3>2, TableTypes
    <3>5. \A m \in Last(PageSize, messages') : m \in shown \/ m > s
      BY <2>1, <2>3, <3>2, <3>3, <3>4
    <3>6. shown \subseteq messages'
      BY <2>1, <2>3
    <3> QED BY <3>5, <3>6 DEF ShowsTo
  <2> QED BY <2>2, <2>3 DEF Grown
<1> QED BY <1>1, <1>2

\* A clear is still to come for whoever has a cursor.
LEMMA EmptiedShows ==
    ASSUME LogIInv, Emptied, NEW s \in Int, s < nextEventSeq
    PROVE  ClearedAfter(s)' /\ \A shown : ShowsTo(s, shown)'
<1> DEFINE c == [seq |-> nextEventSeq, type |-> "cleared"]
<1>1. c \in events' /\ c.type = "cleared" /\ c.seq = nextEventSeq /\ nextEventSeq \in Nat
  BY TableTypes DEF Emptied
<1> HIDE DEF c
<1>2. ClearedAfter(s)'
  BY <1>1 DEF ClearedAfter
<1> QED BY <1>2 DEF ShowsTo

\* The parts of the invariant that tell of the log and its readers.
Readers == MessagesAnnounced /\ Numbered /\ ClearsFirst /\ Streamed /\ Opened

\* A log that grows upsets no reader.
LEMMA GrownKeeps ==
    ASSUME LogIInv, Grown, UNCHANGED <<stream, client, req>>
    PROVE  /\ Readers'
           /\ client.open => client.seen >= client.cursor /\ ShowsTo(client.cursor, client.shown)'
           /\ \A q \in Request :
                  req[q].at = "answered" => ShowsTo(req[q].cursor, req[q].page)'
<1> DEFINE n == nextEventSeq
<1>1. /\ n \in Nat /\ n' \in Nat /\ n <= n'
      /\ \A e \in events : e \in Event /\ e.seq \in Nat /\ e.seq < n
      /\ \A e \in stream.batch : e \in Event /\ e.seq \in Nat /\ e.seq < n
      /\ stream.seq \in Int /\ client.cursor \in Int /\ client.seen \in Int
      /\ \A q \in Request : req[q].cursor \in Int
  BY TableTypes DEF Grown
<1>2. Numbered /\ ClearsFirst /\ Streamed /\ Opened /\ Honest
  BY DEF LogIInv
<1>3. \A e \in events' :
          (e \in events \/ (n <= e.seq /\ e.seq < n' /\ e.type # "cleared")) /\ e.seq \in Nat
  BY LogAssumption DEF Grown, Event, Seqs
<1>4. Numbered'
  <2>1. \A e \in (events \cup stream.batch)' : e.seq < n'
    <3> SUFFICES ASSUME NEW e \in (events \cup stream.batch)' PROVE e.seq < n'
      OBVIOUS
    <3>1. CASE e \in events'
      BY <1>1, <1>3, <3>1
    <3>2. CASE e \in stream.batch
      BY <1>1, <3>2
    <3> QED BY <3>1, <3>2
  <2>2. \A d, e \in (events \cup stream.batch)' : d.seq = e.seq => d = e
    <3> SUFFICES ASSUME NEW d \in (events \cup stream.batch)', NEW e \in (events \cup stream.batch)',
                        d.seq = e.seq
                 PROVE  d = e
      OBVIOUS
    <3>1. CASE d \in events' /\ e \in events'
      BY <3>1 DEF Grown
    <3>2. CASE d \in stream.batch /\ e \in stream.batch
      BY <1>2, <3>2 DEF Numbered
    <3>3. CASE d \in events' /\ e \in stream.batch
      <4>1. d \in events
        BY <1>1, <1>3, <3>3
      <4> QED BY <1>2, <3>3, <4>1 DEF Numbered
    <3>4. CASE d \in stream.batch /\ e \in events'
      <4>1. e \in events
        BY <1>1, <1>3, <3>4
      <4> QED BY <1>2, <3>4, <4>1 DEF Numbered
    <3> QED BY <3>1, <3>2, <3>3, <3>4
  <2>3. /\ stream.seq < n' /\ client.cursor < n' /\ client.seen < n'
        /\ \A q \in Request : req[q].cursor < n'
    BY <1>1, <1>2 DEF Numbered
  <2> QED BY <2>1, <2>2, <2>3 DEF Numbered
<1>5. ClearsFirst'
  <2> SUFFICES ASSUME NEW c \in events', NEW d \in events', c.type = "cleared", d # c
               PROVE  d.seq > c.seq
    BY DEF ClearsFirst
  <2>1. c \in events
    BY <1>3
  <2>2. CASE d \in events
    BY <1>2, <2>1, <2>2 DEF ClearsFirst
  <2>3. CASE d \notin events
    BY <1>1, <1>3, <2>1, <2>3
  <2> QED BY <2>2, <2>3
<1>6. Streamed'
  <2>1. ASSUME NEW b \in stream.batch
        PROVE  /\ b.seq > stream.seq
               /\ \A e \in events' : e.seq > stream.seq /\ e.seq <= b.seq => e \in stream.batch
               /\ b \in events' \/ b.type = "progress" \/ ClearedAfter(b.seq)'
    <3>1. b.seq > stream.seq
      BY <1>2 DEF Streamed
    <3>2. \A e \in events' : e.seq > stream.seq /\ e.seq <= b.seq => e \in stream.batch
      <4> SUFFICES ASSUME NEW e \in events', e.seq > stream.seq, e.seq <= b.seq
                   PROVE  e \in stream.batch
        OBVIOUS
      <4>1. e \in events
        BY <1>1, <1>3
      <4> QED BY <1>2, <4>1 DEF Streamed
    <3>3. b \in events' \/ b.type = "progress" \/ ClearedAfter(b.seq)'
      <4>1. CASE b \in events
        BY <4>1 DEF Grown
      <4>2. CASE ClearedAfter(b.seq)
        <5>1. PICK c \in events : c.type = "cleared" /\ c.seq > b.seq
          BY <4>2 DEF ClearedAfter
        <5>2. c \in events'
          BY <5>1 DEF Grown
        <5> QED BY <5>1, <5>2 DEF ClearedAfter
      <4> QED BY <1>2, <4>1, <4>2 DEF Streamed
    <3> QED BY <3>1, <3>2, <3>3
  <2>2. /\ stream'.at # "off" => client'.open /\ stream'.seq = client'.cursor
        /\ stream'.at = "yielding" <=> stream'.batch # {}
    BY <1>2 DEF Streamed
  <2>3. stream' = stream
    OBVIOUS
  <2> QED BY <2>1, <2>2, <2>3 DEF Streamed
<1>7. Opened'
  BY <1>2 DEF Opened
<1>8. client.open => client.seen >= client.cursor /\ ShowsTo(client.cursor, client.shown)'
  <2> SUFFICES ASSUME client.open
               PROVE  client.seen >= client.cursor /\ ShowsTo(client.cursor, client.shown)'
    OBVIOUS
  <2>1. client.seen >= client.cursor /\ ShowsTo(client.cursor, client.shown)
    BY <1>2 DEF Honest
  <2>2. PICK s \in Int : s = client.cursor
    BY <1>1
  <2>3. PICK shown : shown = client.shown
    OBVIOUS
  <2>4. s < nextEventSeq /\ ShowsTo(s, shown)
    BY <1>2, <2>1, <2>2, <2>3 DEF Numbered
  <2>5. ShowsTo(s, shown)'
    BY <2>4, GrownShows
  <2> QED BY <2>1, <2>2, <2>3, <2>5 DEF ShowsTo, ClearedAfter
<1>9. ASSUME NEW q \in Request, req[q].at = "answered" PROVE ShowsTo(req[q].cursor, req[q].page)'
  <2>1. ShowsTo(req[q].cursor, req[q].page)
    BY <1>2, <1>9 DEF Honest
  <2>2. PICK s \in Int : s = req[q].cursor
    BY <1>1
  <2>3. PICK shown : shown = req[q].page
    OBVIOUS
  <2>4. s < nextEventSeq /\ ShowsTo(s, shown)
    BY <1>2, <2>1, <2>2, <2>3 DEF Numbered
  <2>5. ShowsTo(s, shown)'
    BY <2>4, GrownShows
  <2> QED BY <2>2, <2>3, <2>5 DEF ShowsTo, ClearedAfter
<1>10. MessagesAnnounced'
  BY DEF Grown
<1> QED BY <1>4, <1>5, <1>6, <1>7, <1>8, <1>9, <1>10 DEF Readers

\* Nor does a clear: it is news to every reader.
LEMMA EmptiedKeeps ==
    ASSUME LogIInv, Emptied, UNCHANGED <<stream, client, req>>
    PROVE  /\ Readers'
           /\ client.open => client.seen >= client.cursor /\ ShowsTo(client.cursor, client.shown)'
           /\ \A q \in Request :
                  req[q].at = "answered" => ShowsTo(req[q].cursor, req[q].page)'
<1> DEFINE n == nextEventSeq
           c == [seq |-> n, type |-> "cleared"]
<1>1. /\ n \in Nat
      /\ \A e \in stream.batch : e \in Event /\ e.seq \in Nat /\ e.seq < n
      /\ stream.seq \in Int /\ client.cursor \in Int /\ client.seen \in Int
      /\ \A q \in Request : req[q].cursor \in Int
  BY TableTypes
<1>2. Numbered /\ Streamed /\ Opened /\ Honest
  BY DEF LogIInv
<1>3. n' = n + 1 /\ events' = {c} /\ messages' = {} /\ c.seq = n /\ c.type = "cleared"
  BY DEF Emptied
<1>4. MessagesAnnounced'
  <2> SUFFICES ASSUME NEW s \in Seqs PROVE [seq |-> s, type |-> "message"] \notin events'
    BY <1>3 DEF MessagesAnnounced
  <2>1. [seq |-> s, type |-> "message"].type = "message"
    OBVIOUS
  <2> HIDE DEF c
  <2> QED BY <1>3, <2>1
<1> HIDE DEF c
<1>5. Numbered'
  <2>1. \A e \in (events \cup stream.batch)' : e.seq < n'
    BY <1>1, <1>3
  <2>2. \A d, e \in (events \cup stream.batch)' : d.seq = e.seq => d = e
    <3> SUFFICES ASSUME NEW d \in (events \cup stream.batch)', NEW e \in (events \cup stream.batch)',
                        d.seq = e.seq
                 PROVE  d = e
      OBVIOUS
    <3>1. (d = c \/ d \in stream.batch) /\ (e = c \/ e \in stream.batch)
      BY <1>3
    <3>2. CASE d \in stream.batch /\ e \in stream.batch
      BY <1>2, <3>2 DEF Numbered
    <3>3. CASE d = c \/ e = c
      BY <1>1, <1>3, <3>1, <3>3
    <3> QED BY <3>1, <3>2, <3>3
  <2>3. /\ stream.seq < n' /\ client.cursor < n' /\ client.seen < n'
        /\ \A q \in Request : req[q].cursor < n'
    BY <1>1, <1>2, <1>3 DEF Numbered
  <2> QED BY <2>1, <2>2, <2>3 DEF Numbered
<1>6. ClearsFirst'
  BY <1>3 DEF ClearsFirst
<1>7. Streamed'
  <2>1. ASSUME NEW b \in stream.batch
        PROVE  /\ b.seq > stream.seq
               /\ \A e \in events' : ~(e.seq <= b.seq)
               /\ ClearedAfter(b.seq)'
    <3>1. b.seq < n /\ b.seq \in Int
      BY <1>1
    <3>2. ClearedAfter(b.seq)'
      BY <1>1, <1>3, <3>1 DEF ClearedAfter
    <3> QED BY <1>1, <1>2, <1>3, <3>1, <3>2 DEF Streamed
  <2>2. /\ stream'.at # "off" => client'.open /\ stream'.seq = client'.cursor
        /\ stream'.at = "yielding" <=> stream'.batch # {}
    BY <1>2 DEF Streamed
  <2>3. stream' = stream
    OBVIOUS
  <2> QED BY <2>1, <2>2, <2>3 DEF Streamed
<1>8. Opened'
  BY <1>2 DEF Opened
<1>9. client.open => client.seen >= client.cursor /\ ShowsTo(client.cursor, client.shown)'
  <2>1. PICK s \in Int : s = client.cursor
    BY <1>1
  <2>2. s < nextEventSeq
    BY <1>2, <2>1 DEF Numbered
  <2>3. ClearedAfter(s)'
    BY <2>2, EmptiedShows
  <2> QED BY <1>2, <2>1, <2>3 DEF ShowsTo, ClearedAfter, Honest
<1>10. ASSUME NEW q \in Request PROVE ShowsTo(req[q].cursor, req[q].page)'
  <2>1. PICK s \in Int : s = req[q].cursor
    BY <1>1
  <2>2. s < nextEventSeq
    BY <1>2, <2>1 DEF Numbered
  <2>3. ClearedAfter(s)'
    BY <2>2, EmptiedShows
  <2> QED BY <2>1, <2>3 DEF ShowsTo, ClearedAfter
<1> QED BY <1>4, <1>5, <1>6, <1>7, <1>8, <1>9, <1>10 DEF Readers

-----------------------------------------------------------------------------
(* The writers.                                                             *)

\* A commit appends under the number its transaction has locked, and is then announced.
LEMMA CommitKeeps ==
    ASSUME LogIInv, NEW w \in Writer, Commit(w)
    PROVE  LogIInv'
<1>1. /\ UNCHANGED <<listening, lost, stream, client, req, faults>> /\ tx[w].at = "locked"
      /\ tx' = [tx EXCEPT ![w] = [NoTx EXCEPT !.at = "committed"]]
  BY DEF Commit
<1>2. LogTypeOK /\ RowHeld
  BY DEF LogIInv
<1>3. [NoTx EXCEPT !.at = "committed"] = [at |-> "committed", seq |-> 0]
  BY DEF NoTx
<1>4. tx \in [Writer -> [at : {"out", "locked", "committed"}, seq : 0 .. MaxEvents]]
  BY <1>2 DEF LogTypeOK
<1>5. tx' \in [Writer -> [at : {"out", "locked", "committed"}, seq : 0 .. MaxEvents]]
  BY <1>1, <1>3, <1>4, LogAssumption
<1>6. tx'[w].at = "committed" /\ \A v \in Writer \ {w} : tx'[v] = tx[v]
  BY <1>1, <1>3, <1>4
<1>7. nextEventSeq' \in 0 .. MaxEvents /\ events' \subseteq Event /\ messages' \subseteq Seqs
  <2>1. nextEventSeq \in Nat /\ MaxEvents \in Nat /\ messages \subseteq Seqs
    BY TableTypes
  <2>2. CASE Grown
    BY <2>1, <2>2 DEF Grown
  <2>3. CASE Emptied
    BY <2>1, <2>3 DEF Emptied, Event, Seqs, Types
  <2> QED BY <2>2, <2>3, CommitMoves
<1>8. LogTypeOK'
  BY <1>1, <1>2, <1>5, <1>7 DEF LogTypeOK
<1>9. RowHeld'
  BY <1>1, <1>2, <1>6 DEF RowHeld
<1>10. /\ Readers'
       /\ client.open => client.seen >= client.cursor /\ ShowsTo(client.cursor, client.shown)'
       /\ \A q \in Request : req[q].at = "answered" => ShowsTo(req[q].cursor, req[q].page)'
  BY <1>1, CommitMoves, GrownKeeps, EmptiedKeeps
<1>11. Honest'
  <2>1. \A q \in Request : req[q].at # "paged"
    BY <1>1, <1>2 DEF RowHeld
  <2>2. client.open => client.seen >= client.cursor
    BY DEF LogIInv, Honest
  <2> QED BY <1>1, <1>10, <2>1, <2>2 DEF Honest, ShowsTo, ClearedAfter
<1>12. Awake'
  BY <1>6 DEF Awake, NoNews
<1> QED BY <1>8, <1>9, <1>10, <1>11, <1>12 DEF LogIInv, Readers

\* A stop deletes progress, which no reader waits for.
LEMMA StopRunKeeps ==
    ASSUME LogIInv, StopRun
    PROVE  LogIInv'
<1>1. /\ UNCHANGED <<nextEventSeq, messages, tx, listening, lost, stream, client, req, faults>>
      /\ events' = {e \in events : e.type # "progress"}
  BY DEF StopRun
<1>2. /\ LogTypeOK /\ MessagesAnnounced /\ Numbered /\ RowHeld /\ Honest /\ Awake
      /\ nextEventSeq \in Nat /\ MaxEvents \in Nat /\ nextEventSeq <= MaxEvents
  BY TableTypes DEF LogIInv
<1>3. MessagesAnnounced'
  <2>1. \A s \in Seqs : [seq |-> s, type |-> "message"].type # "progress"
    OBVIOUS
  <2> QED BY <1>1, <1>2, <2>1 DEF MessagesAnnounced
<1>4. Grown
  <2>1. \A d, e \in events' : d.seq = e.seq => d = e
    BY <1>1, <1>2 DEF Numbered
  <2>2. events' \subseteq Event /\ events' \subseteq events
    BY <1>1, <1>2 DEF LogTypeOK
  <2> QED BY <1>1, <1>2, <1>3, <2>1, <2>2 DEF Grown
<1>5. /\ Readers'
      /\ client.open => client.seen >= client.cursor /\ ShowsTo(client.cursor, client.shown)'
      /\ \A q \in Request : req[q].at = "answered" => ShowsTo(req[q].cursor, req[q].page)'
  BY <1>1, <1>4, GrownKeeps
<1>6. Honest'
  BY <1>1, <1>2, <1>5 DEF Honest, ShowsTo, ClearedAfter
<1>7. LogTypeOK' /\ RowHeld' /\ Awake'
  BY <1>1, <1>2 DEF LogTypeOK, RowHeld, Awake, NoNews
<1> QED BY <1>5, <1>6, <1>7 DEF LogIInv, Readers

\* The parts of the invariant that tell of the tables alone stand when they stand.
LEMMA TablesStand ==
    ASSUME LogIInv, UNCHANGED Tables
    PROVE  /\ MessagesAnnounced' /\ ClearsFirst'
           /\ \A s, shown : ShowsTo(s, shown)' <=> ShowsTo(s, shown)
           /\ \A s : ClearedAfter(s)' <=> ClearedAfter(s)
BY DEF LogIInv, Tables, MessagesAnnounced, ClearsFirst, ShowsTo, ClearedAfter

\* A step of a transaction, of the listener or of the stream that writes no table and
\* answers nobody: what it still has to show.
LEMMA StreamKeeps ==
    ASSUME LogIInv, UNCHANGED Tables, UNCHANGED <<client, req>>, LogTypeOK', RowHeld',
           stream'.batch \subseteq events \cup stream.batch, stream'.seq < nextEventSeq,
           Streamed', Awake'
    PROVE  LogIInv'
<1>1. Numbered /\ Opened /\ Honest
  BY DEF LogIInv
<1>2. Numbered'
  BY <1>1 DEF Numbered, Tables
<1>3. Opened'
  BY <1>1 DEF Opened
<1>4. Honest'
  BY <1>1, TablesStand DEF Honest, ShowsTo, ClearedAfter, Tables
<1> QED BY <1>2, <1>3, <1>4, TablesStand DEF LogIInv

\* The stream is signalled: nothing else about it changes, and it will look again.
LEMMA NotifiedKeeps ==
    ASSUME LogIInv, UNCHANGED Tables, UNCHANGED <<client, req>>, stream' = Notified(stream),
           tx' \in [Writer -> [at : {"out", "locked", "committed"}, seq : 0 .. MaxEvents]],
           listening' \in BOOLEAN, UNCHANGED <<lost, faults>>, RowHeld'
    PROVE  LogIInv'
<1>1. stream \in Stream /\ Streamed /\ Numbered
  BY DEF LogIInv, LogTypeOK, Stream
<1>2. /\ stream' \in Stream /\ stream'.at = stream.at /\ stream'.seq = stream.seq
      /\ stream'.batch = stream.batch /\ stream'.changed = (stream.at # "off")
  BY <1>1 DEF Notified, Stream
<1>3. LogTypeOK'
  BY <1>2 DEF LogIInv, LogTypeOK, Tables, Stream
<1>4. Streamed'
  BY <1>1, <1>2 DEF Streamed, ClearedAfter, Tables
<1>5. Awake'
  BY <1>2 DEF Awake, NoNews
<1>6. stream'.batch \subseteq events \cup stream.batch /\ stream'.seq < nextEventSeq
  BY <1>1, <1>2 DEF Numbered
<1> QED BY <1>3, <1>4, <1>5, <1>6, StreamKeeps

\* The steps of a transaction around its commit.
LEMMA WriterKeeps ==
    ASSUME LogIInv, NEW w \in Writer, Lock(w) \/ Abort(w) \/ Notify(w)
    PROVE  LogIInv'
<1> DEFINE TxRow == [at : {"out", "locked", "committed"}, seq : 0 .. MaxEvents]
<1>1. LogTypeOK /\ RowHeld /\ Streamed /\ Awake /\ Numbered
  BY DEF LogIInv
<1>2. tx \in [Writer -> TxRow] /\ nextEventSeq \in 0 .. MaxEvents
  BY <1>1 DEF LogTypeOK
<1>3. UNCHANGED Tables /\ UNCHANGED <<client, req>> /\ UNCHANGED listening
  BY DEF Lock, Abort, Notify, Tables
<1>4. PICK row \in TxRow : tx' = [tx EXCEPT ![w] = row]
  <2>1. NoTx \in TxRow /\ [at |-> "locked", seq |-> nextEventSeq] \in TxRow
    BY <1>2, LogAssumption DEF NoTx
  <2> QED BY <2>1 DEF Lock, Abort, Notify
<1>5. tx' \in [Writer -> TxRow] /\ tx'[w] = row /\ \A v \in Writer \ {w} : tx'[v] = tx[v]
  BY <1>2, <1>4
<1>6. CASE Lock(w)
  <2>1. tx'[w].at = "locked" /\ tx'[w].seq = nextEventSeq /\ tx[w].at = "out"
        /\ ~RowLocked /\ ~RowShared /\ UNCHANGED <<stream, lost, listening, faults>>
    BY <1>2, <1>6 DEF Lock
  <2>2. RowHeld'
    BY <1>3, <1>5, <2>1 DEF RowHeld, RowLocked, RowShared, Tables
  <2>3. Awake'
    BY <1>1, <1>3, <1>5, <2>1 DEF Awake, NoNews, Tables
  <2>4. LogTypeOK'
    BY <1>1, <1>3, <1>5, <2>1 DEF LogTypeOK, Tables
  <2>5. Streamed' /\ stream'.batch \subseteq events \cup stream.batch /\ stream'.seq < nextEventSeq
    BY <1>1, <1>3, <2>1 DEF Streamed, ClearedAfter, Tables, Numbered
  <2> QED BY <1>3, <2>2, <2>3, <2>4, <2>5, StreamKeeps
<1>7. CASE Abort(w)
  <2>1. tx'[w].at = "out" /\ tx[w].at = "locked" /\ UNCHANGED <<stream, lost, listening>>
        /\ faults' \in 0 .. MaxFaults
    BY <1>1, <1>2, <1>7, LogAssumption DEF Abort, NoTx, Fault, LogTypeOK
  <2>2. RowHeld'
    BY <1>1, <1>3, <1>5, <2>1 DEF RowHeld, Tables
  <2>3. Awake'
    BY <1>1, <1>3, <1>5, <2>1 DEF Awake, NoNews, Tables
  <2>4. LogTypeOK'
    BY <1>1, <1>3, <1>5, <2>1 DEF LogTypeOK, Tables
  <2>5. Streamed' /\ stream'.batch \subseteq events \cup stream.batch /\ stream'.seq < nextEventSeq
    BY <1>1, <1>3, <2>1 DEF Streamed, ClearedAfter, Tables, Numbered
  <2> QED BY <1>3, <2>2, <2>3, <2>4, <2>5, StreamKeeps
<1>8. CASE Notify(w)
  <2>1. tx'[w].at = "out" /\ tx[w].at = "committed"
    BY <1>2, <1>8 DEF Notify, NoTx
  <2>2. RowHeld'
    BY <1>1, <1>3, <1>5, <2>1 DEF RowHeld, Tables
  <2>3. CASE listening /\ stream' = Notified(stream) /\ UNCHANGED <<lost, faults>>
    <3>1. listening' \in BOOLEAN
      BY <1>1, <1>3 DEF LogTypeOK
    <3> QED BY <1>3, <1>5, <2>2, <2>3, <3>1, NotifiedKeeps
  <2>4. CASE UNCHANGED stream /\ (~listening \/ lost') /\ lost' \in BOOLEAN /\ faults' \in 0 .. MaxFaults
    <3>1. Awake'
      BY <1>3, <2>4 DEF Awake, NoNews
    <3>2. LogTypeOK'
      BY <1>1, <1>3, <1>5, <2>4 DEF LogTypeOK, Tables
    <3>3. Streamed' /\ stream'.batch \subseteq events \cup stream.batch /\ stream'.seq < nextEventSeq
      BY <1>1, <1>3, <2>4 DEF Streamed, ClearedAfter, Tables, Numbered
    <3> QED BY <1>3, <2>2, <3>1, <3>2, <3>3, StreamKeeps
  <2>5. faults \in 0 .. MaxFaults /\ lost \in BOOLEAN /\ listening \in BOOLEAN
    BY <1>1 DEF LogTypeOK
  <2>6. CASE /\ stream' = (IF listening THEN Notified(stream) ELSE stream)
             /\ UNCHANGED <<lost, faults>>
    <3>1. CASE listening
      BY <2>3, <2>6, <3>1
    <3>2. CASE ~listening
      BY <2>4, <2>5, <2>6, <3>2
    <3> QED BY <3>1, <3>2
  <2>7. CASE Fault /\ lost' = TRUE /\ UNCHANGED stream
    <3>1. faults' \in 0 .. MaxFaults /\ lost' \in BOOLEAN
      BY <2>5, <2>7, LogAssumption DEF Fault
    <3> QED BY <2>4, <2>7, <3>1
  <2> QED BY <1>8, <2>6, <2>7 DEF Notify
<1> QED BY <1>6, <1>7, <1>8

\* The listener breaks, or is there again and signals the stream.
LEMMA ListenerKeeps ==
    ASSUME LogIInv, Connect \/ Disconnect
    PROVE  LogIInv'
<1>1. LogTypeOK /\ RowHeld /\ Streamed /\ Numbered
  BY DEF LogIInv
<1>2. UNCHANGED Tables /\ UNCHANGED <<client, req, tx, lost>>
  BY DEF Connect, Disconnect, Tables
<1>3. RowHeld'
  BY <1>1, <1>2 DEF RowHeld, Tables
<1>4. CASE Connect
  BY <1>1, <1>2, <1>3, <1>4, NotifiedKeeps DEF Connect, LogTypeOK
<1>5. CASE Disconnect
  <2>1. listening' = FALSE /\ UNCHANGED stream /\ faults' \in 0 .. MaxFaults
    BY <1>1, <1>5, LogAssumption DEF Disconnect, Fault, LogTypeOK
  <2>2. Awake'
    BY <2>1 DEF Awake, NoNews
  <2>3. LogTypeOK'
    BY <1>1, <1>2, <2>1 DEF LogTypeOK, Tables
  <2>4. Streamed' /\ stream'.batch \subseteq events \cup stream.batch /\ stream'.seq < nextEventSeq
    BY <1>1, <1>2, <2>1 DEF Streamed, ClearedAfter, Tables, Numbered
  <2> QED BY <1>2, <1>3, <2>2, <2>3, <2>4, StreamKeeps
<1> QED BY <1>4, <1>5

-----------------------------------------------------------------------------
(* followThreadEvents.                                                      *)

\* Subscribing begins at the client's cursor with nothing in hand; a stream that breaks
\* has nothing in hand either; waking up reads again.
LEMMA SleeperKeeps ==
    ASSUME LogIInv, Subscribe \/ Drop \/ CatchUp
    PROVE  LogIInv'
<1>1. LogTypeOK /\ RowHeld /\ Streamed /\ Numbered /\ stream \in Stream /\ client \in Client
  BY DEF LogIInv, LogTypeOK, Stream, Client
<1>2. UNCHANGED Tables /\ UNCHANGED <<client, req, tx, listening, lost>>
  BY DEF Subscribe, Drop, CatchUp, Tables
<1>3. faults' \in 0 .. MaxFaults
  <2>1. faults \in 0 .. MaxFaults
    BY <1>1 DEF LogTypeOK
  <2> QED BY <2>1, LogAssumption DEF Subscribe, Drop, CatchUp, Fault
<1>4. RowHeld'
  BY <1>1, <1>2 DEF RowHeld, Tables
<1>5. NoStream \in Stream /\ NoStream.batch = {} /\ NoStream.seq = -1 /\ NoStream.at = "off"
  BY DEF NoStream, Stream, Cursor
<1>6. /\ stream' \in Stream /\ stream'.batch = {} /\ stream'.at \in {"off", "reading"}
      /\ stream'.at = "reading" => client.open /\ stream'.seq = client.cursor
      /\ stream'.seq \in {-1, stream.seq, client.cursor}
  <2>1. CASE Subscribe
    <3>1. stream' = [NoStream EXCEPT !.at = "reading", !.seq = client.cursor] /\ client.open
      BY <2>1 DEF Subscribe
    <3>2. client.cursor \in Cursor
      BY <1>1 DEF Client
    <3> QED BY <1>5, <3>1, <3>2 DEF Stream
  <2>2. CASE Drop
    BY <1>5, <2>2 DEF Drop
  <2>3. CASE CatchUp
    <3>1. stream' = [stream EXCEPT !.at = "reading", !.changed = FALSE] /\ stream.at = "waiting"
      BY <2>3 DEF CatchUp
    <3>2. stream.batch = {} /\ client.open /\ stream.seq = client.cursor
      BY <1>1, <3>1 DEF Streamed
    <3> QED BY <1>1, <3>1, <3>2 DEF Stream
  <2> QED BY <2>1, <2>2, <2>3
<1>7. LogTypeOK'
  BY <1>1, <1>2, <1>3, <1>6 DEF LogTypeOK, Tables, Stream
<1>8. Streamed'
  BY <1>2, <1>6 DEF Streamed
<1>9. Awake'
  BY <1>6 DEF Awake
<1>10. stream'.batch \subseteq events \cup stream.batch /\ stream'.seq < nextEventSeq
  BY <1>1, <1>6, TableTypes DEF Numbered
<1> QED BY <1>2, <1>4, <1>7, <1>8, <1>9, <1>10, StreamKeeps

\* A read takes the next events of the log; if there are none the stream sleeps.
LEMMA ReadKeeps ==
    ASSUME LogIInv, Read
    PROVE  LogIInv'
<1> DEFINE rest == {e \in events : e.seq > stream.seq}
           batch == EventsAfter(stream.seq)
           full == Cardinality(batch) = BatchSize
<1>1. LogTypeOK /\ RowHeld /\ Streamed /\ Numbered /\ stream \in Stream
  BY DEF LogIInv, LogTypeOK, Stream
<1>2. UNCHANGED Tables /\ UNCHANGED <<client, req, tx, listening, lost, faults>>
      /\ stream.at = "reading"
  BY DEF Read, Tables
<1>3. RowHeld'
  BY <1>1, <1>2 DEF RowHeld, Tables
<1>4. rest \in SUBSET Event /\ rest \subseteq events /\ batch = First(BatchSize, rest)
      /\ BatchSize \in Nat \ {0} /\ batch \subseteq rest
  BY <1>1, LogAssumption DEF LogTypeOK, EventsAfter, First
<1>5. full \in BOOLEAN /\ batch \in SUBSET Event
  BY <1>4
<1>6. /\ stream' \in Stream /\ stream'.seq = stream.seq /\ stream'.batch = batch
      /\ stream'.full = full
      /\ stream'.at = IF batch = {} THEN "waiting" ELSE "yielding"
  <2> DEFINE read == [stream EXCEPT !.batch = batch, !.full = full]
  <2>1. read \in Stream /\ read.seq = stream.seq /\ read.batch = batch /\ read.full = full
    <3> HIDE DEF batch, full
    <3> QED BY <1>1, <1>5 DEF Stream
  <2>2. stream' = IF batch = {} THEN Waits(read) ELSE [read EXCEPT !.at = "yielding"]
    BY DEF Read
  <2> HIDE DEF read, batch, full
  <2> QED BY <2>1, <2>2 DEF Stream, Waits
<1>7. LogTypeOK'
  BY <1>1, <1>2, <1>6 DEF LogTypeOK, Tables, Stream
<1>8. ASSUME NEW b \in batch, NEW e \in events, e.seq > stream.seq, e.seq <= b.seq
      PROVE  e \in batch
  <2>1. e \in rest
    BY <1>8
  <2> HIDE DEF rest, batch
  <2> QED BY <1>4, <1>8, <2>1, FirstComeFirst
<1>9. batch = {} \/ ~full => batch = rest
  <2>1. \A d, e \in rest : d.seq = e.seq => d = e
    BY <1>1 DEF Numbered
  <2>2. CASE batch = {}
    <3> HIDE DEF rest, batch
    <3> QED BY <1>4, <2>2, FirstOfNone
  <2>3. CASE ~full
    <3>1. Cardinality(First(BatchSize, rest)) # BatchSize
      BY <1>4, <2>3
    <3> HIDE DEF rest, batch
    <3> QED BY <1>4, <2>1, <3>1, FirstIsFull
  <2> QED BY <2>2, <2>3
<1> HIDE DEF batch, full
<1>10. Streamed'
  BY <1>1, <1>2, <1>4, <1>6, <1>8 DEF Streamed, Tables
<1>11. Awake'
  <2>1. SUFFICES ASSUME stream'.at = "waiting" \/ ~stream'.full, NEW e \in events
                 PROVE  e.seq <= stream.seq \/ e \in batch
    BY <1>2, <1>6 DEF Awake, Tables
  <2>2. batch = rest
    BY <1>6, <1>9, <2>1
  <2> QED BY <2>2, TableTypes
<1>12. stream'.batch \subseteq events \cup stream.batch /\ stream'.seq < nextEventSeq
  BY <1>1, <1>4, <1>6 DEF Numbered
<1> QED BY <1>2, <1>3, <1>7, <1>10, <1>11, <1>12, StreamKeeps

\* The event e is applied to what the client shows.
Applied(e, shown) ==
    CASE e.type = "cleared" -> {}
      [] e.type = "message" -> shown \cup {e.seq}
      [] OTHER              -> shown

\* Applying the next event of the log to what is right up to a cursor makes it right up to
\* the event: what the log has between the two is the event itself.
LEMMA AppliedShows ==
    ASSUME LogIInv, client.open, NEW e \in stream.batch, \A d \in stream.batch : e.seq <= d.seq
    PROVE  ShowsTo(e.seq, Applied(e, client.shown))
<1>1. Streamed /\ Numbered /\ ClearsFirst /\ Honest /\ MessagesAnnounced /\ stream.at # "off"
  BY DEF LogIInv, Streamed
<1>2. /\ stream.seq = client.cursor /\ e.seq > client.cursor /\ ShowsTo(client.cursor, client.shown)
      /\ e \in events \/ e.type = "progress" \/ ClearedAfter(e.seq)
  BY <1>1 DEF Streamed, Honest
<1>3. /\ e \in Event /\ e.seq \in Nat /\ client.cursor \in Int /\ nextEventSeq \in Nat
      /\ \A d \in events : d.seq \in Nat
      /\ \A m \in messages : m \in Nat /\ m \in Seqs
  BY TableTypes
<1>4. ASSUME NEW d \in events, d.seq > client.cursor, d.seq <= e.seq PROVE d = e
  <2>1. d \in stream.batch
    BY <1>1, <1>2, <1>4 DEF Streamed
  <2>2. d.seq = e.seq
    BY <1>3, <1>4, <2>1
  <2> QED BY <1>1, <2>1, <2>2 DEF Numbered
<1>5. CASE ClearedAfter(e.seq)
  BY <1>5 DEF ShowsTo
<1>6. CASE ~ClearedAfter(e.seq) /\ ClearedAfter(client.cursor)
  <2>1. PICK c \in events : c.type = "cleared" /\ c.seq > client.cursor
    BY <1>6 DEF ClearedAfter
  <2>2. c.seq <= e.seq
    BY <1>3, <1>6, <2>1 DEF ClearedAfter
  <2>3. c = e
    BY <1>4, <2>1, <2>2
  <2>4. Applied(e, client.shown) = {}
    BY <2>1, <2>3 DEF Applied
  <2>5. ASSUME NEW m \in messages PROVE m > e.seq
    <3> DEFINE a == [seq |-> m, type |-> "message"]
    <3>1. a \in events /\ a.seq = m /\ a.type = "message"
      BY <1>1, <1>3 DEF MessagesAnnounced
    <3> HIDE DEF a
    <3> QED BY <1>1, <2>1, <2>3, <3>1 DEF ClearsFirst
  <2> QED BY <2>4, <2>5 DEF ShowsTo, Last
<1>7. CASE ~ClearedAfter(e.seq) /\ ~ClearedAfter(client.cursor)
  <2>1. /\ client.shown \subseteq messages
        /\ \A m \in Last(PageSize, messages) : m \in client.shown \/ m > client.cursor
    BY <1>2, <1>7 DEF ShowsTo
  <2>2. e.type # "cleared"
    BY <1>2, <1>7 DEF ClearedAfter
  <2>3. e = [seq |-> e.seq, type |-> e.type] /\ e.seq \in Seqs
    BY <1>3 DEF Event
  <2>4. e.type = "message" => e.seq \in messages
    BY <1>1, <1>2, <1>7, <2>3 DEF MessagesAnnounced
  <2>5. Applied(e, client.shown) = IF e.type = "message" THEN client.shown \cup {e.seq}
                                   ELSE client.shown
    BY <2>2 DEF Applied
  <2>6. Applied(e, client.shown) \subseteq messages
    BY <2>1, <2>4, <2>5
  <2>7. ASSUME NEW m \in Last(PageSize, messages)
        PROVE  m \in Applied(e, client.shown) \/ m > e.seq
    <3>1. CASE m \in client.shown
      BY <2>5, <3>1
    <3>2. CASE m > client.cursor /\ ~(m > e.seq)
      <4> DEFINE a == [seq |-> m, type |-> "message"]
      <4>1. m \in messages
        BY DEF Last
      <4>2. a \in events /\ a.seq = m /\ a.type = "message"
        BY <1>1, <1>3, <4>1 DEF MessagesAnnounced
      <4> HIDE DEF a
      <4>3. a = e
        BY <1>3, <1>4, <3>2, <4>1, <4>2
      <4> QED BY <2>5, <4>2, <4>3
    <3> QED BY <2>1, <3>1, <3>2
  <2> QED BY <2>6, <2>7 DEF ShowsTo
<1> QED BY <1>5, <1>6, <1>7

\* The client applies the next event in hand, and the stream goes on from it.
LEMMA YieldKeeps ==
    ASSUME LogIInv, Yield
    PROVE  LogIInv'
<1>1. /\ LogTypeOK /\ RowHeld /\ Streamed /\ Numbered /\ Opened /\ Honest /\ Awake
      /\ stream \in Stream /\ client \in Client
  BY DEF LogIInv, LogTypeOK, Stream, Client
<1>2. UNCHANGED Tables /\ UNCHANGED <<req, tx, listening, lost, faults>>
      /\ stream.at = "yielding"
  BY DEF Yield, Tables
<1>3. client.open /\ stream.seq = client.cursor
  BY <1>1, <1>2 DEF Streamed
<1>4. PICK e \in stream.batch :
         /\ \A d \in stream.batch : e.seq <= d.seq
         /\ client' = Reduced(e)
         /\ LET rest == [stream EXCEPT !.seq = e.seq, !.batch = @ \ {e}]
            IN  stream' = IF rest.batch # {} THEN rest
                          ELSE IF stream.full THEN [rest EXCEPT !.at = "reading"]
                          ELSE Waits(rest)
  BY DEF Yield
<1>5. /\ e \in Event /\ e.seq \in Nat /\ e.seq \in Cursor /\ e.seq < nextEventSeq
      /\ e.seq > client.cursor /\ client.cursor \in Int
  BY <1>1, <1>3, TableTypes DEF Streamed, Event, Cursor
<1>6. Max({client.cursor, e.seq}) = e.seq
  <2>1. {client.cursor, e.seq} \in SUBSET Int /\ e.seq \in {client.cursor, e.seq}
        /\ \A y \in {client.cursor, e.seq} : y <= e.seq
    BY <1>5
  <2> QED BY <2>1, MaxIsGreatest
<1>7. /\ client' \in Client /\ client'.open /\ client'.cursor = e.seq /\ client'.seen = e.seq
      /\ client'.shown = Applied(e, client.shown)
  <2>1. client' = [client EXCEPT !.cursor = e.seq, !.seen = e.seq, !.shown = Applied(e, client.shown)]
    BY <1>4, <1>6 DEF Reduced, Applied
  <2>2. Applied(e, client.shown) \in SUBSET Seqs
    BY <1>1, <1>5 DEF Applied, Client, Event
  <2> QED BY <1>1, <1>3, <1>5, <2>1, <2>2 DEF Client
<1> DEFINE left == stream.batch \ {e}
<1>8. /\ stream' \in Stream /\ stream'.seq = e.seq /\ stream'.batch = left
      /\ stream'.full = stream.full /\ stream'.changed = stream.changed
      /\ stream'.at = IF left # {} THEN "yielding" ELSE IF stream.full THEN "reading" ELSE "waiting"
  <2> DEFINE rest == [stream EXCEPT !.seq = e.seq, !.batch = @ \ {e}]
  <2>1. left \in SUBSET Event
    BY <1>1 DEF Stream
  <2>2. /\ rest \in Stream /\ rest.seq = e.seq /\ rest.batch = left /\ rest.at = "yielding"
        /\ rest.full = stream.full /\ rest.changed = stream.changed
    <3>1. rest = [stream EXCEPT !.seq = e.seq, !.batch = left]
      BY <1>1 DEF Stream
    <3> HIDE DEF left, rest
    <3> QED BY <1>1, <1>2, <1>5, <2>1, <3>1 DEF Stream
  <2>3. stream' = IF rest.batch # {} THEN rest
                  ELSE IF stream.full THEN [rest EXCEPT !.at = "reading"]
                  ELSE Waits(rest)
    BY <1>4
  <2>4. stream.full \in BOOLEAN
    BY <1>1 DEF Stream
  <2> HIDE DEF rest, left
  <2>5. CASE left # {}
    BY <2>2, <2>3, <2>5
  <2>6. CASE left = {} /\ stream.full
    <3>1. stream' = [rest EXCEPT !.at = "reading"]
      BY <2>2, <2>3, <2>6
    <3> QED BY <2>2, <2>6, <3>1 DEF Stream
  <2>7. CASE left = {} /\ ~stream.full
    <3>1. stream' = [rest EXCEPT !.at = "waiting"]
      BY <2>2, <2>3, <2>7 DEF Waits
    <3> QED BY <2>2, <2>7, <3>1 DEF Stream
  <2> QED BY <2>4, <2>5, <2>6, <2>7
<1>9. LogTypeOK'
  BY <1>1, <1>2, <1>7, <1>8 DEF LogTypeOK, Tables, Stream, Client
<1>10. RowHeld'
  BY <1>1, <1>2 DEF RowHeld, Tables
<1>11. Numbered'
  BY <1>1, <1>2, <1>5, <1>7, <1>8 DEF Numbered, Tables
<1>12. Streamed'
  <2>1. stream.full \in BOOLEAN
    BY <1>1 DEF Stream
  <2>2. /\ stream'.at # "off" => client'.open /\ stream'.seq = client'.cursor
        /\ stream'.at = "yielding" <=> stream'.batch # {}
    BY <1>7, <1>8, <2>1
  <2>3. ASSUME NEW b \in left
        PROVE  /\ b.seq > e.seq
               /\ \A d \in events : d.seq > e.seq /\ d.seq <= b.seq => d \in left
               /\ b \in events \/ b.type = "progress" \/ ClearedAfter(b.seq)
    <3>1. b.seq > e.seq
      <4>1. b.seq # e.seq
        BY <1>1 DEF Numbered
      <4>2. e.seq <= b.seq /\ b.seq \in Nat
        BY <1>4, TableTypes
      <4> QED BY <4>1, <4>2, <1>5
    <3>2. ASSUME NEW d \in events, d.seq > e.seq, d.seq <= b.seq PROVE d \in left
      <4>1. d.seq > stream.seq /\ d.seq # e.seq
        BY <1>3, <1>5, <3>2, TableTypes
      <4> QED BY <1>1, <3>2, <4>1 DEF Streamed
    <3> QED BY <1>1, <3>1, <3>2 DEF Streamed
  <2> QED BY <1>2, <1>8, <2>2, <2>3, TablesStand DEF Streamed, Tables
<1>13. Opened'
  BY <1>1, <1>2, <1>3, <1>7 DEF Opened
<1>14. Honest'
  <2>1. ShowsTo(e.seq, Applied(e, client.shown))
    BY <1>3, <1>4, AppliedShows
  <2>2. ShowsTo(client.cursor, client.shown)'
    BY <1>2, <1>7, <2>1 DEF ShowsTo, ClearedAfter, Tables
  <2>3. \A q \in Request :
           /\ req'[q].at = "paged" => req'[q].page = Last(PageSize, messages')
           /\ req'[q].at = "answered" => ShowsTo(req[q].cursor, req[q].page)'
    BY <1>1, <1>2 DEF Honest, ShowsTo, ClearedAfter, Tables
  <2> QED BY <1>5, <1>7, <2>2, <2>3 DEF Honest
<1>15. Awake'
  <2> SUFFICES ASSUME NoNews', stream'.at = "waiting" \/ (stream'.at = "yielding" /\ ~stream'.full),
                      NEW d \in events
               PROVE  d.seq <= e.seq \/ d \in left
    BY <1>2, <1>8 DEF Awake, Tables
  <2>1. NoNews
    BY <1>2, <1>8 DEF NoNews
  <2>2. ~stream.full
    BY <1>8
  <2>3. d.seq <= stream.seq \/ d \in stream.batch
    BY <1>1, <1>2, <2>1, <2>2 DEF Awake
  <2> QED BY <1>3, <1>5, <2>3, TableTypes
<1> QED BY <1>2, <1>9, <1>10, <1>11, <1>12, <1>13, <1>14, <1>15, TablesStand DEF LogIInv

-----------------------------------------------------------------------------
(* threadSnapshot.                                                          *)

\* What is left to show of a step of a request: what it has, and what the client shows.
LEMMA RequestKeeps ==
    ASSUME LogIInv, NEW q \in Request, UNCHANGED Tables,
           UNCHANGED <<tx, listening, lost, stream, faults>>,
           req' \in [Request -> Req], client' \in Client,
           \A p \in Request \ {q} : req'[p] = req[p],
           req'[q].cursor < nextEventSeq, client'.cursor < nextEventSeq, client'.seen < nextEventSeq,
           req'[q].at = "paged" => ~RowLocked /\ req'[q].page = Last(PageSize, messages),
           req'[q].at = "answered" => ShowsTo(req'[q].cursor, req'[q].page),
           client'.open =>
               client'.seen >= client'.cursor /\ ShowsTo(client'.cursor, client'.shown),
           stream.at # "off" => client'.open /\ client'.cursor = client.cursor,
           Opened'
    PROVE  LogIInv'
<1>1. LogTypeOK /\ RowHeld /\ Streamed /\ Numbered /\ Honest /\ Awake
  BY DEF LogIInv
<1>2. LogTypeOK'
  BY <1>1 DEF LogTypeOK, Tables, Client, Req
<1>3. RowHeld'
  BY <1>1 DEF RowHeld, Tables, RowLocked
<1>4. Numbered'
  BY <1>1 DEF Numbered, Tables
<1>5. Streamed'
  BY <1>1 DEF Streamed, ClearedAfter, Tables
<1>6. Honest'
  <2>1. client'.open => client'.seen >= client'.cursor /\ ShowsTo(client.cursor, client.shown)'
    BY DEF ShowsTo, ClearedAfter, Tables
  <2>2. ASSUME NEW p \in Request
        PROVE  /\ req'[p].at = "paged" => req'[p].page = Last(PageSize, messages')
               /\ req'[p].at = "answered" => ShowsTo(req[p].cursor, req[p].page)'
    <3>1. CASE p = q
      BY <3>1 DEF ShowsTo, ClearedAfter, Tables
    <3>2. CASE p # q
      BY <1>1, <3>2 DEF Honest, ShowsTo, ClearedAfter, Tables
    <3> QED BY <3>1, <3>2
  <2> QED BY <2>1, <2>2 DEF Honest
<1>7. Awake'
  BY <1>1 DEF Awake, NoNews, Tables
<1> QED BY <1>2, <1>3, <1>4, <1>5, <1>6, <1>7, TablesStand DEF LogIInv

\* The cursor of a snapshot is the number of the last event, or below all numbers.
LEMMA LastSeqIsLast ==
    ASSUME LogIInv
    PROVE  LastSeq \in Cursor /\ LastSeq < nextEventSeq /\ \A e \in events : e.seq <= LastSeq
<1> DEFINE S == {e.seq : e \in events} \cup {-1}
<1>1. \A e \in events : e.seq \in Seqs /\ e.seq \in Nat /\ e.seq < nextEventSeq
  BY TableTypes DEF Event
<1>2. S \in SUBSET Cursor /\ S \in SUBSET Int /\ S # {}
  BY <1>1 DEF Cursor
<1>3. PICK x \in S : \A y \in S : y <= x
  BY <1>2, GreatestCursor
<1>4. Max(S) = x
  BY <1>2, <1>3, MaxIsGreatest
<1>5. LastSeq = x
  BY <1>4 DEF LastSeq
<1> QED BY <1>1, <1>2, <1>3, <1>5, TableTypes

\* The page and the cursor of a snapshot are read while nobody writes to the thread.
LEMMA SnapshotKeeps ==
    ASSUME LogIInv, NEW q \in Request, ReadPage(q) \/ ReadCursor(q)
    PROVE  LogIInv'
<1>1. /\ LogTypeOK /\ RowHeld /\ Streamed /\ Numbered /\ Opened /\ Honest
      /\ req \in [Request -> Req] /\ client \in Client
  BY DEF LogIInv, LogTypeOK, Req, Client
<1>2. UNCHANGED Tables /\ UNCHANGED <<tx, listening, lost, stream, faults>> /\ UNCHANGED client
  BY DEF ReadPage, ReadCursor, Tables
<1>3. req[q] \in Req /\ req[q].cursor < nextEventSeq
  BY <1>1 DEF Numbered
<1>4. /\ client'.cursor < nextEventSeq /\ client'.seen < nextEventSeq
      /\ client'.open => client'.seen >= client'.cursor /\ ShowsTo(client'.cursor, client'.shown)
      /\ stream.at # "off" => client'.open /\ client'.cursor = client.cursor
      /\ client' \in Client
  BY <1>1, <1>2 DEF Numbered, Honest, Streamed
<1>5. CASE ReadPage(q)
  <2> DEFINE page == Last(PageSize, messages)
             row == [req[q] EXCEPT !.at = "paged", !.page = page]
  <2>1. page \in SUBSET Seqs
    BY <1>1 DEF Last, LogTypeOK
  <2>2. req' = [req EXCEPT ![q] = row] /\ ~RowLocked /\ (client.open \/ req[q].opening)
    BY <1>5 DEF ReadPage
  <2>3. /\ row \in Req /\ row.at = "paged" /\ row.page = page /\ row.cursor = req[q].cursor
        /\ row.opening = req[q].opening
    <3> HIDE DEF page
    <3> QED BY <1>3, <2>1 DEF Req
  <2> HIDE DEF row
  <2>4. req' \in [Request -> Req] /\ req'[q] = row /\ \A p \in Request \ {q} : req'[p] = req[p]
    BY <1>1, <2>2, <2>3
  <2>5. Opened'
    BY <1>1, <1>2, <2>2, <2>3, <2>4 DEF Opened
  <2> QED BY <1>2, <1>3, <1>4, <2>2, <2>3, <2>4, <2>5, RequestKeeps
<1>6. CASE ReadCursor(q)
  <2> DEFINE row == [req[q] EXCEPT !.at = "answered", !.cursor = LastSeq]
  <2>1. req' = [req EXCEPT ![q] = row] /\ req[q].at = "paged"
    BY <1>6 DEF ReadCursor
  <2>2. LastSeq \in Cursor /\ LastSeq < nextEventSeq /\ \A e \in events : e.seq <= LastSeq
    BY LastSeqIsLast
  <2>3. /\ row \in Req /\ row.at = "answered" /\ row.page = req[q].page /\ row.cursor = LastSeq
        /\ row.opening = req[q].opening
    <3>1. PICK last \in Cursor : last = LastSeq
      BY <2>2
    <3>2. row = [req[q] EXCEPT !.at = "answered", !.cursor = last]
      BY <3>1
    <3> QED BY <1>3, <3>1, <3>2 DEF Req
  <2> HIDE DEF row
  <2>4. req' \in [Request -> Req] /\ req'[q] = row /\ \A p \in Request \ {q} : req'[p] = req[p]
    BY <1>1, <2>1, <2>3
  <2>5. req[q].page = Last(PageSize, messages)
    BY <1>1, <2>1 DEF Honest
  <2>6. ShowsTo(LastSeq, req[q].page)
    BY <2>5 DEF ShowsTo, Last
  <2>7. Opened'
    BY <1>1, <1>2, <2>1, <2>3, <2>4 DEF Opened
  <2> QED BY <1>2, <1>3, <1>4, <2>2, <2>3, <2>4, <2>6, <2>7, RequestKeeps
<1> QED BY <1>5, <1>6

\* An answer is shown unless it is behind what is shown; the first one opens the client.
LEMMA AnswerKeeps ==
    ASSUME LogIInv, NEW q \in Request, Answer(q)
    PROVE  LogIInv'
<1> DEFINE r == req[q]
<1>1. /\ LogTypeOK /\ RowHeld /\ Streamed /\ Numbered /\ Opened /\ Honest
      /\ req \in [Request -> Req] /\ client \in Client
  BY DEF LogIInv, LogTypeOK, Req, Client
<1>2. /\ UNCHANGED Tables /\ UNCHANGED <<tx, listening, lost, stream, faults>>
      /\ r.at = "answered" /\ req' = [req EXCEPT ![q] = NoReq]
  BY DEF Answer, Tables
<1>3. /\ r \in Req /\ r.cursor < nextEventSeq /\ r.cursor \in Int /\ nextEventSeq \in Nat
      /\ ShowsTo(r.cursor, r.page)
      /\ r.opening => ~client.open
      /\ ~r.opening => client.open
      /\ client.cursor \in Int /\ client.seen \in Int
  BY <1>1, <1>2, TableTypes DEF Numbered, Honest, Opened
<1>4. NoReq \in Req /\ NoReq.at = "out" /\ ~NoReq.opening /\ NoReq.cursor = -1
  BY DEF NoReq, Req, Cursor
<1>5. req' \in [Request -> Req] /\ req'[q] = NoReq /\ \A p \in Request \ {q} : req'[p] = req[p]
  BY <1>1, <1>2, <1>4
<1>6. /\ client' \in Client /\ client'.open
      /\ client'.cursor = IF r.opening THEN r.cursor ELSE client.cursor
      /\ client'.seen = IF Behind(q) THEN client.seen ELSE r.cursor
      /\ client'.shown = IF Behind(q) THEN client.shown ELSE r.page
  <2> DEFINE cursor == IF r.opening THEN r.cursor ELSE client.cursor
             seen == IF Behind(q) THEN client.seen ELSE r.cursor
             shown == IF Behind(q) THEN client.shown ELSE r.page
  <2>1. client' = [client EXCEPT !.open = TRUE, !.cursor = cursor, !.seen = seen, !.shown = shown]
    BY DEF Answer
  <2>2. cursor \in Cursor /\ seen \in Cursor /\ shown \in SUBSET Seqs
    BY <1>1, <1>3 DEF Req, Client
  <2> HIDE DEF cursor, seen, shown
  <2>3. client' \in Client /\ client'.open /\ client'.cursor = cursor /\ client'.seen = seen
        /\ client'.shown = shown
    BY <1>1, <2>1, <2>2 DEF Client
  <2> QED BY <2>3 DEF cursor, seen, shown
<1>7. /\ client'.cursor < nextEventSeq /\ client'.seen < nextEventSeq
      /\ stream.at # "off" => client'.open /\ client'.cursor = client.cursor
  BY <1>1, <1>3, <1>6 DEF Numbered, Streamed
<1>8. client'.seen >= client'.cursor /\ ShowsTo(client'.cursor, client'.shown)
  <2>1. CASE Behind(q)
    <3>1. client.open /\ ~r.opening
      BY <1>3, <2>1 DEF Behind
    <3> QED BY <1>1, <1>6, <2>1, <3>1 DEF Honest
  <2>2. CASE ~Behind(q) /\ r.opening
    BY <1>3, <1>6, <2>2
  <2>3. CASE ~Behind(q) /\ ~r.opening
    <3>1. client.open /\ client.seen <= r.cursor /\ client.seen >= client.cursor
      BY <1>1, <1>3, <2>3 DEF Behind, Honest
    <3>2. client'.cursor = client.cursor /\ client'.seen = r.cursor /\ client'.shown = r.page
      BY <1>6, <2>3
    <3>3. client.cursor <= r.cursor
      BY <1>3, <3>1
    <3>4. ShowsTo(client.cursor, r.page)
      <4>1. CASE ClearedAfter(r.cursor)
        BY <1>3, <3>3, <4>1, TableTypes DEF ShowsTo, ClearedAfter
      <4>2. CASE ~ClearedAfter(r.cursor)
        <5>1. \A m \in Last(PageSize, messages) : m \in Nat
          BY TableTypes DEF Last
        <5> QED BY <1>3, <3>3, <4>2, <5>1 DEF ShowsTo
      <4> QED BY <4>1, <4>2
    <3> QED BY <1>3, <3>2, <3>3, <3>4
  <2> QED BY <2>1, <2>2, <2>3
<1>9. Opened'
  BY <1>1, <1>3, <1>4, <1>5, <1>6 DEF Opened
<1>10. req'[q].cursor < nextEventSeq /\ req'[q].at = "out"
  BY <1>3, <1>4, <1>5
<1> HIDE DEF r
<1> QED BY <1>2, <1>5, <1>6, <1>7, <1>8, <1>9, <1>10, RequestKeeps

-----------------------------------------------------------------------------

\* An empty thread, and a client that waits for its first answer.
LEMMA LogInitOK == LogInit => LogIInv
<1> SUFFICES ASSUME LogInit PROVE LogIInv
  OBVIOUS
<1>1. /\ nextEventSeq = 0 /\ events = {} /\ messages = {} /\ tx = [w \in Writer |-> NoTx]
      /\ listening \in BOOLEAN /\ lost = FALSE /\ stream = NoStream /\ faults = 0
      /\ client = [open |-> FALSE, cursor |-> -1, seen |-> -1, shown |-> {}]
  BY DEF LogInit
<1>2. /\ stream \in Stream /\ stream.at = "off" /\ stream.batch = {} /\ stream.seq = -1
  BY <1>1 DEF NoStream, Stream, Cursor
<1>3. client \in Client /\ ~client.open /\ client.shown = {} /\ client.cursor = -1 /\ client.seen = -1
  BY <1>1 DEF Client, Cursor
<1>4. /\ tx \in [Writer -> [at : {"out", "locked", "committed"}, seq : 0 .. MaxEvents]]
      /\ \A w \in Writer : tx[w].at = "out"
  BY <1>1, LogAssumption DEF NoTx
<1>5. NoReq \in Req /\ NoReq.at = "out" /\ ~NoReq.opening /\ NoReq.cursor = -1
  BY DEF NoReq, Req, Cursor
<1>6. PICK q \in Request : req = [[p \in Request |-> NoReq] EXCEPT ![q].opening = TRUE]
  BY DEF LogInit
<1> DEFINE row == [NoReq EXCEPT !.opening = TRUE]
<1>7. row \in Req /\ row.at = "out" /\ row.cursor = -1
  BY <1>5 DEF Req
<1>8. req = [p \in Request |-> IF p = q THEN row ELSE NoReq]
  BY <1>6
<1> HIDE DEF row
<1>9. /\ req \in [Request -> Req]
      /\ \A p \in Request : req[p].at = "out" /\ req[p].cursor = -1 /\ (req[p].opening => p = q)
  BY <1>5, <1>7, <1>8
<1>10. LogTypeOK
  <2>1. 0 \in 0 .. MaxEvents /\ 0 \in 0 .. MaxFaults /\ events \subseteq Event /\ messages \subseteq Seqs
    BY <1>1, LogAssumption
  <2>2. nextEventSeq \in 0 .. MaxEvents /\ faults \in 0 .. MaxFaults /\ lost \in BOOLEAN
    BY <1>1, <2>1
  <2>3. stream \in Stream /\ client \in Client /\ req \in [Request -> Req]
    BY <1>2, <1>3, <1>9
  <2> QED BY <1>1, <1>4, <2>1, <2>2, <2>3 DEF LogTypeOK, Stream, Client, Req
<1>11. MessagesAnnounced /\ ClearsFirst /\ RowHeld
  BY <1>1, <1>4 DEF MessagesAnnounced, ClearsFirst, RowHeld
<1>12. Numbered
  BY <1>1, <1>2, <1>3, <1>9 DEF Numbered
<1>13. Streamed /\ Awake
  BY <1>1, <1>2 DEF Streamed, Awake
<1>14. Opened /\ Honest
  BY <1>3, <1>9 DEF Opened, Honest
<1> QED BY <1>10, <1>11, <1>12, <1>13, <1>14 DEF LogIInv

\* Every step of a writer, the listener, the stream, a request and the world keeps it.
LEMMA LogStepsKeep == LogIInv /\ [LogNext]_logVars => LogIInv'
<1> SUFFICES ASSUME LogIInv, [LogNext]_logVars PROVE LogIInv'
  OBVIOUS
<1>1. CASE UNCHANGED logVars
  BY <1>1 DEF logVars, LogIInv, LogTypeOK, MessagesAnnounced, Numbered, RowHeld, ClearsFirst, Streamed,
     ClearedAfter, Opened, Honest, ShowsTo, Awake, NoNews
<1>2. CASE \E w \in Writer : WriterStep(w)
  BY <1>2, CommitKeeps, WriterKeeps DEF WriterStep
<1>3. CASE \E q \in Request : Get(q)
  BY <1>3, SnapshotKeeps, AnswerKeeps DEF Get
<1>4. CASE Follow \/ Drop
  BY <1>4, SleeperKeeps, ReadKeeps, YieldKeeps DEF Follow
<1>5. CASE StopRun \/ Connect \/ Disconnect
  BY <1>5, StopRunKeeps, ListenerKeeps
<1> QED BY <1>1, <1>2, <1>3, <1>4, <1>5 DEF LogNext

\* Numbers come in order under the row's lock, a batch is an unbroken piece of the log,
\* and every snapshot and every client tells the truth up to its cursor.
THEOREM LogInvariant == LogSpec => []LogIInv
<1>1. LogInit => LogIInv
  BY LogInitOK
<1>2. LogIInv /\ [LogNext]_logVars => LogIInv'
  BY LogStepsKeep
<1> QED BY <1>1, <1>2, PTL DEF LogSpec

\* No event appears behind the cursor of a stream, of a client or of a snapshot.
THEOREM NothingBehind == LogSpec => InOrder
<1> DEFINE Ahead(e) ==
       e.seq > stream.seq /\ e.seq > client.cursor /\ \A q \in Request : e.seq > req[q].cursor
<1>1. ASSUME LogIInv, LogNext PROVE \A e \in events' \ events : Ahead(e)
  <2> SUFFICES ASSUME NEW e \in events' \ events PROVE Ahead(e)
    OBVIOUS
  <2>1. CASE \E w \in Writer : Commit(w)
    <3>1. Grown \/ Emptied
      BY <1>1, <2>1, CommitMoves
    <3>2. /\ nextEventSeq \in Nat /\ stream.seq < nextEventSeq /\ client.cursor < nextEventSeq
          /\ stream.seq \in Int /\ client.cursor \in Int
          /\ \A q \in Request : req[q].cursor \in Int /\ req[q].cursor < nextEventSeq
      BY <1>1, TableTypes DEF LogIInv, Numbered
    <3>3. e.seq >= nextEventSeq /\ e.seq \in Int
      <4>1. CASE Grown
        <5>1. e \in Event /\ nextEventSeq <= e.seq
          BY <4>1 DEF Grown
        <5> QED BY <3>2, <5>1, LogAssumption DEF Event, Seqs
      <4>2. CASE Emptied
        BY <3>2, <4>2 DEF Emptied
      <4> QED BY <3>1, <4>1, <4>2
    <3> QED BY <3>2, <3>3
  <2>2. CASE ~(\E w \in Writer : Commit(w))
    <3>1. events' \subseteq events
      BY <1>1, <2>2 DEF LogNext, WriterStep, Lock, Abort, Notify, Get, ReadPage, ReadCursor, Answer,
         Follow, Subscribe, Read, Yield, CatchUp, Drop, StopRun, Connect, Disconnect
    <3> QED BY <3>1
  <2> QED BY <2>1, <2>2
<1>2. LogIInv /\ [LogNext]_logVars => [\A e \in events' \ events : Ahead(e)]_logVars
  BY <1>1
<1> QED BY <1>2, LogInvariant, PTL DEF LogSpec, InOrder

\* A stream that sleeps until its timer has missed nothing, whatever the order of commits,
\* announcements and reads, unless an announcement was lost or is on its way.
THEOREM SleepsOnNothing == LogSpec => []NoLostWakeUp
<1>1. LogIInv => NoLostWakeUp
  <2> SUFFICES ASSUME LogIInv, stream.at = "waiting", ~stream.changed, listening, ~lost,
                      \A w \in Writer : tx[w].at # "committed", NEW e \in events
               PROVE  e.seq <= stream.seq
    BY DEF NoLostWakeUp
  <2>1. NoNews /\ stream.batch = {}
    BY DEF NoNews, LogIInv, Streamed
  <2> QED BY <2>1 DEF LogIInv, Awake
<1> QED BY <1>1, LogInvariant, PTL

\* A client that has caught up shows the latest messages and nothing that was deleted,
\* however snapshots and events have overtaken each other.
THEOREM ClientShowsTruth == LogSpec => []LogInv
<1>1. LogIInv => LogInv
  <2> SUFFICES ASSUME LogIInv, client.open, \A e \in events : e.seq <= client.cursor
               PROVE  client.shown \subseteq messages /\ Last(PageSize, messages) \subseteq client.shown
    BY DEF LogInv, ShownIsTrue, LogIInv
  <2>1. ShowsTo(client.cursor, client.shown) /\ MessagesAnnounced
    BY DEF LogIInv, Honest
  <2>2. ~ClearedAfter(client.cursor)
    BY TableTypes DEF ClearedAfter
  <2>3. ASSUME NEW m \in messages PROVE ~(m > client.cursor)
    <3> DEFINE a == [seq |-> m, type |-> "message"]
    <3>1. m \in Seqs /\ m \in Nat /\ client.cursor \in Int
      BY TableTypes
    <3>2. a \in events /\ a.seq = m
      BY <2>1, <3>1 DEF MessagesAnnounced
    <3>3. a.seq <= client.cursor
      <4> HIDE DEF a
      <4> QED BY <3>2
    <3> QED BY <3>1, <3>2, <3>3
  <2> QED BY <2>1, <2>2, <2>3 DEF ShowsTo, Last
<1> QED BY <1>1, LogInvariant, PTL

\* A client that has passed the thread.cleared event shows no message from before it.
THEOREM ClearedIsGone == LogSpec => []ClearedStaysCleared
<1>1. LogIInv => ClearedStaysCleared
  <2> SUFFICES ASSUME LogIInv, NEW c \in events, c.type = "cleared", c.seq <= client.cursor,
                      NEW m \in client.shown
               PROVE  m > c.seq
    BY DEF ClearedStaysCleared
  <2>1. client.open /\ MessagesAnnounced /\ ClearsFirst
    BY DEF LogIInv, Opened
  <2>2. ShowsTo(client.cursor, client.shown)
    BY <2>1 DEF LogIInv, Honest
  <2>3. ~ClearedAfter(client.cursor)
    <3> SUFFICES ASSUME NEW d \in events, d.type = "cleared", d.seq > client.cursor PROVE FALSE
      BY DEF ClearedAfter
    <3>1. d.seq \in Int /\ c.seq \in Int /\ client.cursor \in Int
      BY TableTypes
    <3>2. d # c
      BY <3>1
    <3>3. d.seq > c.seq /\ c.seq > d.seq
      BY <2>1, <3>2 DEF ClearsFirst
    <3> QED BY <3>1, <3>3
  <2>4. m \in messages
    BY <2>2, <2>3 DEF ShowsTo
  <2> DEFINE a == [seq |-> m, type |-> "message"]
  <2>5. a \in events /\ a.seq = m /\ a.type = "message"
    BY <2>1, <2>4, TableTypes DEF MessagesAnnounced
  <2> HIDE DEF a
  <2> QED BY <2>1, <2>5 DEF ClearsFirst
<1> QED BY <1>1, LogInvariant, PTL
=============================================================================
