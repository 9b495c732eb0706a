------------------------------ MODULE SendOnce ------------------------------
(***************************************************************************)
(* Messages that start runs: a user's send, a webhook, a follow-up and a   *)
(* bot's message to another bot.  Each commits, in one transaction under   *)
(* the row lock of its thread, a message and a queued run of every bot it  *)
(* addresses.  A caller repeats a call whose answer it lost under the same *)
(* key (clientNonce, deliveryKey), perhaps while the first still runs.     *)
(* The job of a queued run, enqueued here or by the reconciler, is         *)
(* RunLifecycle's: here Claim comes at any time.                           *)
(***************************************************************************)
EXTENDS Integers, Sequences

CONSTANTS
  Bot,      \* each bot's own thread has the bot's name
  Group,    \* group threads
  Sender,   \* bots with a run, in their own threads, whose tool calls message others
  Call,     \* calls in progress, one transaction at a time each
  Key,      \* what a caller repeats; a follow-up has one here and none in the database
  Address,  \* for each key the kind, thread, addressees and sending bot of its call
  NoKey,    \* a null clientNonce
  Nobody,   \* no call, no bot
  MaxCalls, \* bound: calls made
  MaxUpsets \* bound: threads cleared or stopped, transactions aborted, results lost

Thread == Bot \cup Group
Kind == {"send", "webhook", "follow_up", "bot_message"}

ASSUME SendAssumption ==
  /\ Bot \cap Group = {} /\ Sender \subseteq Bot
  /\ Address \in [Key -> [kind : Kind, thread : Thread, to : SUBSET Bot,
                          from : Bot \cup {Nobody}]]
  /\ \A k \in Key : Address[k].kind = "bot_message" =>
       Address[k].from \in Sender /\ Address[k].from # Address[k].thread
  /\ NoKey \notin Key /\ Nobody \notin Call \cup Bot
  /\ MaxCalls \in Nat /\ MaxUpsets \in Nat

VARIABLES
  message,  \* every message ever committed; its id is its index
  run,      \* the run a message started for a bot, by <<message, bot>>
  lock,     \* the call that holds a thread's row lock
  call,     \* where each call is
  calls, upsets

vars == <<message, run, lock, call, calls, upsets>>
budget == <<calls, upsets>>

Idle == [pc |-> "idle"]
\* The one status cancelled of the code is three here: a newer message superseded the
\* run, the user stopped it, the user cleared its thread.
Cancelled == {"superseded", "stopped", "cleared"}
Active == {"queued", "running"}

\* read: the messages committed when the run's handler loads the history.
Init ==
  /\ message = <<>>
  /\ run = [id \in {0} \X Sender |->
              [thread |-> id[2], status |-> "running", read |-> 0]]
  /\ lock = [t \in Thread |-> Nobody]
  /\ call = [c \in Call |-> Idle]
  /\ calls = 0 /\ upsets = 0

At(c, pc) == call[c].pc = pc
Of(c) == Address[call[c].key]
SendingRun(k) == <<0, Address[k].from>>
Ends(c) == call' = [call EXCEPT ![c] = Idle]
Goto(c, pc) == call' = [call EXCEPT ![c].pc = pc]
AnyThread(t) == TRUE
LockFree(t) == lock[t] = Nobody
Upset == upsets < MaxUpsets /\ upsets' = upsets + 1 /\ UNCHANGED calls
Unlocked(c) == [t \in Thread |-> IF lock[t] = c THEN Nobody ELSE lock[t]]

\* The clientNonce a call writes, and the message a lookup of it finds.
NoNonce(k) == NoKey
Nonce(k) == IF Address[k].kind = "follow_up" THEN NoKey ELSE k
Receipt(k) ==
  {m \in DOMAIN message : message[m].live /\ message[m].thread = Address[k].thread
                          /\ message[m].key # NoKey /\ message[m].key = Nonce(k)}

-----------------------------------------------------------------------------
\* The call looks for the message of an earlier call with its key, before it locks
\* anything: sendThreadMessage and sendUserMessage outside the transaction, messageBot
\* first in it, with the check that the sending run still runs.
Asks(c, k) ==
  /\ At(c, "idle") /\ calls < MaxCalls
  /\ Address[k].kind = "bot_message" => run[SendingRun(k)].status = "running"
  /\ call' = IF Receipt(k) # {} THEN call
             ELSE [call EXCEPT ![c] = [pc |-> "begun", key |-> k, seen |-> {}]]
  /\ calls' = calls + 1
  /\ UNCHANGED <<message, run, lock, upsets>>

\* What cancelSupersededQueuedRuns finds; mutants that forget the bot or the status.
SupersededInThread(k) ==
  {id \in DOMAIN run : run[id].thread = Address[k].thread /\ run[id].status = "queued"}
SupersededBy(k) ==
  {id \in DOMAIN run : run[id].thread = Address[k].thread /\ run[id].status = "queued"
                       /\ id[2] \in Address[k].to}

\* What onlyIfIdle finds: a run of the bot in any thread.
BusyRuns(k) ==
  {id \in DOMAIN run : id[2] \in Address[k].to /\ run[id].status \in Active}

\* createThreadMessageInTransaction takes the thread's row lock, then inserts; only a send
\* and a follow-up read other runs before they commit.
Locks(c) ==
  LET k == call[c].key IN
  /\ At(c, "begun") /\ LockFree(Of(c).thread) /\ Receipt(k) = {}
  /\ lock' = [lock EXCEPT ![Of(c).thread] = c]
  /\ call' = [call EXCEPT ![c] =
       [pc |-> IF Of(c).kind = "bot_message" THEN "inbound" ELSE "written", key |-> k,
        seen |-> CASE Of(c).kind = "send" -> SupersededBy(k)
                   [] Of(c).kind = "follow_up" -> BusyRuns(k)
                   [] OTHER -> {}]]
  /\ UNCHANGED <<message, run, budget>>

\* The insert hits the unique (threadId, clientNonce): the transaction is rolled back.
Rejected(c) ==
  /\ At(c, "begun") /\ LockFree(Of(c).thread) /\ Receipt(call[c].key) # {}
  /\ Goto(c, "replay")
  /\ UNCHANGED <<message, run, lock, budget>>

\* replay: the winner's receipt, or the error is thrown.
Replays(c) == At(c, "replay") /\ Ends(c) /\ UNCHANGED <<message, run, lock, budget>>

\* asked: history, the key of the caller, whatever the row carries.
Written(thread, key, asked, from) ==
  [thread |-> thread, key |-> key, asked |-> asked, from |-> from, live |-> TRUE]

\* A run for every addressee; a follow-up to a busy bot starts none.
Started(c) == {Len(message) + 1} \X
  (IF Of(c).kind = "follow_up" /\ call[c].seen # {} THEN {} ELSE Of(c).to)

\* The runs found superseded are cancelled by id, whatever became of them since.
RunsAfter(c) ==
  [id \in DOMAIN run \cup Started(c) |->
     IF id \in Started(c)
     THEN [thread |-> Of(c).thread, status |-> "queued", read |-> 0]
     ELSE IF Of(c).kind = "send" /\ id \in call[c].seen
          THEN [run[id] EXCEPT !.status = "superseded"]
          ELSE run[id]]

CommitsSend(c) ==
  /\ At(c, "written")
  /\ message' = Append(message,
                Written(Of(c).thread, Nonce(call[c].key), call[c].key, <<0, Nobody>>))
  /\ run' = RunsAfter(c)
  /\ lock' = Unlocked(c)

Commits(c) == CommitsSend(c) /\ Ends(c) /\ UNCHANGED budget

\* assertRunCanWriteHistory, and the mutant without it.
AnyCanWriteHistory(id) == TRUE
CanWriteHistory(id) == run[id].status \notin Cancelled

\* The echo in the sender's own thread: a second row lock, the check under it, and the
\* transaction thrown away when it fails.
LocksEcho(c) ==
  LET k == call[c].key IN
  /\ At(c, "inbound") /\ LockFree(Of(c).from)
  /\ IF CanWriteHistory(SendingRun(k))
     THEN Goto(c, "echo") /\ lock' = [lock EXCEPT ![Of(c).from] = c]
     ELSE Ends(c) /\ lock' = Unlocked(c)
  /\ UNCHANGED <<message, run, budget>>

CommitsDelivery(c) ==
  LET k == call[c].key IN
  /\ At(c, "echo")
  /\ message' = message \o <<Written(Of(c).thread, Nonce(k), k, <<0, Nobody>>),
                             Written(Of(c).from, NoKey, NoKey, SendingRun(k))>>
  /\ run' = RunsAfter(c)
  /\ lock' = Unlocked(c)
  /\ Ends(c)
  /\ UNCHANGED budget

\* Two bots that message each other wait for each other's thread; the database aborts one.
Deadlock(c) ==
  /\ At(c, "inbound")
  /\ \E d \in Call \ {c} : /\ At(d, "inbound")
                           /\ lock[Of(c).from] = d /\ lock[Of(d).from] = c
  /\ Ends(c) /\ lock' = Unlocked(c)
  /\ UNCHANGED <<message, run, budget>>

\* The database aborts the transaction: withSerializableRetry may begin a send again;
\* a send, webhook or follow-up looks for a winner, messageBot throws.
Aborts(c) ==
  /\ call[c].pc \in {"begun", "written", "inbound", "echo"} /\ Upset
  /\ lock' = Unlocked(c)
  /\ \/ Of(c).kind = "send" /\ Goto(c, "begun")
     \/ Of(c).kind # "bot_message" /\ Goto(c, "replay")
     \/ Of(c).kind = "bot_message" /\ Ends(c)
  /\ UNCHANGED <<message, run>>

\* The commit succeeds and its caller is told it failed.
CommitLooksFailed(c) == CommitsSend(c) /\ Goto(c, "replay") /\ Upset

-----------------------------------------------------------------------------
\* A handler claims a queued run, loads the history, finishes.
Claim(id) ==
  /\ run[id].status = "queued"
  /\ run' = [run EXCEPT ![id].status = "running", ![id].read = Len(message)]
  /\ UNCHANGED <<message, lock, call, budget>>

Finish(id) ==
  /\ run[id].status = "running"
  /\ run' = [run EXCEPT ![id].status = "done"]
  /\ UNCHANGED <<message, lock, call, budget>>

CancelledIn(t, why) ==
  [id \in DOMAIN run |-> IF run[id].thread = t /\ run[id].status \in Active
                         THEN [run[id] EXCEPT !.status = why, !.read = Len(message)]
                         ELSE run[id]]

\* stopThreadRuns takes no lock.  Its read and its write are two steps of RunLifecycle.
Stop(t) ==
  /\ Upset
  /\ run' = CancelledIn(t, "stopped")
  /\ UNCHANGED <<message, lock, call>>

ClearableThread(t) == LockFree(t)

\* clearThread updates the thread row first.
Clear(t) ==
  /\ Upset
  /\ ClearableThread(t)
  /\ run' = CancelledIn(t, "cleared")
  /\ message' = [m \in DOMAIN message |->
                   IF message[m].thread = t THEN [message[m] EXCEPT !.live = FALSE]
                   ELSE message[m]]
  /\ UNCHANGED <<lock, call>>

Next ==
  \/ \E c \in Call :
       \/ \E k \in Key : Asks(c, k)
       \/ Locks(c) \/ Rejected(c) \/ Replays(c) \/ Commits(c)
       \/ LocksEcho(c) \/ CommitsDelivery(c) \/ Deadlock(c)
       \/ Aborts(c) \/ CommitLooksFailed(c)
  \/ \E id \in DOMAIN run : Claim(id) \/ Finish(id)
  \/ \E t \in Thread : Stop(t) \/ Clear(t)

Spec == Init /\ [][Next]_vars

-----------------------------------------------------------------------------
(* Properties *)

\* Messages, runs, locks and calls have their types, and a lock is held by exactly the
\* call whose transaction took it: none outlives its transaction, however it ended.
SendTypeOK ==
  /\ message \in Seq([thread : Thread, key : Key \cup {NoKey}, asked : Key \cup {NoKey},
                      live : BOOLEAN, from : {0} \X (Bot \cup {Nobody})])
  /\ \A id \in DOMAIN run : run[id].status \in Active \cup Cancelled \cup {"done"}
  /\ \A t \in Thread :
       lock[t] = Nobody \/ (lock[t] \in Call /\
         call[lock[t]].pc \in {"written", "inbound", "echo"})
  /\ \A c \in Call :
       /\ call[c].pc \in {"written", "inbound", "echo"} => lock[Of(c).thread] = c
       /\ call[c].pc = "echo" => lock[Of(c).from] = c

\* sendThreadMessage, sendUserMessage and messageBot, repeated after a lost answer, run at
\* once by two callers, aborted or with a commit that looked failed, leave one message of
\* their key in the thread: the addressee is messaged once and woken once.
OneDelivery ==
  \A m, n \in DOMAIN message :
    (m # n /\ message[m].live /\ message[n].live /\ message[m].asked = message[n].asked)
      => message[m].asked = NoKey \/ Address[message[m].asked].kind = "follow_up"

\* The tables, locks and calls are in order, and no key delivers twice.
SendInv == SendTypeOK /\ OneDelivery

\* Cancelling superseded runs loses no message: for each bot a message addresses there is
\* a run of that bot in the thread that is queued, has read the message, or was stopped
\* by the user after it.
EveryMessageIsHeard ==
  \A id \in DOMAIN run :
    (id[1] # 0 /\ message[id[1]].live) =>
      \E other \in DOMAIN run :
        /\ other[2] = id[2] /\ run[other].thread = run[id].thread
        /\ \/ run[other].status = "queued"
           \/ run[other].status \in {"running", "done", "stopped"} /\ run[other].read >= id[1]

\* messageBot checks its run before it locks anything; still no message of a run that
\* clearThread cancelled is in the cleared thread, and no run outlives its message.
ClearedStaysClear ==
  /\ \A m \in DOMAIN message :
       (message[m].live /\ message[m].from \in DOMAIN run)
         => run[message[m].from].status # "cleared"
  /\ \A id \in DOMAIN run :
       (id[1] # 0 /\ run[id].status \in Active) => message[id[1]].live
=============================================================================
