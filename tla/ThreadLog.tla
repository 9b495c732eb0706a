------------------------------ MODULE ThreadLog ------------------------------
(***************************************************************************)
(* The event log of a thread and a client that watches it.  Transactions   *)
(* append events under the lock of the thread's row and announce them;     *)
(* followThreadEvents reads the log from a cursor and sleeps until an       *)
(* announcement or a timer wakes it; threadSnapshot reads messages and the *)
(* cursor together; the client applies snapshots and events as they come,   *)
(* and subscribes again from its cursor when the stream breaks.            *)
(*                                                                         *)
(* A message is named by the sequence number of the event that announced   *)
(* it.                                                                     *)
(***************************************************************************)
EXTENDS Integers, FiniteSets, FiniteSetsExt

CONSTANTS
    Writer,         \* transactions that append to the log
    Request,        \* threads.get requests under way
    BatchSize,      \* EVENT_BATCH_SIZE
    PageSize,       \* THREAD_MESSAGE_PAGE_SIZE
    MaxEvents,      \* bound: events ever appended
    MaxFaults       \* bound: transactions that abort, announcements, streams, answers
                    \* and listeners that are lost

ASSUME LogAssumption ==
    /\ BatchSize \in Nat \ {0} /\ PageSize \in Nat \ {0}
    /\ MaxEvents \in Nat /\ MaxFaults \in Nat

VARIABLES
    nextEventSeq,   \* of the thread's row
    events,         \* the rows of events
    messages,       \* the rows of messages
    tx,             \* the transactions of the writers, and the announcement that follows
    listening,      \* the API process listens to the channel of announcements
    lost,           \* an announcement was lost
    stream,         \* the locals of followThreadEvents
    client,         \* the cursor of the client and the snapshot it shows
    req,            \* the requests for a snapshot
    faults

logVars == <<nextEventSeq, events, messages, tx, listening, lost, stream, client, req, faults>>

Seqs   == 0 .. MaxEvents - 1
Cursor == Seqs \cup {-1}
Types  == {"message", "progress", "completed", "cleared"}
Event  == [seq : Seqs, type : Types]

NoTx     == [at |-> "out", seq |-> 0]
NoStream == [at |-> "off", seq |-> -1, changed |-> FALSE, batch |-> {}, full |-> FALSE]
NoReq    == [at |-> "out", page |-> {}, cursor |-> -1, opening |-> FALSE]

LogTypeOK ==
    /\ nextEventSeq \in 0 .. MaxEvents
    /\ events \subseteq Event
    /\ messages \subseteq Seqs
    /\ tx \in [Writer -> [at : {"out", "locked", "committed"}, seq : 0 .. MaxEvents]]
    /\ listening \in BOOLEAN /\ lost \in BOOLEAN
    /\ stream \in [at : {"off", "reading", "yielding", "waiting"}, seq : Cursor,
                   changed : BOOLEAN, batch : SUBSET Event, full : BOOLEAN]
    /\ client \in [open : BOOLEAN, cursor : Cursor, seen : Cursor, shown : SUBSET Seqs]
    /\ req \in [Request -> [at : {"out", "paged", "answered"},
                            page : SUBSET Seqs, cursor : Cursor, opening : BOOLEAN]]
    /\ faults \in 0 .. MaxFaults

\* An empty thread, and a client that has asked for its first snapshot.
LogInit ==
    /\ nextEventSeq = 0 /\ events = {} /\ messages = {}
    /\ tx = [w \in Writer |-> NoTx]
    /\ listening \in BOOLEAN /\ lost = FALSE
    /\ stream = NoStream
    /\ client = [open |-> FALSE, cursor |-> -1, seen |-> -1, shown |-> {}]
    /\ \E q \in Request :
           req = [[p \in Request |-> NoReq] EXCEPT ![q].opening = TRUE]
    /\ faults = 0

Fault == faults < MaxFaults /\ faults' = faults + 1

-----------------------------------------------------------------------------
(* Writers.                                                                 *)

\* A slip: the number is taken without locking the row.
NeverLocked == FALSE

\* The first statement of a transaction updates the thread's row, or locks it FOR UPDATE.
RowLocked == \E w \in Writer : tx[w].at = "locked"

\* A slip: the snapshot does not lock the row.
NeverShared == FALSE

RowShared == \E q \in Request : req[q].at = "paged"

Lock(w) ==
    /\ tx[w].at = "out"
    /\ ~RowLocked /\ ~RowShared
    /\ nextEventSeq < MaxEvents
    /\ tx' = [tx EXCEPT ![w] = [at |-> "locked", seq |-> nextEventSeq]]
    /\ UNCHANGED <<nextEventSeq, events, messages, listening, lost, stream, client, req, faults>>

\* What a transaction appends, and keeps of the log: a run that completes appends its
\* message and run.completed, and its progress goes; a clear deletes all there was.
Appended(type, seq) ==
    CASE type = "completed" -> {e \in events : e.type # "progress"} \cup
                               {[seq |-> seq, type |-> "message"], [seq |-> seq + 1, type |-> type]}
      [] type = "cleared"   -> {[seq |-> seq, type |-> type]}
      [] OTHER              -> events \cup {[seq |-> seq, type |-> type]}

Commit(w) ==
    /\ tx[w].at = "locked"
    /\ \E type \in Types :
           /\ events' = Appended(type, tx[w].seq)
           /\ messages' = CASE type = "cleared"  -> {}
                            [] type = "progress" -> messages
                            [] OTHER             -> messages \cup {tx[w].seq}
    /\ nextEventSeq' = Max({e.seq : e \in events'}) + 1
    /\ nextEventSeq' <= MaxEvents
    /\ tx' = [tx EXCEPT ![w] = [NoTx EXCEPT !.at = "committed"]]
    /\ UNCHANGED <<listening, lost, stream, client, req, faults>>

\* The run may not write any more, or the connection fails.
Abort(w) ==
    /\ tx[w].at = "locked"
    /\ Fault
    /\ tx' = [tx EXCEPT ![w] = NoTx]
    /\ UNCHANGED <<nextEventSeq, events, messages, listening, lost, stream, client, req>>

\* ChangeLatch.notify, when the stream has subscribed.
Notified(s) == [s EXCEPT !.changed = s.at # "off"]

\* notifyRealtime, of the last event of the transaction, once it has committed.
Notify(w) ==
    /\ tx[w].at = "committed"
    /\ tx' = [tx EXCEPT ![w] = NoTx]
    /\ \/ stream' = (IF listening THEN Notified(stream) ELSE stream) /\ UNCHANGED <<lost, faults>>
       \/ Fault /\ lost' = TRUE /\ UNCHANGED stream
    /\ UNCHANGED <<nextEventSeq, events, messages, listening, client, req>>

\* stopThreadRuns deletes progress events with no lock of the thread and no event.
StopRun ==
    /\ \E e \in events : e.type = "progress"
    /\ events' = {e \in events : e.type # "progress"}
    /\ UNCHANGED <<nextEventSeq, messages, tx, listening, lost, stream, client, req, faults>>

-----------------------------------------------------------------------------
(* The listener of the API process.                                         *)

Disconnect ==
    /\ listening
    /\ Fault
    /\ listening' = FALSE
    /\ UNCHANGED <<nextEventSeq, events, messages, tx, lost, stream, client, req>>

\* LISTEN is followed by a signal to every subscriber.
Connect ==
    /\ ~listening
    /\ listening' = TRUE
    /\ stream' = Notified(stream)
    /\ UNCHANGED <<nextEventSeq, events, messages, tx, lost, client, req, faults>>

-----------------------------------------------------------------------------
(* followThreadEvents.                                                      *)

Subscribe ==
    /\ client.open /\ stream.at = "off"
    /\ stream' = [NoStream EXCEPT !.at = "reading", !.seq = client.cursor]
    /\ UNCHANGED <<nextEventSeq, events, messages, tx, listening, lost, client, req, faults>>

First(n, S) == {e \in S : Cardinality({d \in S : d.seq < e.seq}) < n}

\* eventsAfter.
EventsAfter(seq) == First(BatchSize, {e \in events : e.seq > seq})

\* A slip of the wait: it expects the generation of the moment, not the one observed.
WaitsAnew(s) == [s EXCEPT !.at = "waiting", !.changed = FALSE]

\* waitForChange is given the generation observed before the reads.
Waits(s) == [s EXCEPT !.at = "waiting"]

Read ==
    /\ stream.at = "reading"
    /\ LET batch == EventsAfter(stream.seq)
           read  == [stream EXCEPT !.batch = batch, !.full = Cardinality(batch) = BatchSize]
       IN  stream' = IF batch = {} THEN Waits(read) ELSE [read EXCEPT !.at = "yielding"]
    /\ UNCHANGED <<nextEventSeq, events, messages, tx, listening, lost, client, req, faults>>

\* reduceThreadSnapshot.
Reduced(e) ==
    [client EXCEPT !.cursor = Max({@, e.seq}), !.seen = e.seq,
        !.shown = CASE e.type = "cleared" -> {}
                    [] e.type = "message" -> @ \cup {e.seq}
                    [] OTHER              -> @]

Yield ==
    /\ stream.at = "yielding"
    /\ \E e \in stream.batch :
           /\ \A d \in stream.batch : e.seq <= d.seq
           /\ client' = Reduced(e)
           /\ LET rest == [stream EXCEPT !.seq = e.seq, !.batch = @ \ {e}]
              IN  stream' = IF rest.batch # {} THEN rest
                            ELSE IF stream.full THEN [rest EXCEPT !.at = "reading"]
                            ELSE Waits(rest)
    /\ UNCHANGED <<nextEventSeq, events, messages, tx, listening, lost, req, faults>>

\* A slip of the wait: it has no timer.
NoTimer == FALSE

TimerFires == TRUE

\* The generation is observed, then the log is read.
CatchUp ==
    /\ stream.at = "waiting"
    /\ stream.changed \/ TimerFires
    /\ stream' = [stream EXCEPT !.at = "reading", !.changed = FALSE]
    /\ UNCHANGED <<nextEventSeq, events, messages, tx, listening, lost, client, req, faults>>

\* The connection breaks or the API restarts: what was not received is lost.
Drop ==
    /\ stream.at # "off"
    /\ Fault
    /\ stream' = NoStream
    /\ UNCHANGED <<nextEventSeq, events, messages, tx, listening, lost, client, req>>

-----------------------------------------------------------------------------
(* threadSnapshot.                                                          *)

Last(n, S) == {s \in S : Cardinality({t \in S : t > s}) < n}

\* SELECT ... FOR SHARE and loadMessagePage.  A client refreshes when a run ends or asks,
\* after a send and after a broken stream: at any time here.
ReadPage(q) ==
    /\ req[q].at = "out" /\ (client.open \/ req[q].opening)
    /\ ~RowLocked
    /\ req' = [req EXCEPT ![q].at = "paged", ![q].page = Last(PageSize, messages)]
    /\ UNCHANGED <<nextEventSeq, events, messages, tx, listening, lost, stream, client, faults>>

LastSeq == Max({e.seq : e \in events} \cup {-1})

\* The cursor is read in the same transaction, which ends.
ReadCursor(q) ==
    /\ req[q].at = "paged"
    /\ req' = [req EXCEPT ![q].at = "answered", ![q].cursor = LastSeq]
    /\ UNCHANGED <<nextEventSeq, events, messages, tx, listening, lost, stream, client, faults>>

\* A slip of the merge: an answer is never too old.
NeverBehind(q) == FALSE

\* mergeThreadSnapshot: an answer that is behind the snapshot that is shown is dropped.
Behind(q) == client.open /\ client.seen > req[q].cursor

\* The first answer also says where the stream begins.
Answer(q) ==
    LET r == req[q]
    IN  /\ r.at = "answered"
        /\ client' = [client EXCEPT !.open = TRUE,
                          !.cursor = IF r.opening THEN r.cursor ELSE @,
                          !.seen  = IF Behind(q) THEN @ ELSE r.cursor,
                          !.shown = IF Behind(q) THEN @ ELSE r.page]
        /\ req' = [req EXCEPT ![q] = NoReq]
        /\ UNCHANGED <<nextEventSeq, events, messages, tx, listening, lost, stream, faults>>

-----------------------------------------------------------------------------

WriterStep(w) == Lock(w) \/ Commit(w) \/ Abort(w) \/ Notify(w)

Follow == Subscribe \/ Read \/ Yield \/ CatchUp

Get(q) == ReadPage(q) \/ ReadCursor(q) \/ Answer(q)

LogNext ==
    \/ \E w \in Writer : WriterStep(w)
    \/ \E q \in Request : Get(q)
    \/ Follow \/ Drop \/ StopRun \/ Connect \/ Disconnect

LogSpec == LogInit /\ [][LogNext]_logVars

\* A transaction that has begun ends; the generator is resumed and its timer fires; a
\* client that lost its stream subscribes again; requests are served.
Fairness ==
    /\ \A w \in Writer : WF_logVars(Commit(w))
    /\ \A q \in Request : WF_logVars(Get(q))
    /\ WF_logVars(Follow)

FairLogSpec == LogSpec /\ Fairness

-----------------------------------------------------------------------------
(* Properties.                                                              *)

\* No event appears behind a cursor: what a transaction appends is newer than all that
\* followThreadEvents has passed and than every cursor a snapshot returned.
InOrder ==
    [][\A e \in events' \ events :
           e.seq > stream.seq /\ e.seq > client.cursor /\ \A q \in Request : e.seq > req[q].cursor]_logVars

\* A stream that sleeps until its timer has missed nothing, unless an announcement was
\* lost or is on its way: the generation is observed before the log is read.
NoLostWakeUp ==
    /\ stream.at = "waiting" /\ ~stream.changed
    /\ listening /\ ~lost
    /\ \A w \in Writer : tx[w].at # "committed"
    => \A e \in events : e.seq <= stream.seq

\* thread-target.ts:266: a client that is up to date shows the latest messages, however
\* snapshots and events have overtaken each other, and nothing that was deleted.
ShownIsTrue ==
    /\ client.open
    /\ \A e \in events : e.seq <= client.cursor
    => client.shown \subseteq messages /\ Last(PageSize, messages) \subseteq client.shown

\* The log, the streams and the requests have their types, and the client shows the truth.
LogInv == LogTypeOK /\ ShownIsTrue

\* A client that has passed the thread.cleared event never shows a cleared message again.
ClearedStaysCleared ==
    \A e \in events :
        e.type = "cleared" /\ e.seq <= client.cursor => \A m \in client.shown : m > e.seq

\* The client catches up with the log, again and again, although announcements, streams
\* and listeners fail.
EventReaches == []<>(\A e \in events : e.seq <= client.cursor)

=============================================================================
