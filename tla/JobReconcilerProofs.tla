------------------------- MODULE JobReconcilerProofs -------------------------
(***************************************************************************)
(* Proof about JobReconciler: the scan of a table misses no row, for every *)
(* number of processes and rows, every batch size and lookahead, and every *)
(* bound on the clock, the moves and the faults.                           *)
(***************************************************************************)
EXTENDS JobReconciler, TLAPS

\* The scan of t by p is under way: its history means something.
Scanning(p, t) == pc[p] = "enqueue" \/ cursor[p][t] # NoCursor

RowsOK == DOMAIN at = Table /\ \A t \in Table : at[t] \in [Ids[t] -> Nat \cup {Off}]

PagesOK ==
    /\ DOMAIN page = Process
    /\ \A p \in Process, t \in Table :
         page[p][t].rows \in SUBSET Key /\ page[p][t].next \in Cursor

ScanTypeOK ==
    /\ clock \in 0 .. Horizon
    /\ RowsOK
    /\ PagesOK
    /\ pc \in [Process -> {"idle", "enqueue"}]
    /\ cursor \in [Process -> [Table -> Cursor]]
    /\ deadline \in [Process -> Nat]
    /\ owed \in [Process -> [Table -> SUBSET Key]]

\* A row that is owed a job is still where the scan would find it.
Stands(p, t, k) ==
    /\ k.id \in Ids[t]
    /\ at[t][k.id] # Off
    /\ k.at = at[t][k.id]
    /\ Wanted(p, t, k.at)

OwedStand == \A p \in Process, t \in Table : Scanning(p, t) => \A k \in owed[p][t] : Stands(p, t, k)

\* It lies behind the cursor the next page starts from ...
OwedBehind ==
    \A p \in Process, t \in Table :
        cursor[p][t] # NoCursor => \A k \in owed[p][t] : Before(cursor[p][t], k)

\* ... and is on the page in hand, or behind that page.
PageCovers ==
    \A p \in Process, t \in Table : pc[p] = "enqueue" =>
        \A k \in owed[p][t] : \/ k \in page[p][t].rows
                              \/ /\ page[p][t].next # NoCursor
                                 /\ Before(page[p][t].next, k)

ScanInv == ScanTypeOK /\ OwedStand /\ OwedBehind /\ PageCovers

-----------------------------------------------------------------------------
\* The ids of every table are numbers.
LEMMA IdsAreNumbers == \A t \in Table : Ids[t] \subseteq Nat
<1>1. Ids["run"] = Run /\ Ids["routine"] = Routine /\ Ids["computer"] = Computer
  BY DEF Ids
<1> QED BY <1>1, ReconcilerAssumption DEF Table

\* Matching collects exactly the rows that stand, as keys.
LEMMA MatchingKeys ==
    ASSUME ScanTypeOK, NEW p \in Process, NEW t \in Table
    PROVE  \A k : k \in Matching(p, t) <=> k \in Key /\ Stands(p, t, k)
<1>1. ASSUME NEW k, k \in Matching(p, t) PROVE k \in Key /\ Stands(p, t, k)
  <2>1. PICK i \in Ids[t] : at[t][i] # Off /\ k = [at |-> at[t][i], id |-> i] /\ Wanted(p, t, k.at)
    BY <1>1 DEF Matching
  <2>2. at[t][i] \in Nat /\ i \in Nat
    BY <2>1, IdsAreNumbers DEF ScanTypeOK, RowsOK
  <2> QED BY <2>1, <2>2 DEF Stands, Key
<1>2. ASSUME NEW k, k \in Key, Stands(p, t, k) PROVE k \in Matching(p, t)
  <2>1. k = [at |-> at[t][k.id], id |-> k.id]
    BY <1>2 DEF Stands, Key
  <2> QED BY <1>2, <2>1 DEF Stands, Matching
<1> QED BY <1>1, <1>2

\* What a query returns: its page holds every row behind the cursor, or ends at a cursor
\* that all the others lie behind.
LEMMA PageShape ==
    ASSUME ScanTypeOK, NEW p \in Process, NEW t \in Table, NEW pg \in Pages(p, t)
    PROVE  /\ pg.rows \in SUBSET Key
           /\ pg.next \in Cursor
           /\ \A k \in Behind(p, t) :
                k \in pg.rows \/ (pg.next # NoCursor /\ Before(pg.next, k))
<1>1. Behind(p, t) \subseteq Key
  BY MatchingKeys DEF Behind
<1>2. /\ pg.rows \subseteq Behind(p, t)
      /\ pg.next \in Behind(p, t) \cup {NoCursor}
      /\ IsPage(pg, Behind(p, t))
  BY DEF Pages
<1>3. NoCursor \notin Key
  BY ReconcilerAssumption DEF Key
<1>4. CASE pg.rows = Behind(p, t)
  BY <1>1, <1>2, <1>4 DEF Cursor
<1>5. CASE pg.rows # Behind(p, t)
  <2>1. pg.next \in pg.rows
    BY <1>2, <1>5 DEF IsPage
  <2>2. \A k \in Behind(p, t) \ pg.rows : Before(pg.next, k)
    BY <1>2, <2>1 DEF IsPage
  <2> QED BY <1>1, <1>2, <1>3, <2>1, <2>2 DEF Cursor
<1> QED BY <1>4, <1>5

\* A row that is wanted stays wanted: the clock rises and a kept deadline keeps.
LEMMA StillWanted ==
    ASSUME ScanTypeOK, clock' \in Nat, clock <= clock',
           NEW p \in Process, NEW t \in Table, NEW a \in Nat,
           deadline'[p] = deadline[p], Wanted(p, t, a)
    PROVE  Wanted(p, t, a)'
<1>1. clock \in Nat /\ Lookahead \in Nat /\ deadline[p] \in Nat
  BY ReconcilerAssumption DEF ScanTypeOK
<1>2. CASE t = "run"
  BY <1>2 DEF Wanted
<1>3. CASE t = "routine"
  BY <1>1, <1>3 DEF Wanted
<1>4. CASE t = "computer"
  BY <1>1, <1>4 DEF Wanted, DeadlineOf
<1> QED BY <1>2, <1>3, <1>4 DEF Table

-----------------------------------------------------------------------------
(* The steps that leave the scan of every process alone.                   *)

\* Only the rows and the clock move, and a row that moves is owed to nobody.
LEMMA WorldStep ==
    ASSUME ScanInv, ScanTypeOK', UNCHANGED <<pc, page, cursor, deadline>>, clock <= clock',
           \A p \in Process, t \in Table : \A k \in owed'[p][t] :
               k \in owed[p][t] /\ at'[t][k.id] = at[t][k.id]
    PROVE  ScanInv'
<1>1. OwedStand'
  <2> SUFFICES ASSUME NEW p \in Process, NEW t \in Table, Scanning(p, t), NEW k \in owed'[p][t]
               PROVE  Stands(p, t, k)'
    BY DEF OwedStand, Scanning
  <2>1. k \in owed[p][t] /\ at'[t][k.id] = at[t][k.id] /\ Stands(p, t, k)
    BY DEF ScanInv, OwedStand
  <2>2. k.at \in Nat
    BY <2>1 DEF ScanInv, ScanTypeOK, Key
  <2>3. Wanted(p, t, k.at)'
    BY <2>1, <2>2, StillWanted DEF ScanInv, ScanTypeOK, Stands
  <2> QED BY <2>1, <2>3 DEF Stands
<1>2. OwedBehind'
  BY DEF ScanInv, OwedBehind, Before
<1>3. PageCovers'
  BY DEF ScanInv, PageCovers, Before
<1> QED BY <1>1, <1>2, <1>3 DEF ScanInv

\* A row that is placed anew (a move, or the run of its job) is owed to nobody any more.
LEMMA PlaceStep ==
    ASSUME ScanInv, NEW t \in Table, NEW i \in Ids[t], NEW a \in Nat \cup {Off}, Place(t, i, a),
           UNCHANGED <<clock, pc, page, cursor, deadline>>
    PROVE  ScanInv'
<1>1. at' = [at EXCEPT ![t][i] = a]
      /\ owed' = [p \in Process |-> [owed[p] EXCEPT ![t] = {k \in @ : k.id # i}]]
  BY DEF Place
<1>2. owed \in [Process -> [Table -> SUBSET Key]] /\ RowsOK /\ clock \in Nat
  BY DEF ScanInv, ScanTypeOK
<1>3. RowsOK'
  BY <1>1, <1>2 DEF RowsOK
<1>4. \A p \in Process, u \in Table :
        owed'[p][u] = IF u = t THEN {k \in owed[p][u] : k.id # i} ELSE owed[p][u]
  BY <1>1, <1>2
<1>5. owed' \in [Process -> [Table -> SUBSET Key]]
  BY <1>1, <1>2
<1>6. ScanTypeOK'
  BY <1>3, <1>5 DEF ScanInv, ScanTypeOK, PagesOK
<1>7. ASSUME NEW p \in Process, NEW u \in Table, NEW k \in owed'[p][u]
      PROVE  k \in owed[p][u] /\ at'[u][k.id] = at[u][k.id]
  <2>1. k \in owed[p][u] /\ (u # t \/ k.id # i)
    BY <1>4, <1>7
  <2> QED BY <1>1, <1>2, <2>1 DEF RowsOK
<1> QED BY <1>2, <1>6, <1>7, WorldStep

-----------------------------------------------------------------------------
(* The steps of a process: its own scan, and nobody else's.                *)

\* What a step of p leaves to the other processes, and to the rows.
Aside(p) ==
    /\ UNCHANGED <<clock, at>>
    /\ \A q \in Process \ {p} :
         /\ pc'[q] = pc[q] /\ page'[q] = page[q] /\ cursor'[q] = cursor[q]
         /\ deadline'[q] = deadline[q] /\ owed'[q] = owed[q]

\* The invariant of the scan of t by p.
ScanOK(p, t) ==
    /\ Scanning(p, t) => \A k \in owed[p][t] : Stands(p, t, k)
    /\ cursor[p][t] # NoCursor => \A k \in owed[p][t] : Before(cursor[p][t], k)
    /\ pc[p] = "enqueue" =>
         \A k \in owed[p][t] : \/ k \in page[p][t].rows
                               \/ /\ page[p][t].next # NoCursor
                                  /\ Before(page[p][t].next, k)

\* A step of p keeps the invariant when it keeps the part about p.
LEMMA ProcessStep ==
    ASSUME ScanInv, ScanTypeOK', NEW p \in Process, Aside(p), \A t \in Table : ScanOK(p, t)'
    PROVE  ScanInv'
<1>1. \A q \in Process, t \in Table : ScanOK(q, t)
  BY DEF ScanInv, OwedStand, OwedBehind, PageCovers, ScanOK
<1>2. ASSUME NEW q \in Process, NEW t \in Table PROVE ScanOK(q, t)'
  <2>1. CASE q = p
    BY <2>1
  <2>2. CASE q # p
    <3>1. /\ clock' = clock /\ at' = at
          /\ pc'[q] = pc[q] /\ page'[q] = page[q] /\ cursor'[q] = cursor[q]
          /\ deadline'[q] = deadline[q] /\ owed'[q] = owed[q]
      BY <2>2 DEF Aside
    <3>2. \A k : Stands(q, t, k) => Stands(q, t, k)'
      BY <3>1 DEF Stands, Wanted, DeadlineOf
    <3> QED BY <1>1, <3>1, <3>2 DEF ScanOK, Scanning, Before
  <2> QED BY <2>1, <2>2
<1> QED BY <1>2 DEF ScanInv, OwedStand, OwedBehind, PageCovers, ScanOK

\* A pass that reads: a new scan owes what matches now, an old one what it still owed,
\* and the page covers it.
LEMMA ReadsStep ==
    ASSUME ScanInv, NEW p \in Process, PassReads(p)
    PROVE  ScanInv'
<1> USE DEF ScanInv
<1>1. /\ pc' = [pc EXCEPT ![p] = "enqueue"]
      /\ deadline' = [deadline EXCEPT ![p] = DeadlineOf(p)]
      /\ owed' = [owed EXCEPT ![p] =
           [t \in Table |-> IF cursor[p][t] = NoCursor THEN Matching(p, t) ELSE owed[p][t]]]
      /\ UNCHANGED <<clock, at, cursor>>
  BY DEF PassReads
<1>2. PICK r \in Pages(p, "run"), o \in Pages(p, "routine"), c \in Pages(p, "computer") :
        page' = [page EXCEPT ![p] = [run |-> r, routine |-> o, computer |-> c]]
  BY DEF PassReads
<1>3. \A t \in Table : page'[p][t] \in Pages(p, t)
  <2>1. page'[p] = [run |-> r, routine |-> o, computer |-> c]
    BY <1>2 DEF ScanTypeOK, PagesOK
  <2>2. page'[p]["run"] = r /\ page'[p]["routine"] = o /\ page'[p]["computer"] = c
    BY <2>1
  <2> QED BY <2>2 DEF Table
<1>4. /\ clock \in Nat /\ Lookahead \in Nat /\ clock + Lookahead < Never /\ Never \in Nat
      /\ deadline[p] \in Nat
  BY ReconcilerAssumption DEF ScanTypeOK
<1>5. DeadlineOf(p) \in Nat /\ DeadlineOf(p) # Never
  BY <1>4 DEF DeadlineOf
<1>6. \A t \in Table : owed'[p][t] =
        IF cursor[p][t] = NoCursor THEN Matching(p, t) ELSE owed[p][t]
  BY <1>1 DEF ScanTypeOK
<1>7. \A t \in Table : Matching(p, t) \in SUBSET Key
  BY MatchingKeys
<1>8. owed' \in [Process -> [Table -> SUBSET Key]]
  <2>1. [t \in Table |-> IF cursor[p][t] = NoCursor THEN Matching(p, t) ELSE owed[p][t]]
          \in [Table -> SUBSET Key]
    BY <1>7 DEF ScanTypeOK
  <2> QED BY <1>1, <2>1 DEF ScanTypeOK
<1>9. PagesOK'
  <2>1. ASSUME NEW q \in Process, NEW t \in Table
        PROVE  page'[q][t].rows \in SUBSET Key /\ page'[q][t].next \in Cursor
    <3>1. CASE q = p
      BY <1>3, <3>1, PageShape
    <3>2. CASE q # p
      BY <1>2, <3>2 DEF ScanTypeOK, PagesOK
    <3> QED BY <3>1, <3>2
  <2> QED BY <1>2, <2>1 DEF ScanTypeOK, PagesOK
<1>10. ScanTypeOK'
  BY <1>1, <1>5, <1>8, <1>9 DEF ScanTypeOK, RowsOK
<1>11. Aside(p)
  BY <1>1, <1>2 DEF Aside, ScanTypeOK, PagesOK
<1>12. ASSUME NEW t \in Table PROVE ScanOK(p, t)'
  <2>1. \A k \in owed'[p][t] : k \in Key /\ Stands(p, t, k) /\ k \in Matching(p, t)
    <3>1. CASE cursor[p][t] = NoCursor
      BY <1>6, <3>1, MatchingKeys
    <3>2. CASE cursor[p][t] # NoCursor
      BY <1>6, <3>2, MatchingKeys DEF OwedStand, Scanning, ScanTypeOK
    <3> QED BY <3>1, <3>2
  <2>2. cursor[p][t] # NoCursor => \A k \in owed'[p][t] : Before(cursor[p][t], k)
    BY <1>6 DEF OwedBehind
  <2>3. \A k \in owed'[p][t] : k \in Behind(p, t)
    BY <2>1, <2>2 DEF Behind
  <2>4. deadline'[p] = DeadlineOf(p)
    BY <1>1 DEF ScanTypeOK
  <2>5. \A k : Stands(p, t, k) => Stands(p, t, k)'
    BY <1>1, <1>5, <2>4 DEF Stands, Wanted, DeadlineOf
  <2>6. \A k \in owed'[p][t] : k \in page'[p][t].rows
          \/ (page'[p][t].next # NoCursor /\ Before(page'[p][t].next, k))
    BY <1>3, <2>3, PageShape
  <2> QED BY <1>1, <2>1, <2>2, <2>5, <2>6 DEF ScanOK, Before
<1> QED BY <1>10, <1>11, <1>12, ProcessStep

\* A pass that ends: what it enqueued is owed no more, the rest lies behind the new cursor.
LEMMA EndsStep ==
    ASSUME ScanInv, NEW p \in Process, PassEnds(p)
    PROVE  ScanInv'
<1> USE DEF ScanInv
<1>1. /\ pc[p] = "enqueue"
      /\ pc' = [pc EXCEPT ![p] = "idle"]
      /\ cursor' = [cursor EXCEPT ![p] = [t \in Table |-> page[p][t].next]]
      /\ deadline' = [deadline EXCEPT ![p] =
           IF page[p]["computer"].next = NoCursor THEN Never ELSE @]
      /\ owed' = [owed EXCEPT ![p] = [t \in Table |-> owed[p][t] \ page[p][t].rows]]
      /\ page' = [page EXCEPT ![p] = NoPage]
      /\ UNCHANGED <<clock, at>>
  BY DEF PassEnds
<1>2. PagesOK'
  BY <1>1 DEF ScanTypeOK, PagesOK, NoPage, Cursor
<1>3. cursor' \in [Process -> [Table -> Cursor]]
  <2>1. [t \in Table |-> page[p][t].next] \in [Table -> Cursor]
    BY DEF ScanTypeOK, PagesOK
  <2> QED BY <1>1, <2>1 DEF ScanTypeOK
<1>4. owed' \in [Process -> [Table -> SUBSET Key]]
  <2>1. [t \in Table |-> owed[p][t] \ page[p][t].rows] \in [Table -> SUBSET Key]
    BY DEF ScanTypeOK
  <2> QED BY <1>1, <2>1 DEF ScanTypeOK
<1>5. ScanTypeOK'
  BY <1>1, <1>2, <1>3, <1>4, ReconcilerAssumption DEF ScanTypeOK, RowsOK
<1>6. Aside(p)
  BY <1>1 DEF Aside, ScanTypeOK, PagesOK
<1>7. ASSUME NEW t \in Table PROVE ScanOK(p, t)'
  <2>1. /\ cursor'[p][t] = page[p][t].next
        /\ owed'[p][t] = owed[p][t] \ page[p][t].rows
        /\ pc'[p] = "idle"
    BY <1>1 DEF ScanTypeOK
  <2>2. \A k \in owed'[p][t] :
          cursor'[p][t] # NoCursor /\ Before(cursor'[p][t], k) /\ Stands(p, t, k)
    BY <1>1, <2>1 DEF PageCovers, OwedStand, Scanning
  <2>3. ASSUME cursor'[p][t] # NoCursor, NEW k, k.at \in Nat, Stands(p, t, k)
        PROVE  Stands(p, t, k)'
    <3>1. CASE t = "computer"
      <4>1. deadline'[p] = deadline[p]
        BY <1>1, <2>1, <2>3, <3>1 DEF ScanTypeOK
      <4> QED BY <1>1, <4>1, <2>3 DEF Stands, Wanted, DeadlineOf
    <3>2. CASE t # "computer"
      BY <1>1, <2>3, <3>2 DEF Stands, Wanted, Table
    <3> QED BY <3>1, <3>2
  <2>4. \A k \in owed'[p][t] : k.at \in Nat
    BY <1>4 DEF Key
  <2> QED BY <2>1, <2>2, <2>3, <2>4 DEF ScanOK, Before
<1> QED BY <1>5, <1>6, <1>7, ProcessStep

\* A pass that fails: the cursors, and what lies behind them, are what they were.
LEMMA FailsStep ==
    ASSUME ScanInv, NEW p \in Process, PassFails(p)
    PROVE  ScanInv'
<1> USE DEF ScanInv
<1>1. /\ pc[p] = "enqueue"
      /\ pc' = [pc EXCEPT ![p] = "idle"]
      /\ page' = [page EXCEPT ![p] = NoPage]
      /\ UNCHANGED <<clock, at, cursor, deadline, owed>>
  BY DEF PassFails
<1>2. ScanTypeOK'
  BY <1>1 DEF ScanTypeOK, RowsOK, PagesOK, NoPage, Cursor
<1>3. Aside(p)
  BY <1>1 DEF Aside, ScanTypeOK, PagesOK
<1>4. ASSUME NEW t \in Table PROVE ScanOK(p, t)'
  <2>1. pc'[p] = "idle"
    BY <1>1 DEF ScanTypeOK
  <2>2. \A k : Stands(p, t, k) => Stands(p, t, k)'
    BY <1>1 DEF Stands, Wanted, DeadlineOf
  <2> QED BY <1>1, <2>1, <2>2 DEF ScanOK, OwedStand, OwedBehind, Scanning, Before
<1> QED BY <1>2, <1>3, <1>4, ProcessStep

\* A process that restarts has no scan under way.
LEMMA RestartsStep ==
    ASSUME ScanInv, NEW p \in Process, Restarts(p)
    PROVE  ScanInv'
<1> USE DEF ScanInv
<1>1. /\ pc' = [pc EXCEPT ![p] = "idle"]
      /\ page' = [page EXCEPT ![p] = NoPage]
      /\ cursor' = [cursor EXCEPT ![p] = NoCursors]
      /\ deadline' = [deadline EXCEPT ![p] = Never]
      /\ owed' = [owed EXCEPT ![p] = NoneOwed]
      /\ UNCHANGED <<clock, at>>
  BY DEF Restarts
<1>2. PagesOK'
  BY <1>1 DEF ScanTypeOK, PagesOK, NoPage, Cursor
<1>3. NoCursors \in [Table -> Cursor] /\ NoneOwed \in [Table -> SUBSET Key]
  BY DEF NoCursors, NoneOwed, Cursor
<1>4. ScanTypeOK'
  BY <1>1, <1>2, <1>3, ReconcilerAssumption DEF ScanTypeOK, RowsOK
<1>5. Aside(p)
  BY <1>1 DEF Aside, ScanTypeOK, PagesOK
<1>6. \A t \in Table : ScanOK(p, t)'
  BY <1>1 DEF ScanOK, Scanning, ScanTypeOK, NoCursors
<1> QED BY <1>4, <1>5, <1>6, ProcessStep

-----------------------------------------------------------------------------
\* At the start no scan is under way.
LEMMA ScanInit == Init => ScanInv
<1> SUFFICES ASSUME Init PROVE ScanInv
  OBVIOUS
<1> USE ReconcilerAssumption
<1>1. PICK due \in Table :
        at = [t \in Table |-> [i \in Ids[t] |->
               IF t # due THEN Off ELSE IF t = "computer" THEN Lookahead + 1 ELSE 0]]
  BY DEF Init
<1>2. RowsOK
  <2>1. ASSUME NEW t \in Table PROVE at[t] \in [Ids[t] -> Nat \cup {Off}]
    <3>1. at[t] = [i \in Ids[t] |->
            IF t # due THEN Off ELSE IF t = "computer" THEN Lookahead + 1 ELSE 0]
      BY <1>1
    <3> QED BY <3>1
  <2> QED BY <1>1, <2>1 DEF RowsOK
<1>3. /\ clock = 0 /\ pc = [p \in Process |-> "idle"]
      /\ page = [p \in Process |-> NoPage]
      /\ cursor = [p \in Process |-> NoCursors]
      /\ deadline = [p \in Process |-> Never]
      /\ owed = [p \in Process |-> NoneOwed]
  BY DEF Init
<1>4. PagesOK
  BY <1>3 DEF PagesOK, NoPage, Cursor
<1>5. NoCursors \in [Table -> Cursor] /\ NoneOwed \in [Table -> SUBSET Key]
  BY DEF NoCursors, NoneOwed, Cursor
<1>6. ScanTypeOK
  BY <1>2, <1>3, <1>4, <1>5 DEF ScanTypeOK
<1> QED BY <1>3, <1>6 DEF ScanInv, OwedStand, OwedBehind, PageCovers, Scanning, NoCursors, NoneOwed

\* Every step of the system keeps the invariant.
LEMMA ScanNext == ScanInv /\ [Next]_vars => ScanInv'
<1> SUFFICES ASSUME ScanInv, [Next]_vars PROVE ScanInv'
  OBVIOUS
<1> USE ReconcilerAssumption
<1>1. CASE Tick
  <2>1. clock' \in 0 .. Horizon /\ clock <= clock'
    BY <1>1 DEF Tick, ScanInv, ScanTypeOK
  <2>2. UNCHANGED <<at, pc, page, cursor, deadline, owed>>
    BY <1>1 DEF Tick, scan
  <2>3. ScanTypeOK'
    BY <2>1, <2>2 DEF ScanInv, ScanTypeOK, RowsOK, PagesOK
  <2> QED BY <2>1, <2>2, <2>3, WorldStep
<1>2. ASSUME NEW p \in Process,
             PassReads(p) \/ PassEnds(p) \/ PassFails(p) \/ Restarts(p)
      PROVE  ScanInv'
  BY <1>2, ReadsStep, EndsStep, FailsStep, RestartsStep
<1>3. ASSUME NEW t \in Table, NEW i \in Ids[t], RowMoves(t, i) \/ JobRuns(t, i)
      PROVE  ScanInv'
  <2>1. TimesFor(t) \subseteq Nat
    BY DEF TimesFor, Table, ScanInv, ScanTypeOK
  <2>2. PICK a \in Nat \cup {Off} : Place(t, i, a)
    BY <1>3, <2>1 DEF RowMoves, JobRuns
  <2> QED BY <1>3, <2>2, PlaceStep DEF RowMoves, JobRuns
<1>4. ASSUME UNCHANGED <<clock, at, scan>> PROVE ScanInv'
  <2>1. UNCHANGED <<clock, at, pc, page, cursor, deadline, owed>>
    BY <1>4 DEF scan
  <2>2. ScanTypeOK'
    BY <2>1 DEF ScanInv, ScanTypeOK, RowsOK, PagesOK
  <2>3. clock <= clock'
    BY <2>1 DEF ScanInv, ScanTypeOK
  <2> QED BY <2>1, <2>2, <2>3, WorldStep
<1>5. CASE \/ ConnectionLost
           \/ \E p \in Process : LeaderNotices(p)
           \/ \E t \in Table : \E i \in Ids[t] : JobLost(t, i)
  BY <1>4, <1>5 DEF ConnectionLost, LeaderNotices, JobLost
<1>6. CASE UNCHANGED vars
  BY <1>4, <1>6 DEF vars, scan
<1> QED BY <1>1, <1>2, <1>3, <1>5, <1>6 DEF Next

\* At every moment, what a scan still owes a job stands where it stood, lies behind the
\* cursor the pass resumes from, and is on the page in hand or behind it: runs, routines
\* and computers that tie, move or arrive, and passes that fail, do not break the cursor
\* the reconciler keeps between its queries.
THEOREM ScanIsSound == Spec => []ScanInv
<1>1. Init => ScanInv
  BY ScanInit
<1>2. ScanInv /\ [Next]_vars => ScanInv'
  BY ScanNext
<1> QED BY <1>1, <1>2, PTL DEF Spec

\* The page that ends the scan of a table holds every row that has needed its job since
\* the scan began, has not moved and was not enqueued: the reconciler skips no row.
THEOREM ScanIsComplete == Spec => []ScanCovers
<1>1. ScanInv => ScanCovers
  BY DEF ScanInv, PageCovers, ScanCovers
<1> QED BY <1>1, ScanIsSound, PTL
=============================================================================
