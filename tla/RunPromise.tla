----------------------------- MODULE RunPromise -----------------------------
(***************************************************************************)
(* What the run machinery promises its users, without jobs, fences, leases *)
(* or requests in flight: a run is executed by at most one handler at a    *)
(* time, only that handler parks it, hands it back or delivers its answer, *)
(* the answer is delivered at most once, and a run that is over stays so.  *)
(***************************************************************************)
EXTENDS Naturals

CONSTANTS Run, Worker, Nobody

VARIABLES
  phase,      \* new, ready (queued), held (claimed), parked (waits for the user), over
  holder,     \* the handler a held run belongs to, or Nobody after it died
  delivered   \* completion messages delivered

vars == <<phase, holder, delivered>>

Init ==
  /\ phase = [r \in Run |-> "new"]
  /\ holder = [r \in Run |-> Nobody]
  /\ delivered = [r \in Run |-> 0]

Move(r, to, who) ==
  /\ phase' = [phase EXCEPT ![r] = to]
  /\ holder' = [holder EXCEPT ![r] = who]

Submit(r) == phase[r] = "new" /\ Move(r, "ready", Nobody) /\ UNCHANGED delivered

\* A handler takes a run that waits, or that its previous handler lost.
Claim(w, r) ==
  /\ phase[r] \in {"ready", "parked", "held"}
  /\ holder[r] # w
  /\ Move(r, "held", w)
  /\ UNCHANGED delivered

\* The handler dies or gives up; the run stays held until somebody claims it.
Lose(w, r) ==
  /\ phase[r] = "held" /\ holder[r] = w
  /\ Move(r, "held", Nobody)
  /\ UNCHANGED delivered

HandBack(w, r) ==
  /\ phase[r] = "held" /\ holder[r] = w
  /\ Move(r, "ready", Nobody)
  /\ UNCHANGED delivered

Park(w, r) ==
  /\ phase[r] = "held" /\ holder[r] = w
  /\ Move(r, "parked", Nobody)
  /\ UNCHANGED delivered

Deliver(w, r) ==
  /\ phase[r] = "held" /\ holder[r] = w
  /\ Move(r, "over", Nobody)
  /\ \E n \in {0, 1} : delivered' = [delivered EXCEPT ![r] = @ + n]

Resume(r) == phase[r] = "parked" /\ Move(r, "ready", Nobody) /\ UNCHANGED delivered

\* Users end any set of runs at once; a run that is over stays over.
End(S) ==
  /\ \A r \in S : phase[r] # "new"
  /\ phase' = [r \in Run |-> IF r \in S THEN "over" ELSE phase[r]]
  /\ holder' = [r \in Run |-> IF r \in S THEN Nobody ELSE holder[r]]
  /\ UNCHANGED delivered

Next ==
  \/ \E r \in Run : Submit(r) \/ Resume(r)
  \/ \E w \in Worker, r \in Run :
       Claim(w, r) \/ Lose(w, r) \/ HandBack(w, r) \/ Park(w, r) \/ Deliver(w, r)
  \/ \E S \in SUBSET Run : End(S)

Spec == Init /\ [][Next]_vars
=============================================================================
