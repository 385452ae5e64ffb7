------------------------------ MODULE JobLedger ------------------------------
(***************************************************************************)
(* What the creation of localization jobs comes to, seen from what is      *)
(* committed: a job is made in one step that finds its key unused and,     *)
(* unless two creations have read side by side, the budget and the quota   *)
(* of that moment sufficient; a wizard learns of one job, its own, at      *)
(* once or later.  Of money and of running targets there is one number     *)
(* each here: what is committed must add up to them.                       *)
(***************************************************************************)
EXTENDS Naturals

CONSTANTS
    Wizards, Names,    \* a key is named after its wizard
    Selections, Durations,
    High,              \* what a selection may cost of a source: High[m][c]
    Size,              \* how many targets a selection has
    Budget, MaxConcurrent, None

VARIABLES
    jobs,       \* name -> [key, targets, minutes]
    reserved,   \* the cents reserved this month
    active,     \* the number of targets that run
    minutes,    \* the length of the source
    told,       \* the job a wizard has heard of
    raced, regained   \* whether creations overlapped, or a target came back

ledger == <<jobs, reserved, active, minutes, told, raced, regained>>

Init == /\ jobs = [r \in {} |-> None] /\ reserved = 0 /\ active = 0
        /\ minutes \in Durations
        /\ told = [w \in Wizards |-> None]
        /\ raced = FALSE /\ regained = FALSE

\* A wizard that has heard of no job yet hears of r.
Hears(w, r) == told[w] = None /\ told' = [told EXCEPT ![w] = r]

Unused(w) == \A r \in DOMAIN jobs : jobs[r].key # w

Affordable(c) ==
    ~raced => /\ reserved + High[minutes][c] <= Budget
              /\ ~regained => active + Size[c] <= MaxConcurrent

\* One step, whatever was read before; the answer may be lost.
Create(r, w, c) ==
    /\ r \notin DOMAIN jobs /\ Unused(w)
    /\ jobs' = [s \in DOMAIN jobs \cup {r} |-> IF s = r
           THEN [key |-> w, targets |-> c, minutes |-> minutes] ELSE jobs[s]]
    /\ Affordable(c)
    /\ reserved' = reserved + High[minutes][c]
    /\ active' = active + Size[c]
    /\ Hears(w, r) \/ UNCHANGED told
    /\ UNCHANGED <<minutes, raced, regained>>

\* The answer of a later request with the same key.
Tell(r) == /\ r \in DOMAIN jobs /\ Hears(jobs[r].key, r)
           /\ UNCHANGED <<jobs, reserved, active, minutes, raced, regained>>

\* Two creations read the budget before either has committed.
Overlap == /\ raced' = TRUE
           /\ UNCHANGED <<jobs, reserved, active, minutes, told, regained>>

Rest == /\ active > 0 /\ active' = active - 1
        /\ UNCHANGED <<jobs, reserved, minutes, told, raced, regained>>

Return == /\ active' = active + 1 /\ regained' = TRUE
          /\ UNCHANGED <<jobs, reserved, minutes, told, raced>>

Replace == /\ minutes' \in Durations
           /\ UNCHANGED <<jobs, reserved, active, told, raced, regained>>

Next ==
    \/ \E r \in Names, w \in Wizards, c \in Selections : Create(r, w, c)
    \/ \E r \in Names : Tell(r)
    \/ Overlap \/ Rest \/ Return \/ Replace

Spec == Init /\ [][Next]_ledger
==============================================================================
