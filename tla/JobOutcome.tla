------------------------------ MODULE JobOutcome ------------------------------
(***************************************************************************)
(* What the end of a job comes to, seen from its committed rows: however   *)
(* results and cancels interleave, each of them is one step that finds the *)
(* targets as they are and moves them, or does nothing.  This is how the   *)
(* other modules take a handler; JobCompletion takes it apart.  One thing  *)
(* is left open: of two results that end a job side by side neither may    *)
(* see that the other is done, so the job may stay uncompleted.            *)
(***************************************************************************)
CONSTANT Targets

VARIABLES
    state,      \* of each target: being packaged, reviewed, cancelled, or at rest
    completed   \* whether the job has been marked as completed

rows == <<state, completed>>

AtRest(t) == state[t] \in {"COMPLETE", "FAILED", "CANCELLED"}

Init == /\ state \in [Targets -> {"PACKAGING", "NEEDS_REVIEW"}]
        /\ completed = FALSE

Becomes(t, to) == state' = [state EXCEPT ![t] = to]

Approve(t) == /\ state[t] = "NEEDS_REVIEW" /\ Becomes(t, "PACKAGING")
              /\ UNCHANGED completed

\* Only the result that finds all other targets at rest may complete the job.
Deliver(t) == /\ state[t] = "PACKAGING" /\ Becomes(t, "COMPLETE")
              /\ \/ UNCHANGED completed
                 \/ (\A u \in Targets \ {t} : AtRest(u)) /\ completed' = TRUE

Fail(t) == /\ state[t] = "PACKAGING" /\ Becomes(t, "FAILED")
           /\ UNCHANGED completed

FinishCancel(t) == /\ state[t] = "CANCEL_REQUESTED" /\ Becomes(t, "CANCELLED")
                   /\ UNCHANGED completed

\* All targets at once; packagings a worker is busy with are let finish.
Cancel ==
    /\ \E underWay \in SUBSET {t \in Targets : state[t] = "PACKAGING"} :
         state' = [t \in Targets |->
            IF t \in underWay THEN "CANCEL_REQUESTED"
            ELSE IF state[t] \in {"PACKAGING", "NEEDS_REVIEW"} THEN "CANCELLED"
            ELSE state[t]]
    /\ UNCHANGED completed

Next ==
    \/ \E t \in Targets : Approve(t) \/ Deliver(t) \/ Fail(t) \/ FinishCancel(t)
    \/ Cancel

Spec == Init /\ [][Next]_rows
==============================================================================
