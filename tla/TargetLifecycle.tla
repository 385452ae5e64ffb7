--------------------------- MODULE TargetLifecycle ---------------------------
(***************************************************************************)
(* What the pipeline promises about one target job, whatever the queue,    *)
(* the leases and the workers do: every stage is performed once and in     *)
(* order, a failed stage is tried again at most MaxAttempts times and then *)
(* resumed where it stopped, nobody but a reviewer leaves review, and a    *)
(* target that is being cancelled performs no further stage and ends       *)
(* cancelled.  This is the state chart of docs/architecture.md section 8   *)
(* with RETRY_WAIT folded into the stage that is waiting.                  *)
(***************************************************************************)
EXTENDS Naturals

CONSTANTS Targets, LipSync, MaxAttempts, None

VARIABLES
    phase,   \* "running", "cancelling", "review", "complete", ...
    owed,    \* the stage to perform next while running, else None
    tries    \* the attempt at that stage, 0 when nothing is owed

lifecycle == <<phase, owed, tries>>

StageOrder == {<<"TRANSLATING", "SYNTHESIZING">>, <<"SYNTHESIZING", "TIMING">>,
               <<"LIP_SYNCING", "MIXING">>, <<"MIXING", "ENCODING">>,
               <<"ENCODING", "TARGET_QA">>}

\* Lip sync sits between timing and mixing where the target asks for it.
Follows(t, s, next) ==
    \/ <<s, next>> \in StageOrder
    \/ s = "TIMING" /\ next = "LIP_SYNCING" /\ t \in LipSync
    \/ s = "TIMING" /\ next = "MIXING" /\ t \notin LipSync

\* Where a reviewer may send a target back to.
Restarts(t) == {"TRANSLATING", "SYNTHESIZING", "TIMING"}
                 \cup (IF t \in LipSync THEN {"LIP_SYNCING"} ELSE {})

Stages == {"TRANSLATING", "SYNTHESIZING", "TIMING", "LIP_SYNCING", "MIXING",
           "ENCODING", "TARGET_QA", "PACKAGING"}

Init == /\ phase = [t \in Targets |-> "running"]
        /\ owed  = [t \in Targets |-> "TRANSLATING"]
        /\ tries = [t \in Targets |-> 1]

Become(t, p, s, n) == /\ phase' = [phase EXCEPT ![t] = p]
                      /\ owed'  = [owed EXCEPT ![t] = s]
                      /\ tries' = [tries EXCEPT ![t] = n]

Running(t, s) == phase[t] = "running" /\ owed[t] = s

\* A stage is done: the next one in order is owed.
Perform(t, next) == /\ phase[t] = "running" /\ Follows(t, owed[t], next)
                    /\ Become(t, "running", next, 1)

\* Quality control sends the target to its reviewers, or lets it pass.
Judge(t) == /\ Running(t, "TARGET_QA")
            /\ \/ Become(t, "review", None, 0)
               \/ Become(t, "running", "PACKAGING", 1)

Deliver(t) == Running(t, "PACKAGING") /\ Become(t, "complete", None, 0)

Retry(t) == /\ phase[t] = "running" /\ tries[t] < MaxAttempts
            /\ Become(t, "running", owed[t], tries[t] + 1)

Fail(t) == phase[t] = "running" /\ Become(t, "failed", None, 0)

Approve(t) == phase[t] = "review" /\ Become(t, "running", "PACKAGING", 1)

SendBack(t, s) == /\ phase[t] = "review" /\ s \in Restarts(t)
                  /\ Become(t, "running", s, 1)

\* A job's targets are cancelled together; work under way is let finish.
Cancel(S) ==
    \E underWay \in SUBSET S :
        /\ \A t \in S : phase[t] \in {"running", "review", "cancelling"}
        /\ \A t \in underWay : phase[t] \in {"running", "cancelling"}
        /\ \A t \in S : phase[t] = "cancelling" => t \in underWay
        /\ phase' = [t \in Targets |->
              IF t \in underWay THEN "cancelling"
              ELSE IF t \in S THEN "cancelled" ELSE phase[t]]
        /\ owed'  = [t \in Targets |-> IF t \in S THEN None ELSE owed[t]]
        /\ tries' = [t \in Targets |-> IF t \in S THEN 0 ELSE tries[t]]

FinishCancel(t) == /\ phase[t] = "cancelling"
                   /\ Become(t, "cancelled", None, 0)

Next ==
    \/ \E t \in Targets :
          \/ \E s \in Stages : Perform(t, s) \/ SendBack(t, s)
          \/ Judge(t)   \/ Deliver(t) \/ Retry(t)
          \/ Fail(t)    \/ Approve(t) \/ FinishCancel(t)
    \/ \E S \in SUBSET Targets : Cancel(S)

Spec == Init /\ [][Next]_lifecycle
==============================================================================
