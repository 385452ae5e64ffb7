---------------------------- MODULE JobCompletion ----------------------------
(***************************************************************************)
(* The end of one localization job: the transactions that bring its        *)
(* targets to rest, side by side.  Elsewhere a handler is one action; here *)
(* it is taken apart, because what these handlers read of each other's     *)
(* rows is not protected by the locks they take.                           *)
(*                                                                         *)
(*   applyTargetResult (orchestrator/local.ts) locks the target's row,     *)
(*     writes its new state and, after a packaging that succeeded, calls   *)
(*     settleParentJob: read the states of all targets, and if every one   *)
(*     is terminal update the job's row.                                   *)
(*   JobsService.cancel (services/jobs.ts) locks the job's row, then every *)
(*     target's row, and writes them all.                                  *)
(*                                                                         *)
(* Transactions run at READ COMMITTED (db/pool.ts): a read sees what is    *)
(* committed at that moment, and the transaction's own writes.  A row lock *)
(* is held to the end of its transaction; waiting in a circle is broken by *)
(* the database, which aborts one of those who wait.                       *)
(*                                                                         *)
(* A target here is being packaged or under review; the stages before      *)
(* packaging end in the same transactions and are left out, as is the      *)
(* waiting for a retry (TargetPipeline has both).                          *)
(***************************************************************************)
EXTENDS JobStates

CONSTANTS Targets,   \* the targets of the job
          CancelTx,  \* the transaction of a cancel request
          Nobody     \* no transaction

\* A result's transaction is named after its target.
ASSUME CompletionAssumption ==
    CancelTx \notin Targets /\ Nobody \notin Targets /\ Nobody # CancelTx

VARIABLES
    state,       \* target_jobs.state, as committed
    completed,   \* localization_jobs.completed_at IS NOT NULL, as committed
    report,      \* where the transaction of the target's result stands
    saw,         \* the target's state as that transaction has read it
    cancel,      \* where the transaction of the cancel request stands
    cancelSaw,   \* each target's state as the cancel has read it
    lock,        \* who holds the row lock of each target
    jobLock      \* who holds the row lock of the job

vars == <<state, completed, report, saw, cancel, cancelSaw, lock, jobLock>>

States == TerminalStates \cup {"PACKAGING", "NEEDS_REVIEW", "CANCEL_REQUESTED"}

ReportSteps == {"none", "read", "wrote COMPLETE", "wants job", "settles job",
                "leaves job"}

Init ==
    /\ state \in [Targets -> {"PACKAGING", "NEEDS_REVIEW"}]
    /\ completed = FALSE
    /\ report = [t \in Targets |-> "none"]
    /\ saw = state
    /\ cancel = "none"
    /\ cancelSaw = state
    /\ lock = [t \in Targets |-> Nobody]
    /\ jobLock = Nobody

At(t, step) == report[t] = step

Becomes(t, step) == report' = [report EXCEPT ![t] = step]

\* The transaction of t's result ends with t in state `to`.
Commit(t, to) ==
    /\ state' = [state EXCEPT ![t] = to]
    /\ lock' = [lock EXCEPT ![t] = Nobody]
    /\ Becomes(t, "none")

-----------------------------------------------------------------------------
(* POST /tasks/:id/result of a packaging. *)

\* loadTarget: SELECT ... FOR UPDATE waits for the row's lock and then sees
\* the row as last committed.
LockTarget(t) ==
    /\ At(t, "none") /\ state[t] \in {"PACKAGING", "CANCEL_REQUESTED"}
    /\ lock[t] = Nobody
    /\ lock' = [lock EXCEPT ![t] = t]
    /\ saw' = [saw EXCEPT ![t] = state[t]]
    /\ Becomes(t, "read")
    /\ UNCHANGED <<state, completed, cancel, cancelSaw, jobLock>>

\* A plausible bug: the result of a target being cancelled is refused.
EndUnlessCancelled(t) ==
    /\ At(t, "read") /\ saw[t] # "CANCEL_REQUESTED"
    /\ Commit(t, "FAILED")
    /\ UNCHANGED <<completed, saw, cancel, cancelSaw, jobLock>>

\* A plausible bug: a result that is not a success fails the target, whether
\* it was being cancelled or not.
EndAsFailed(t) ==
    /\ At(t, "read")
    /\ Commit(t, "FAILED")
    /\ UNCHANGED <<completed, saw, cancel, cancelSaw, jobLock>>

\* Outcomes that end the transaction without a look at the job: the target
\* was being cancelled, or its packaging failed.
EndWithoutJob(t) ==
    /\ At(t, "read")
    /\ Commit(t, IF saw[t] = "CANCEL_REQUESTED" THEN "CANCELLED" ELSE "FAILED")
    /\ UNCHANGED <<completed, saw, cancel, cancelSaw, jobLock>>

\* transitionTarget(COMPLETE), visible to nobody else before the commit.
WriteComplete(t) ==
    /\ At(t, "read") /\ saw[t] = "PACKAGING"
    /\ Becomes(t, "wrote COMPLETE")
    /\ UNCHANGED <<state, completed, saw, cancel, cancelSaw, lock, jobLock>>

\* A plausible bug: the test of the concurrency quota, for which a target under
\* review does not count as running.
NoneIsRunning(t) ==
    \A u \in Targets \ {t} : state[u] \in TerminalStates \cup {"NEEDS_REVIEW"}

\* Every target is done in the eyes of t's transaction: t by its own write,
\* the others as far as they have committed.
AllTargetsDone(t) == \A u \in Targets \ {t} : state[u] \in TerminalStates

\* settleParentJob reads the targets without locking them ...
ReadTargets(t) ==
    /\ At(t, "wrote COMPLETE")
    /\ Becomes(t, IF AllTargetsDone(t) THEN "wants job" ELSE "leaves job")
    /\ UNCHANGED <<state, completed, saw, cancel, cancelSaw, lock, jobLock>>

\* ... and leaves the job as it is because one of them was not done,
LeaveJob(t) ==
    /\ At(t, "leaves job")
    /\ Commit(t, "COMPLETE")
    /\ UNCHANGED <<completed, saw, cancel, cancelSaw, jobLock>>

\* or updates the job's row, for which it may have to wait.
LockJob(t) ==
    /\ At(t, "wants job") /\ jobLock = Nobody
    /\ jobLock' = t
    /\ Becomes(t, "settles job")
    /\ UNCHANGED <<state, completed, saw, cancel, cancelSaw, lock>>

CommitJob(t) ==
    /\ At(t, "settles job")
    /\ Commit(t, "COMPLETE")
    /\ completed' = TRUE
    /\ jobLock' = Nobody
    /\ UNCHANGED <<saw, cancel, cancelSaw>>

-----------------------------------------------------------------------------
(* POST /localization-jobs/:id/cancel. *)

BeginCancel ==
    /\ cancel = "none" /\ jobLock = Nobody
    /\ cancel' = "locking"
    /\ jobLock' = CancelTx
    /\ UNCHANGED <<state, completed, report, saw, cancelSaw, lock>>

\* A plausible bug: the rows are read without FOR UPDATE, and written later.
CancelReads(t) ==
    /\ cancel = "locking" /\ lock[t] # CancelTx
    /\ lock' = [lock EXCEPT ![t] = CancelTx]
    /\ cancelSaw' = [cancelSaw EXCEPT ![t] = state[t]]
    /\ UNCHANGED <<state, completed, report, saw, cancel, jobLock>>

\* The targets were inserted at the same instant, so ORDER BY created_at
\* does not say in which order their rows are locked.
CancelLocks(t) ==
    /\ cancel = "locking" /\ lock[t] = Nobody
    /\ lock' = [lock EXCEPT ![t] = CancelTx]
    /\ cancelSaw' = [cancelSaw EXCEPT ![t] = state[t]]
    /\ UNCHANGED <<state, completed, report, saw, cancel, jobLock>>

\* cancelTarget: a packaging whose row a worker has claimed is waited for,
\* one still queued and a review are closed, the rest is left alone.
Cancelled(s) == IF IsWorking(s) THEN {"CANCEL_REQUESTED", "CANCELLED"}
                ELSE IF s = "NEEDS_REVIEW" THEN {"CANCELLED"} ELSE {s}

CommitCancel ==
    /\ cancel = "locking" /\ \A t \in Targets : lock[t] = CancelTx
    /\ state' \in [Targets -> States]
    /\ \A t \in Targets : state'[t] \in Cancelled(cancelSaw[t])
    /\ cancel' = "none"
    /\ lock' = [t \in Targets |-> Nobody]
    /\ jobLock' = Nobody
    /\ UNCHANGED <<completed, report, saw, cancelSaw>>

-----------------------------------------------------------------------------
(* The database: a result that wants the job's row and a cancel that wants *)
(* the result's target wait for each other; either is aborted.             *)

InCircle(t) == At(t, "wants job") /\ cancel = "locking" /\ lock[t] = t

\* The worker drops the result; the row is claimed again when its lease ends.
AbortReport(t) ==
    /\ InCircle(t)
    /\ Commit(t, state[t])
    /\ UNCHANGED <<completed, saw, cancel, cancelSaw, jobLock>>

\* The user's request fails.
AbortCancel ==
    /\ \E t \in Targets : InCircle(t)
    /\ cancel' = "none"
    /\ lock' = [t \in Targets |-> IF lock[t] = CancelTx THEN Nobody ELSE lock[t]]
    /\ jobLock' = Nobody
    /\ UNCHANGED <<state, completed, report, saw, cancelSaw>>

\* NEEDS_REVIEW -> READY -> PACKAGING: the reviewer's approval.
Approve(t) ==
    /\ state[t] = "NEEDS_REVIEW" /\ lock[t] = Nobody
    /\ state' = [state EXCEPT ![t] = "PACKAGING"]
    /\ UNCHANGED <<completed, report, saw, cancel, cancelSaw, lock, jobLock>>

ReportStep(t) ==
    \/ LockTarget(t) \/ EndWithoutJob(t) \/ WriteComplete(t) \/ ReadTargets(t)
    \/ LeaveJob(t) \/ LockJob(t) \/ CommitJob(t) \/ AbortReport(t)

Next ==
    \/ \E t \in Targets : ReportStep(t) \/ CancelLocks(t) \/ Approve(t)
    \/ BeginCancel \/ CommitCancel \/ AbortCancel

Spec == Init /\ [][Next]_vars

\* Transactions that have begun go on, and who waits for a row lock is served
\* before those who ask later; nobody has to cancel or to approve.
Fairness ==
    /\ \A t \in Targets : SF_vars(ReportStep(t)) /\ SF_vars(CancelLocks(t))
    /\ WF_vars(CommitCancel)

FairSpec == Spec /\ Fairness

-----------------------------------------------------------------------------
(* What is checked. *)

\* Every variable holds a value the rows and the transactions can have; a
\* target is never left READY between two transactions.
TypeOK ==
    /\ state \in [Targets -> States]
    /\ completed \in BOOLEAN
    /\ report \in [Targets -> ReportSteps]
    /\ saw \in [Targets -> States]
    /\ cancel \in {"none", "locking"}
    /\ cancelSaw \in [Targets -> States]
    /\ lock \in [Targets -> Targets \cup {CancelTx, Nobody}]
    /\ jobLock \in Targets \cup {CancelTx, Nobody}

\* completed_at is never set while a target can still move, although
\* settleParentJob reads the other targets without locking them.
CompletedMeansDone ==
    completed => \A t \in Targets : state[t] \in TerminalStates

\* What has come to rest is not moved again by a transaction that began
\* while it was still moving: neither a cancel nor a result overwrites an
\* outcome that was committed while it waited for the row.
DoneStaysDone ==
    [][\A t \in Targets :
          state[t] \in TerminalStates => state'[t] = state[t]]_vars

\* The only circle of transactions that wait for each other is the one above.
\* A lock is held by a transaction under way; a result that waits for the job
\* waits for one that settles it and wants nothing more, or is in that circle.
OnlyCircle ==
    /\ \A t \in Targets :
          /\ lock[t] # Nobody =>
                \/ lock[t] = t /\ report[t] # "none"
                \/ lock[t] = CancelTx /\ cancel = "locking"
          /\ At(t, "wants job") /\ jobLock # Nobody =>
                \/ InCircle(t)
                \/ \E u \in Targets : jobLock = u /\ At(u, "settles job")
    /\ jobLock = CancelTx => cancel = "locking"

\* READ COMMITTED is enough: each transaction amounts to one step on the rows as
\* they are committed, which is how TargetPipeline and TargetArtefacts take
\* these handlers.
Outcome == INSTANCE JobOutcome

ImplementsOutcome == Outcome!Spec

\* A result and a cancel that wait for each other do not keep the target
\* from its end: whoever is aborted, it completes, fails or is cancelled.
ResultsArrive ==
    \A t \in Targets :
        state[t] \in {"PACKAGING", "CANCEL_REQUESTED"}
           ~> state[t] \in TerminalStates
==============================================================================
