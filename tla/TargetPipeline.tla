--------------------------- MODULE TargetPipeline ---------------------------
(***************************************************************************)
(* The target half of the local orchestrator: target jobs, the rows of the *)
(* stage_tasks queue that drive them, and the media workers that claim,    *)
(* heartbeat and report those rows.                                        *)
(*                                                                         *)
(*   apps/api/src/orchestrator/local.ts    results, gate, cancel, restart  *)
(*   apps/api/src/orchestrator/tasks.ts    claim, lease, heartbeat, settle *)
(*   apps/api/src/services/jobs.ts         cancel and retry endpoints      *)
(*   services/media-worker/.../runner.py   the worker's loop               *)
(*                                                                         *)
(* Every HTTP handler runs in one database transaction that locks the rows *)
(* it writes (the task, then the target), so a handler is one action; what *)
(* interleaves is handlers, workers, clocks and crashes.                   *)
(*                                                                         *)
(* `tasks` holds the queued and claimed rows only.  A settled row is never *)
(* read again by the code except to find that it is not 'claimed', which   *)
(* is what a missing row says here; its id is a UUID and is not reused as  *)
(* long as anybody remembers it (Fresh).  Claiming takes any runnable row: *)
(* which of them is the oldest is abstracted.  What the gate and the       *)
(* reviewers look at (approvals, issues) is abstracted to a choice.        *)
(***************************************************************************)
EXTENDS Naturals, JobStates

CONSTANTS
    Targets,       \* target jobs (one per locale)
    Jobs,          \* localization jobs
    JobOf,         \* the job each target belongs to
    LipSync,       \* targets with lip_sync set (never set without video)
    Workers,       \* media worker processes
    TaskIds,       \* ids of stage_tasks rows
    MaxAttempts,   \* TASK_MAX_ATTEMPTS
    MaxFaults,     \* bound: stalled leases and lost results in a behaviour
    None

TaskRow == [status : {"queued", "claimed"}, target : Targets,
            stage : TargetStages, attempt : 1..MaxAttempts, due : BOOLEAN,
            claimedBy : Workers \cup {None}, expired : BOOLEAN]

ASSUME PipelineAssumption ==
    /\ JobOf \in [Targets -> Jobs]
    /\ LipSync \subseteq Targets
    /\ MaxAttempts \in Nat \ {0}
    /\ MaxFaults \in Nat
    /\ None \notin TaskIds \cup Workers \cup TaskRow

VARIABLES
    state,      \* target_jobs.state
    attempt,    \* target_jobs.attempt
    tasks,      \* stage_tasks: id -> row, or None
    holding,    \* worker -> id of the task it is executing, or None
    faults      \* stalls and losses so far

vars == <<state, attempt, tasks, holding, faults>>

-----------------------------------------------------------------------------
Live == {id \in TaskIds : tasks[id] # None}

LiveOf(t) == {id \in Live : tasks[id].target = t}

HasInFlightTask(t) == \E id \in LiveOf(t) : tasks[id].status = "claimed"

Fresh(id) == tasks[id] = None /\ \A w \in Workers : holding[w] # id

\* The row enqueueTask inserts; `due` is whether not_before has passed.
NewTask(t, stage, n, due) ==
    [status |-> "queued", target |-> t, stage |-> stage, attempt |-> n,
     due |-> due, claimedBy |-> None, expired |-> FALSE]

Settle(id) == tasks' = [tasks EXCEPT ![id] = None]

Enqueue(row) == \E new \in TaskIds :
    Fresh(new) /\ tasks' = [tasks EXCEPT ![new] = row]

\* A plausible bug: the next row is enqueued and the old one forgotten.
EnqueueOnly(id, row) == id \in TaskIds /\ Enqueue(row)

SettleAndEnqueue(id, row) == \E new \in TaskIds :
    Fresh(new) /\ tasks' = [tasks EXCEPT ![id] = None, ![new] = row]

TransitionTarget(t, to) == state' = [state EXCEPT ![t] = to]

\* startTargets: the job's transaction inserts every target in TRANSLATING
\* with one queued task.
Init ==
    /\ state = [t \in Targets |-> "TRANSLATING"]
    /\ attempt = [t \in Targets |-> 0]
    /\ \E first \in [Targets -> TaskIds] :
        /\ \A t, u \in Targets : first[t] = first[u] => t = u
        /\ tasks = [id \in TaskIds |->
              IF \E t \in Targets : first[t] = id
              THEN NewTask(CHOOSE t \in Targets : first[t] = id,
                           "TRANSLATING", 1, TRUE)
              ELSE None]
    /\ holding = [w \in Workers |-> None]
    /\ faults = 0

-----------------------------------------------------------------------------
(* The queue and the workers' hold on it. *)

\* A plausible bug: rows whose worker died are never handed out again.
RunnableQueuedOnly(row) == row.status = "queued" /\ row.due

Runnable(row) == \/ row.status = "queued" /\ row.due
                 \/ row.status = "claimed" /\ row.expired

\* claimTask: an idle worker takes a runnable row, expired leases included.
\* The target is not touched: it stays in RETRY_WAIT while its retry runs.
Claim(w, id) ==
    /\ holding[w] = None
    /\ id \in Live /\ Runnable(tasks[id])
    /\ tasks' = [tasks EXCEPT ![id] = [@ EXCEPT !.status = "claimed",
                                                !.claimedBy = w,
                                                !.expired = FALSE]]
    /\ holding' = [holding EXCEPT ![w] = id]
    /\ UNCHANGED <<state, attempt, faults>>

\* A plausible bug: any worker that ever held the row may still report it.
OwnsAnyClaim(w) == holding[w] \in Live /\ tasks[holding[w]].status = "claimed"

\* The row is claimed and claimed_by is this worker.
Owns(w) == /\ holding[w] \in Live
           /\ tasks[holding[w]].status = "claimed"
           /\ tasks[holding[w]].claimedBy = w

\* heartbeatTask renews the lease of the row's owner, also one already past
\* its deadline; a beat for a row somebody else has claimed changes nothing.
Heartbeat(w) ==
    /\ Owns(w) /\ tasks[holding[w]].expired
    /\ tasks' = [tasks EXCEPT ![holding[w]].expired = FALSE]
    /\ UNCHANGED <<state, attempt, holding, faults>>

\* lease_until passes because nobody beats for the row any more.
LeaseAbandoned(id) ==
    /\ id \in Live /\ tasks[id].status = "claimed" /\ ~tasks[id].expired
    /\ holding[tasks[id].claimedBy] # id
    /\ tasks' = [tasks EXCEPT ![id].expired = TRUE]
    /\ UNCHANGED <<state, attempt, holding, faults>>

\* lease_until passes while the owner still works: its beats are late.
LeaseStalls(id) ==
    /\ id \in Live /\ tasks[id].status = "claimed" /\ ~tasks[id].expired
    /\ holding[tasks[id].claimedBy] = id
    /\ faults < MaxFaults
    /\ faults' = faults + 1
    /\ tasks' = [tasks EXCEPT ![id].expired = TRUE]
    /\ UNCHANGED <<state, attempt, holding>>

\* The worker dies, or its POST of the result fails and run_loop drops it.
LoseResult(w) ==
    /\ holding[w] # None
    /\ faults < MaxFaults
    /\ faults' = faults + 1
    /\ holding' = [holding EXCEPT ![w] = None]
    /\ UNCHANGED <<state, attempt, tasks>>

\* not_before of a waiting retry passes.
BackoffElapses(id) ==
    /\ id \in Live /\ tasks[id].status = "queued" /\ ~tasks[id].due
    /\ tasks' = [tasks EXCEPT ![id].due = TRUE]
    /\ UNCHANGED <<state, attempt, holding, faults>>

-----------------------------------------------------------------------------
(* POST /tasks/:id/result.  In every case the worker goes back to polling. *)

Reported(w) == holding' = [holding EXCEPT ![w] = None] /\ UNCHANGED faults

\* The row is settled already or belongs to another worker by now.
DiscardResult(w) ==
    /\ holding[w] # None /\ ~Owns(w)
    /\ Reported(w)
    /\ UNCHANGED <<state, attempt, tasks>>

\* Whatever the outcome, a cancelled target's result ends in CANCELLED.
CancelledResult(w) ==
    /\ Owns(w)
    /\ LET id == holding[w]  t == tasks[id].target IN
        /\ state[t] = "CANCEL_REQUESTED"
        /\ Settle(id)
        /\ TransitionTarget(t, "CANCELLED")
    /\ Reported(w) /\ UNCHANGED attempt

\* A retryable failure with attempts left, from a state that may wait.
RetryResult(w) ==
    /\ Owns(w)
    /\ LET id == holding[w]  row == tasks[id]  t == row.target IN
        /\ state[t] # "CANCEL_REQUESTED"
        /\ row.attempt < MaxAttempts
        /\ CanTransition(state[t], "RETRY_WAIT")
        /\ SettleAndEnqueue(id, NewTask(t, row.stage, row.attempt + 1, FALSE))
        /\ TransitionTarget(t, "RETRY_WAIT")
        /\ attempt' = [attempt EXCEPT ![t] = row.attempt + 1]
    /\ Reported(w)

\* A failure that is not retryable, or (any failure) on the last attempt.
FailedResult(w) ==
    /\ Owns(w)
    /\ LET id == holding[w]  t == tasks[id].target IN
        /\ state[t] # "CANCEL_REQUESTED"
        /\ CanTransition(state[t], "FAILED")
        /\ Settle(id)
        /\ TransitionTarget(t, "FAILED")
    /\ Reported(w) /\ UNCHANGED attempt

\* Success of a stage that is followed by another one.
StageResult(w) ==
    /\ Owns(w)
    /\ LET id == holding[w]  row == tasks[id]  t == row.target
           next == NextStage(t \in LipSync, row.stage) IN
        /\ state[t] # "CANCEL_REQUESTED"
        /\ next \in TargetStages
        /\ CanTransition(state[t], next)
        /\ SettleAndEnqueue(id, NewTask(t, next, 1, TRUE))
        /\ TransitionTarget(t, next)
    /\ Reported(w) /\ UNCHANGED attempt

\* A plausible bug: the gate is reached before the cancel flag is looked at.
GateIgnoresCancel(w) ==
    /\ Owns(w)
    /\ LET id == holding[w]  t == tasks[id].target IN
        /\ tasks[id].stage = "TARGET_QA"
        /\ Settle(id)
        /\ TransitionTarget(t, "NEEDS_REVIEW")
    /\ Reported(w) /\ UNCHANGED attempt

\* Success of TARGET_QA enters readyGate, which transitions from TARGET_QA
\* whatever the row says: to review, or through READY into packaging.
GateResult(w) ==
    /\ Owns(w)
    /\ LET id == holding[w]  t == tasks[id].target IN
        /\ state[t] # "CANCEL_REQUESTED"
        /\ tasks[id].stage = "TARGET_QA"
        /\ \/ /\ Settle(id)
              /\ TransitionTarget(t, "NEEDS_REVIEW")
           \/ /\ SettleAndEnqueue(id, NewTask(t, "PACKAGING", 1, TRUE))
              /\ TransitionTarget(t, "PACKAGING")
    /\ Reported(w) /\ UNCHANGED attempt

\* Success of PACKAGING completes the target.
PackagedResult(w) ==
    /\ Owns(w)
    /\ LET id == holding[w]  t == tasks[id].target IN
        /\ state[t] # "CANCEL_REQUESTED"
        /\ tasks[id].stage = "PACKAGING"
        /\ CanTransition(state[t], "COMPLETE")
        /\ Settle(id)
        /\ TransitionTarget(t, "COMPLETE")
    /\ Reported(w) /\ UNCHANGED attempt

\* The states the three kinds of outcome would transition to.
Destinations(row) ==
    {"FAILED"} \cup (IF row.attempt < MaxAttempts THEN {"RETRY_WAIT"} ELSE {})
      \cup ({NextStage(row.target \in LipSync, row.stage)}
               \ {"NEEDS_REVIEW_GATE"})

\* The transition table refuses: IllegalTransitionError rolls the whole
\* transaction back, the row stays claimed and the worker drops the result.
RejectedResult(w) ==
    /\ Owns(w)
    /\ LET row == tasks[holding[w]] IN
        /\ state[row.target] # "CANCEL_REQUESTED"
        /\ \E to \in Destinations(row) : ~CanTransition(state[row.target], to)
    /\ Reported(w)
    /\ UNCHANGED <<state, attempt, tasks>>

ReportResult(w) ==
    \/ DiscardResult(w)  \/ CancelledResult(w) \/ RetryResult(w)
    \/ FailedResult(w)   \/ StageResult(w)     \/ GateResult(w)
    \/ PackagedResult(w) \/ RejectedResult(w)

-----------------------------------------------------------------------------
(* Users. *)

\* Plausible bugs: not looking for work in flight, and always waiting for it.
CancelAtOnce(t) ==
    IF IsWorking(state[t]) \/ state[t] \in {"RETRY_WAIT", "NEEDS_REVIEW"}
    THEN "CANCELLED" ELSE state[t]

CancelAlwaysWaits(t) ==
    IF IsWorking(state[t]) \/ state[t] = "RETRY_WAIT" THEN "CANCEL_REQUESTED"
    ELSE IF state[t] = "NEEDS_REVIEW" THEN "CANCELLED" ELSE state[t]

\* cancelTarget, after the target's queued rows have been cancelled.
CancelOutcome(t) ==
    IF IsWorking(state[t]) \/ state[t] = "RETRY_WAIT"
    THEN IF HasInFlightTask(t) THEN "CANCEL_REQUESTED" ELSE "CANCELLED"
    ELSE IF state[t] \in {"QUEUED", "NEEDS_REVIEW", "READY",
                          "READY_TO_CONFIGURE"}
    THEN "CANCELLED"
    ELSE state[t]

\* POST /localization-jobs/:id/cancel: every target of the job at once.
Cancel(j) ==
    /\ tasks' = [id \in TaskIds |->
          IF /\ id \in Live /\ tasks[id].status = "queued"
             /\ JobOf[tasks[id].target] = j
          THEN None ELSE tasks[id]]
    /\ state' = [t \in Targets |->
          IF JobOf[t] = j THEN CancelOutcome(t) ELSE state[t]]
    /\ UNCHANGED <<attempt, holding, faults>>

\* POST /target-jobs/:id/retry: the waiting retry becomes due now.
RetryTarget(t) ==
    /\ state[t] = "RETRY_WAIT"
    /\ tasks' = [id \in TaskIds |->
          IF id \in LiveOf(t) /\ tasks[id].status = "queued"
          THEN [tasks[id] EXCEPT !.due = TRUE] ELSE tasks[id]]
    /\ UNCHANGED <<state, attempt, holding, faults>>

\* The approval that satisfies the gate: NEEDS_REVIEW -> READY -> PACKAGING.
Approve(t) ==
    /\ state[t] = "NEEDS_REVIEW"
    /\ Enqueue(NewTask(t, "PACKAGING", 1, TRUE))
    /\ TransitionTarget(t, "PACKAGING")
    /\ UNCHANGED <<attempt, holding, faults>>

\* A reviewer regenerates an artefact; the pipeline restarts at its stage.
Regenerate(t, kind) ==
    /\ state[t] = "NEEDS_REVIEW"
    /\ kind = "lipsync" => t \in LipSync
    /\ Enqueue(NewTask(t, RestartState(kind), 1, TRUE))
    /\ TransitionTarget(t, RestartState(kind))
    /\ UNCHANGED <<attempt, holding, faults>>

-----------------------------------------------------------------------------
QueueStep == \E id \in TaskIds :
    \/ \E w \in Workers : Claim(w, id)
    \/ LeaseAbandoned(id) \/ LeaseStalls(id) \/ BackoffElapses(id)

WorkerStep == \E w \in Workers :
    Heartbeat(w) \/ LoseResult(w) \/ ReportResult(w)

UserStep ==
    \/ \E j \in Jobs : Cancel(j)
    \/ \E t \in Targets : RetryTarget(t) \/ Approve(t)
    \/ \E t \in Targets, kind \in RegenerateStages : Regenerate(t, kind)

Next == QueueStep \/ WorkerStep \/ UserStep

Spec == Init /\ [][Next]_vars

\* Workers report what they hold, clocks advance, and a runnable row that is
\* offered to an idle worker again and again is claimed in the end, because
\* claimTask hands out the oldest one.  Users promise nothing.
Fairness ==
    /\ \A w \in Workers : WF_vars(ReportResult(w))
    /\ \A id \in TaskIds :
        /\ SF_vars(\E w \in Workers : Claim(w, id))
        /\ WF_vars(LeaseAbandoned(id))
        /\ WF_vars(BackoffElapses(id))

FairSpec == Spec /\ Fairness

-----------------------------------------------------------------------------
(* What is checked. *)

\* Every variable holds a value the code can store.  A target is only ever
\* in one of the states its own pipeline and its exceptions name: READY is
\* passed through within a transaction and never seen.
TypeOK ==
    /\ state \in [Targets -> TargetStages \cup ExceptionStates
                               \cup {"NEEDS_REVIEW", "COMPLETE"}]
    /\ attempt \in [Targets -> 0..MaxAttempts]
    /\ tasks \in [TaskIds -> TaskRow \cup {None}]
    /\ holding \in [Workers -> TaskIds \cup {None}]
    /\ faults \in 0..MaxFaults

\* However leases expire, results repeat and users cancel, restart and retry,
\* a target never has two rows in the queue: no handler enqueues a stage
\* while the row of another one could still be claimed (FR-050).
OneLiveTask == \A t \in Targets : \A a, b \in LiveOf(t) : a = b

\* The row that a target in a working, waiting or cancelling state needs in
\* order ever to leave that state.
Drives(id, t) ==
    /\ id \in LiveOf(t)
    /\ \/ state[t] = tasks[id].stage /\ tasks[id].attempt = 1
       \/ /\ state[t] = "RETRY_WAIT"
          /\ tasks[id].attempt = attempt[t] /\ attempt[t] > 1
       \/ state[t] = "CANCEL_REQUESTED" /\ tasks[id].status = "claimed"

AtRest == {"NEEDS_REVIEW", "COMPLETE", "FAILED", "CANCELLED"}

\* The target's state and the queue agree although they are two tables: a
\* working target has the row of exactly that stage, a waiting one the row
\* of the attempt its `attempt` column names, a cancelling one a row some
\* worker has claimed; a target at rest has none, so nothing a worker still
\* does can move it.
QueueMatchesState ==
    \A t \in Targets :
        \/ state[t] \in AtRest /\ LiveOf(t) = {}
        \/ \E id \in TaskIds : Drives(id, t)

\* The row's claimant of this moment reports it and thereby settles it.
OwnerReports(t) ==
    \E w \in Workers, id \in LiveOf(t) :
        /\ tasks[id].status = "claimed" /\ tasks[id].claimedBy = w
        /\ holding[w] = id /\ holding'[w] = None
        /\ tasks'[id] = None

\* Besides a cancel, only a result moves a target that has work under way,
\* and only if it comes from the worker the row names at that moment: a
\* worker whose lease was reassigned meanwhile, or whose row is settled, can
\* no longer move anything (the guards of applyResult).
OnlyTheOwnerMoves ==
    [][\A t \in Targets :
          state'[t] # state[t] =>
             \/ state[t] = "NEEDS_REVIEW"
             \/ state'[t] \in {"CANCEL_REQUESTED", "CANCELLED"}
                /\ state[t] # "CANCEL_REQUESTED"
             \/ OwnerReports(t)]_vars

(***************************************************************************)
(* The pipeline implements the life cycle promised to a user: the columns  *)
(* of the target and its row in the queue together are the abstract state. *)
(***************************************************************************)
Phase(t) ==
    CASE state[t] \in TargetStages \cup {"RETRY_WAIT"} -> "running"
      [] state[t] = "CANCEL_REQUESTED" -> "cancelling"
      [] state[t] = "NEEDS_REVIEW"     -> "review"
      [] state[t] = "COMPLETE"         -> "complete"
      [] state[t] = "FAILED"           -> "failed"
      [] OTHER                         -> "cancelled"

TheTask(t) == tasks[CHOOSE id \in TaskIds : id \in LiveOf(t)]

Owed(t)  == IF Phase(t) = "running" THEN TheTask(t).stage ELSE None
Tries(t) == IF Phase(t) = "running" THEN TheTask(t).attempt ELSE 0

Lifecycle == INSTANCE TargetLifecycle WITH
    phase <- [t \in Targets |-> Phase(t)],
    owed  <- [t \in Targets |-> Owed(t)],
    tries <- [t \in Targets |-> Tries(t)]

\* Every stage is performed once and in order, is tried at most MaxAttempts
\* times, and what was cancelled, failed or completed stays so, although two
\* workers may be executing the same row and both report it.
ImplementsLifecycle == Lifecycle!Spec

\* A cancel is always carried through: the state CANCEL_REQUESTED is left
\* for CANCELLED even if the worker that held the row is never heard again.
CancelCompletes ==
    \A t \in Targets :
        state[t] = "CANCEL_REQUESTED" ~> state[t] = "CANCELLED"

\* The stages in S are what the target is working on or waiting to retry.
BusyWith(t, S) ==
    /\ Phase(t) = "running"
    /\ \E id \in LiveOf(t) : tasks[id].stage \in S

\* Retries end: a target does not stay for ever in the stages before
\* packaging, it is reviewed, fails or is cancelled ("retry with backoff ->
\* RETRY_WAIT -> FAILED", docs/traceability.md:64).
RetriesEnd ==
    \A t \in Targets :
        LET before == BusyWith(t, TargetStages \ {"PACKAGING"})
        IN  before ~> ~before
==============================================================================
