------------------------ MODULE TargetPipelineProofs ------------------------
(***************************************************************************)
(* Theorems of TargetPipeline for every set of targets, jobs, workers and  *)
(* row ids and every number of attempts: the invariants by the inductive   *)
(* invariant Inv, the action property from it, and the refinement of       *)
(* TargetLifecycle.                                                        *)
(***************************************************************************)
EXTENDS TargetPipeline, TLAPS

\* The three invariants need one another: which row a target is driven by
\* says that a settled row was its only one, and that the row of a target
\* at rest does not exist is what lets a reviewer enqueue another.
Inv == TypeOK /\ OneLiveTask /\ QueueMatchesState

-----------------------------------------------------------------------------
(* Rows and stages. *)

\* NewTask builds a well-formed row.
LEMMA NewTaskType ==
    ASSUME NEW t \in Targets, NEW stage \in TargetStages,
           NEW n \in 1..MaxAttempts, NEW due \in BOOLEAN
    PROVE  /\ NewTask(t, stage, n, due) \in TaskRow
           /\ NewTask(t, stage, n, due) # None
           /\ NewTask(t, stage, n, due).target = t
           /\ NewTask(t, stage, n, due).stage = stage
           /\ NewTask(t, stage, n, due).attempt = n
<1>1. NewTask(t, stage, n, due) \in TaskRow
  BY DEF NewTask, TaskRow
<1>2. NewTask(t, stage, n, due) # None
  BY <1>1, PipelineAssumption
<1>3. QED
  BY <1>1, <1>2 DEF NewTask

\* An attempt number fits where MaxAttempts is what the assumption says.
LEMMA FirstAttempt == 1 \in 1..MaxAttempts /\ 0 \in 0..MaxAttempts
BY PipelineAssumption

\* A live row is a row.
LEMMA LiveRow ==
    ASSUME TypeOK, NEW id \in Live
    PROVE  id \in TaskIds /\ tasks[id] \in TaskRow /\ tasks[id].target \in Targets
BY DEF TypeOK, Live, TaskRow

\* The live row of a target is its only one and drives it.
LEMMA LiveDrives ==
    ASSUME Inv, NEW t \in Targets, NEW id \in LiveOf(t)
    PROVE  LiveOf(t) = {id} /\ Drives(id, t)
<1>1. \A x \in LiveOf(t) : x = id
  BY DEF Inv, OneLiveTask
<1>2. \E x \in TaskIds : Drives(x, t)
  BY DEF Inv, QueueMatchesState
<1>3. QED
  BY <1>1, <1>2 DEF Drives

\* A target under review has no row.
LEMMA ReviewIsIdle ==
    ASSUME Inv, NEW t \in Targets, state[t] = "NEEDS_REVIEW"
    PROVE  LiveOf(t) = {}
<1>1. ASSUME NEW id \in TaskIds, Drives(id, t) PROVE FALSE
  <2>1. tasks[id].stage \in TargetStages
    BY <1>1, LiveRow DEF Drives, LiveOf, Live, Inv, TypeOK, TaskRow
  <2>2. QED
    BY <1>1, <2>1 DEF Drives, TargetStages
<1>2. QED
  BY <1>1 DEF Inv, QueueMatchesState

-----------------------------------------------------------------------------
(* The ways a step may change the queue. *)

\* The rows stay the same but for their leases, and no claim is undone.
KeepsRows ==
    \A id \in TaskIds :
        /\ tasks'[id] = None <=> tasks[id] = None
        /\ tasks[id] # None =>
              /\ tasks'[id].target = tasks[id].target
              /\ tasks'[id].stage = tasks[id].stage
              /\ tasks'[id].attempt = tasks[id].attempt
              /\ tasks[id].status = "claimed" => tasks'[id].status = "claimed"

\* Such a step preserves the invariant if it leaves the targets alone.
LEMMA KeepsRowsInv ==
    ASSUME Inv, TypeOK', KeepsRows, UNCHANGED <<state, attempt>>
    PROVE  Inv'
<1>1. ASSUME NEW t \in Targets PROVE LiveOf(t)' = LiveOf(t)
  BY DEF KeepsRows, LiveOf, Live
<1>2. OneLiveTask'
  BY <1>1 DEF Inv, OneLiveTask
<1>3. ASSUME NEW t \in Targets, NEW id \in TaskIds, Drives(id, t)
      PROVE  Drives(id, t)'
  <2>1. id \in LiveOf(t) /\ id \in LiveOf(t)'
    BY <1>1, <1>3 DEF Drives
  <2>2. tasks[id] # None
    BY <2>1 DEF LiveOf, Live
  <2>3. QED
    BY <1>3, <2>1, <2>2 DEF Drives, KeepsRows
<1>4. QueueMatchesState'
  <2>1. SUFFICES ASSUME NEW t \in Targets
                 PROVE  \/ state'[t] \in AtRest /\ LiveOf(t)' = {}
                        \/ \E id \in TaskIds : Drives(id, t)'
    BY DEF QueueMatchesState
  <2>2. QED
    BY <1>1, <1>3 DEF Inv, QueueMatchesState
<1>5. QED
  BY <1>2, <1>4 DEF Inv

\* Only rows of target t change, and only t itself is moved.
OnlyConcerns(t) ==
    /\ \A id \in TaskIds :
          tasks'[id] = tasks[id]
            \/ /\ id \in LiveOf(t) \/ tasks[id] = None
               /\ tasks'[id] = None \/ tasks'[id].target = t
    /\ \A u \in Targets \ {t} : state'[u] = state[u] /\ attempt'[u] = attempt[u]

\* A step that concerns t alone preserves the invariant if it does for t.
LEMMA OnlyConcernsInv ==
    ASSUME Inv, TypeOK', NEW t \in Targets, OnlyConcerns(t),
           \A a, b \in LiveOf(t)' : a = b,
           \/ state'[t] \in AtRest /\ LiveOf(t)' = {}
           \/ \E id \in TaskIds : Drives(id, t)'
    PROVE  Inv'
<1>1. ASSUME NEW u \in Targets \ {t}, NEW id \in TaskIds
      PROVE  /\ id \in LiveOf(u)' <=> id \in LiveOf(u)
             /\ id \in LiveOf(u) => tasks'[id] = tasks[id]
  BY DEF OnlyConcerns, LiveOf, Live
<1>2. ASSUME NEW u \in Targets \ {t} PROVE LiveOf(u)' = LiveOf(u)
  BY <1>1 DEF LiveOf, Live
<1>3. OneLiveTask'
  BY <1>2 DEF Inv, OneLiveTask
<1>4. ASSUME NEW u \in Targets \ {t}, NEW id \in TaskIds, Drives(id, u)
      PROVE  Drives(id, u)'
  BY <1>1, <1>4 DEF Drives, OnlyConcerns
<1>5. QueueMatchesState'
  <2>1. SUFFICES ASSUME NEW u \in Targets
                 PROVE  \/ state'[u] \in AtRest /\ LiveOf(u)' = {}
                        \/ \E id \in TaskIds : Drives(id, u)'
    BY DEF QueueMatchesState
  <2>2. CASE u = t
    BY <2>2
  <2>3. CASE u # t
    BY <2>3, <1>2, <1>4 DEF Inv, QueueMatchesState, OnlyConcerns
  <2>4. QED
    BY <2>2, <2>3
<1>6. QED
  BY <1>3, <1>5 DEF Inv
-----------------------------------------------------------------------------
(* What each kind of result does to the target whose row is reported. *)

\* The row is settled and the target comes to rest.
LEMMA SettledInv ==
    ASSUME Inv, NEW t \in Targets, NEW id \in LiveOf(t), NEW to \in AtRest,
           Settle(id), TransitionTarget(t, to), TypeOK', UNCHANGED attempt
    PROVE  Inv'
<1>1. LiveOf(t) = {id}
  BY LiveDrives
<1>2. id \in TaskIds /\ tasks[id] # None
  BY DEF LiveOf, Live
<1>3. LiveOf(t)' = {}
  BY <1>1, <1>2 DEF Settle, LiveOf, Live, Inv, TypeOK
<1>4. state'[t] \in AtRest
  BY DEF TransitionTarget, Inv, TypeOK
<1>5. OnlyConcerns(t)
  BY <1>2 DEF OnlyConcerns, Settle, TransitionTarget, Inv, TypeOK
<1>6. QED
  BY <1>3, <1>4, <1>5, OnlyConcernsInv

\* A target without a live row, or whose only row is settled in the same
\* step, gets a new row that drives it.
LEMMA EnqueuedInv ==
    ASSUME Inv, TypeOK', NEW t \in Targets, NEW new \in TaskIds, Fresh(new),
           NEW stage \in TargetStages, NEW n \in 1..MaxAttempts,
           NEW due \in BOOLEAN, NEW to \in TargetStages \cup {"RETRY_WAIT"},
           TransitionTarget(t, to),
           tasks'[new] = NewTask(t, stage, n, due),
           \A x \in TaskIds \ {new} :
              tasks'[x] = (IF x \in LiveOf(t) THEN None ELSE tasks[x]),
           \A u \in Targets \ {t} : attempt'[u] = attempt[u],
           \/ to = stage /\ n = 1
           \/ to = "RETRY_WAIT" /\ n = attempt'[t] /\ n > 1
    PROVE  Inv'
<1>1. tasks[new] = None
  BY DEF Fresh
<1>2. /\ tasks'[new] # None /\ tasks'[new].target = t
      /\ tasks'[new].stage = stage /\ tasks'[new].attempt = n
  BY NewTaskType
<1>3. LiveOf(t)' = {new}
  BY <1>1, <1>2 DEF LiveOf, Live
<1>4. state'[t] = to
  BY DEF TransitionTarget, Inv, TypeOK
<1>5. Drives(new, t)'
  BY <1>2, <1>3, <1>4 DEF Drives
<1>6. OnlyConcerns(t)
  <2>1. \A u \in Targets \ {t} : state'[u] = state[u]
    BY DEF TransitionTarget, Inv, TypeOK
  <2>2. QED
    BY <1>1, <1>2, <2>1 DEF OnlyConcerns
<1>7. QED
  BY <1>3, <1>5, <1>6, OnlyConcernsInv

-----------------------------------------------------------------------------
(* Type correctness. *)

\* The states a target can be in according to the type invariant.
TargetValues == TargetStages \cup ExceptionStates \cup {"NEEDS_REVIEW", "COMPLETE"}

\* Changing one row to a row, or to nothing, keeps the queue well-formed.
LEMMA QueueType ==
    ASSUME TypeOK, NEW id \in TaskIds, NEW row \in TaskRow \cup {None}
    PROVE  [tasks EXCEPT ![id] = row] \in [TaskIds -> TaskRow \cup {None}]
BY DEF TypeOK

\* NextStage leads to a stage, to the gate or to the end.
LEMMA NextStageType ==
    ASSUME NEW lips \in BOOLEAN, NEW s \in TargetStages
    PROVE  NextStage(lips, s) \in TargetStages \cup {"NEEDS_REVIEW_GATE", "COMPLETE"}
BY DEF NextStage, TargetStages

\* A regeneration restarts at a stage of the pipeline.
LEMMA RestartType ==
    ASSUME NEW kind \in RegenerateStages
    PROVE  RestartState(kind) \in TargetStages
BY DEF RestartState, RegenerateStages, TargetStages

\* What Owns says of the row.
LEMMA OwnsRow ==
    ASSUME TypeOK, NEW w \in Workers, Owns(w)
    PROVE  /\ holding[w] \in TaskIds
           /\ tasks[holding[w]] \in TaskRow
           /\ tasks[holding[w]] # None
           /\ tasks[holding[w]].target \in Targets
           /\ tasks[holding[w]].stage \in TargetStages
           /\ tasks[holding[w]].attempt \in 1..MaxAttempts
           /\ holding[w] \in LiveOf(tasks[holding[w]].target)
BY LiveRow DEF Owns, LiveOf, Live, TaskRow
-----------------------------------------------------------------------------
(* The initial state. *)

\* Creating the job gives every target one row for its first stage.
LEMMA InitInv == Init => Inv
<1>1. SUFFICES ASSUME Init PROVE Inv
  OBVIOUS
<1>2. PICK first \in [Targets -> TaskIds] :
        /\ \A t, u \in Targets : first[t] = first[u] => t = u
        /\ tasks = [id \in TaskIds |->
              IF \E t \in Targets : first[t] = id
              THEN NewTask(CHOOSE t \in Targets : first[t] = id,
                           "TRANSLATING", 1, TRUE)
              ELSE None]
  BY <1>1 DEF Init
<1>3. "TRANSLATING" \in TargetStages
  BY DEF TargetStages
<1>4. ASSUME NEW t \in Targets
      PROVE  /\ first[t] \in TaskIds
             /\ tasks[first[t]] \in TaskRow /\ tasks[first[t]] # None
             /\ tasks[first[t]].target = t
             /\ tasks[first[t]].stage = "TRANSLATING"
             /\ tasks[first[t]].attempt = 1
  <2>1. (CHOOSE u \in Targets : first[u] = first[t]) = t
    BY <1>2
  <2>2. tasks[first[t]] = NewTask(t, "TRANSLATING", 1, TRUE)
    BY <1>2, <2>1
  <2>3. tasks[first[t]] \in TaskRow
    BY <1>3, <2>2, FirstAttempt DEF NewTask, TaskRow
  <2>4. tasks[first[t]] # None
    BY <2>3, PipelineAssumption
  <2>5. QED
    BY <1>2, <2>2, <2>3, <2>4 DEF NewTask
<1>5. ASSUME NEW id \in TaskIds, tasks[id] # None
      PROVE  \E t \in Targets : id = first[t]
  BY <1>2, <1>5
<1>6. TypeOK
  <2>1. ASSUME NEW id \in TaskIds PROVE tasks[id] \in TaskRow \cup {None}
    <3>1. CASE tasks[id] = None
      BY <3>1
    <3>2. CASE tasks[id] # None
      BY <1>4, <1>5, <3>2
    <3>3. QED
      BY <3>1, <3>2
  <2>2. tasks \in [TaskIds -> TaskRow \cup {None}]
    BY <1>2, <2>1
  <2>3. /\ state \in [Targets -> TargetStages]
        /\ attempt \in [Targets -> 0..MaxAttempts]
    BY <1>1, <1>3, FirstAttempt DEF Init
  <2>4. /\ holding \in [Workers -> TaskIds \cup {None}]
        /\ faults \in 0..MaxFaults
    BY <1>1, PipelineAssumption DEF Init
  <2>5. QED
    BY <2>2, <2>3, <2>4 DEF TypeOK
<1>7. ASSUME NEW t \in Targets PROVE LiveOf(t) = {first[t]}
  <2>1. first[t] \in LiveOf(t)
    BY <1>4 DEF LiveOf, Live
  <2>2. ASSUME NEW id \in LiveOf(t) PROVE id = first[t]
    <3>1. PICK u \in Targets : id = first[u]
      BY <1>5 DEF LiveOf, Live
    <3>2. tasks[id].target = u
      BY <1>4, <3>1
    <3>3. QED
      BY <3>1, <3>2 DEF LiveOf
  <2>3. QED
    BY <2>1, <2>2
<1>8. ASSUME NEW t \in Targets PROVE Drives(first[t], t)
  BY <1>1, <1>4, <1>7 DEF Drives, Init
<1>9. OneLiveTask /\ QueueMatchesState
  BY <1>7, <1>8 DEF OneLiveTask, QueueMatchesState
<1>10. QED
  BY <1>6, <1>9 DEF Inv

-----------------------------------------------------------------------------
(* The steps, one lemma per group of actions. *)

\* Claims, leases, clocks, lost workers and a retry brought forward: what
\* moves no target.
LeaseStep ==
    \/ QueueStep
    \/ \E w \in Workers : Heartbeat(w) \/ LoseResult(w)
    \/ \E t \in Targets : RetryTarget(t)

\* A changed row that is still a row for the same work, as far as the
\* invariant is concerned.
SameWork(id, row) ==
    /\ tasks[id] # None
    /\ row \in TaskRow /\ row.target = tasks[id].target
    /\ row.stage = tasks[id].stage /\ row.attempt = tasks[id].attempt
    /\ tasks[id].status = "claimed" => row.status = "claimed"

\* Each of them leaves the rows what they are but for their leases.
LEMMA LeaseStepKeeps ==
    ASSUME Inv, LeaseStep
    PROVE  TypeOK' /\ KeepsRows /\ UNCHANGED <<state, attempt>>
<1>1. UNCHANGED <<state, attempt>>
  BY DEF LeaseStep, QueueStep, Claim, LeaseAbandoned, LeaseStalls,
     BackoffElapses, Heartbeat, LoseResult, RetryTarget
<1>2. /\ holding' \in [Workers -> TaskIds \cup {None}]
      /\ faults' \in 0..MaxFaults
  <2>1. holding' \in [Workers -> TaskIds \cup {None}]
    BY DEF LeaseStep, QueueStep, Claim, LeaseAbandoned, LeaseStalls,
       BackoffElapses, Heartbeat, LoseResult, RetryTarget, Inv, TypeOK
  <2>2. faults \in 0..MaxFaults /\ MaxFaults \in Nat
    BY PipelineAssumption DEF Inv, TypeOK
  <2>3. ASSUME NEW id \in TaskIds, LeaseStalls(id) PROVE faults' \in 0..MaxFaults
    BY <2>2, <2>3 DEF LeaseStalls
  <2>4. ASSUME NEW w \in Workers, LoseResult(w) PROVE faults' \in 0..MaxFaults
    BY <2>2, <2>4 DEF LoseResult
  <2>5. \/ UNCHANGED faults
        \/ \E id \in TaskIds : LeaseStalls(id)
        \/ \E w \in Workers : LoseResult(w)
    BY DEF LeaseStep, QueueStep, Claim, LeaseAbandoned, BackoffElapses,
       Heartbeat, RetryTarget
  <2>6. QED
    BY <2>1, <2>2, <2>3, <2>4, <2>5
<1>3. ASSUME NEW id \in TaskIds, NEW w \in Workers, Claim(w, id)
      PROVE  /\ tasks' = [tasks EXCEPT ![id] = tasks'[id]]
             /\ SameWork(id, tasks'[id])
  <2>. DEFINE row == [tasks[id] EXCEPT !.status = "claimed",
                                       !.claimedBy = w, !.expired = FALSE]
  <2>1. tasks[id] \in TaskRow /\ tasks' = [tasks EXCEPT ![id] = row]
    BY <1>3, LiveRow DEF Claim, Inv
  <2>2. SameWork(id, row)
    BY <2>1, PipelineAssumption DEF SameWork, TaskRow
  <2>. HIDE DEF row
  <2>3. QED
    BY <2>1, <2>2 DEF Inv, TypeOK
<1>4. ASSUME NEW id \in TaskIds, LeaseAbandoned(id) \/ LeaseStalls(id)
      PROVE  /\ tasks' = [tasks EXCEPT ![id] = tasks'[id]]
             /\ SameWork(id, tasks'[id])
  <2>. DEFINE row == [tasks[id] EXCEPT !.expired = TRUE]
  <2>1. tasks[id] \in TaskRow /\ tasks' = [tasks EXCEPT ![id] = row]
    BY <1>4, LiveRow DEF LeaseAbandoned, LeaseStalls, Inv
  <2>2. SameWork(id, row)
    BY <2>1, PipelineAssumption DEF SameWork, TaskRow
  <2>. HIDE DEF row
  <2>3. QED
    BY <2>1, <2>2 DEF Inv, TypeOK
<1>5. ASSUME NEW id \in TaskIds, BackoffElapses(id)
      PROVE  /\ tasks' = [tasks EXCEPT ![id] = tasks'[id]]
             /\ SameWork(id, tasks'[id])
  <2>. DEFINE row == [tasks[id] EXCEPT !.due = TRUE]
  <2>1. tasks[id] \in TaskRow /\ tasks' = [tasks EXCEPT ![id] = row]
    BY <1>5, LiveRow DEF BackoffElapses, Inv
  <2>2. SameWork(id, row)
    BY <2>1, PipelineAssumption DEF SameWork, TaskRow
  <2>. HIDE DEF row
  <2>3. QED
    BY <2>1, <2>2 DEF Inv, TypeOK
<1>6. ASSUME NEW w \in Workers, Heartbeat(w)
      PROVE  \E id \in TaskIds : /\ tasks' = [tasks EXCEPT ![id] = tasks'[id]]
                                 /\ SameWork(id, tasks'[id])
  <2>. DEFINE id  == holding[w]
              row == [tasks[id] EXCEPT !.expired = FALSE]
  <2>1. /\ id \in TaskIds /\ tasks[id] \in TaskRow
        /\ tasks' = [tasks EXCEPT ![id] = row]
    BY <1>6, OwnsRow DEF Heartbeat, Inv
  <2>2. SameWork(id, row)
    BY <2>1, PipelineAssumption DEF SameWork, TaskRow
  <2>. HIDE DEF row
  <2>3. QED
    BY <2>1, <2>2 DEF Inv, TypeOK
<1>7. ASSUME NEW id \in TaskIds
      PROVE  tasks'[id] = tasks[id] \/ SameWork(id, tasks'[id])
  <2>1. CASE UNCHANGED tasks
    BY <2>1
  <2>2. ASSUME NEW x \in TaskIds, tasks' = [tasks EXCEPT ![x] = tasks'[x]],
               SameWork(x, tasks'[x])
        PROVE  tasks'[id] = tasks[id] \/ SameWork(id, tasks'[id])
    BY <2>2 DEF Inv, TypeOK
  <2>3. ASSUME NEW t \in Targets, RetryTarget(t)
        PROVE  tasks'[id] = tasks[id] \/ SameWork(id, tasks'[id])
    <3>. DEFINE row == [tasks[id] EXCEPT !.due = TRUE]
    <3>1. \/ tasks'[id] = tasks[id]
          \/ tasks[id] \in TaskRow /\ tasks'[id] = row
      BY <2>3, LiveRow DEF RetryTarget, LiveOf, Inv
    <3>2. tasks[id] \in TaskRow => SameWork(id, row)
      BY PipelineAssumption DEF SameWork, TaskRow
    <3>. HIDE DEF row
    <3>3. QED
      BY <3>1, <3>2
  <2>4. QED
    BY <1>3, <1>4, <1>5, <1>6, <2>1, <2>2, <2>3
    DEF LeaseStep, QueueStep, LoseResult
<1>8. tasks' \in [TaskIds -> TaskRow \cup {None}]
  <2>1. DOMAIN tasks' = TaskIds /\ tasks' = [id \in TaskIds |-> tasks'[id]]
    BY DEF LeaseStep, QueueStep, Claim, LeaseAbandoned, LeaseStalls,
       BackoffElapses, Heartbeat, LoseResult, RetryTarget, Inv, TypeOK
  <2>2. QED
    BY <1>7, <2>1 DEF SameWork, Inv, TypeOK
<1>9. KeepsRows
  BY <1>7, PipelineAssumption DEF KeepsRows, SameWork
<1>10. QED
  BY <1>1, <1>2, <1>8, <1>9 DEF Inv, TypeOK

\* Moving a target to one of its states keeps the column well-formed.
LEMMA StateType ==
    ASSUME TypeOK, NEW t \in Targets, NEW to \in TargetValues,
           TransitionTarget(t, to)
    PROVE  state' \in [Targets -> TargetValues]
BY DEF TypeOK, TransitionTarget, TargetValues

\* What a step leaves behind outside the target and its rows is well-formed.
RestType == /\ holding' \in [Workers -> TaskIds \cup {None}]
            /\ faults' \in 0..MaxFaults
            /\ attempt' \in [Targets -> 0..MaxAttempts]

\* A row is replaced by the row of what the target does next.
LEMMA MovesOnInv ==
    ASSUME Inv, RestType, NEW t \in Targets, NEW id \in LiveOf(t),
           NEW stage \in TargetStages, NEW n \in 1..MaxAttempts,
           NEW due \in BOOLEAN, NEW to \in TargetStages \cup {"RETRY_WAIT"},
           SettleAndEnqueue(id, NewTask(t, stage, n, due)),
           TransitionTarget(t, to),
           \A u \in Targets \ {t} : attempt'[u] = attempt[u],
           \/ to = stage /\ n = 1
           \/ to = "RETRY_WAIT" /\ n = attempt'[t] /\ n > 1
    PROVE  Inv'
<1>1. PICK new \in TaskIds :
        /\ Fresh(new)
        /\ tasks' = [tasks EXCEPT ![id] = None, ![new] = NewTask(t, stage, n, due)]
  BY DEF SettleAndEnqueue
<1>2. LiveOf(t) = {id} /\ id \in TaskIds /\ id # new
  BY <1>1, LiveDrives DEF Fresh, LiveOf, Live
<1>3. NewTask(t, stage, n, due) \in TaskRow
  BY NewTaskType
<1>4. tasks' \in [TaskIds -> TaskRow \cup {None}]
  BY <1>1, <1>3 DEF Inv, TypeOK
<1>5. TypeOK'
  BY <1>4, StateType DEF RestType, Inv, TypeOK, TargetValues, ExceptionStates
<1>6. /\ tasks'[new] = NewTask(t, stage, n, due)
      /\ \A x \in TaskIds \ {new} :
            tasks'[x] = (IF x \in LiveOf(t) THEN None ELSE tasks[x])
  BY <1>1, <1>2 DEF Inv, TypeOK
<1>7. QED
  BY ZenonT(60), <1>1, <1>5, <1>6, EnqueuedInv

\* A target without a row gets one.
LEMMA EntersInv ==
    ASSUME Inv, NEW t \in Targets, state[t] = "NEEDS_REVIEW",
           NEW stage \in TargetStages,
           Enqueue(NewTask(t, stage, 1, TRUE)), TransitionTarget(t, stage),
           UNCHANGED <<attempt, holding, faults>>
    PROVE  Inv'
<1>1. PICK new \in TaskIds :
        Fresh(new) /\ tasks' = [tasks EXCEPT ![new] = NewTask(t, stage, 1, TRUE)]
  BY DEF Enqueue
<1>2. LiveOf(t) = {}
  BY ReviewIsIdle
<1>3. NewTask(t, stage, 1, TRUE) \in TaskRow
  BY FirstAttempt DEF NewTask, TaskRow
<1>4. tasks' \in [TaskIds -> TaskRow \cup {None}]
  BY <1>1, <1>3 DEF Inv, TypeOK
<1>5. TypeOK'
  BY <1>4, StateType DEF Inv, TypeOK, TargetValues
<1>6. /\ tasks'[new] = NewTask(t, stage, 1, TRUE)
      /\ \A x \in TaskIds \ {new} :
            tasks'[x] = (IF x \in LiveOf(t) THEN None ELSE tasks[x])
  BY <1>1, <1>2 DEF Inv, TypeOK
<1>7. QED
  BY <1>1, <1>5, <1>6, FirstAttempt, EnqueuedInv, 1 \in 1..MaxAttempts, TRUE \in BOOLEAN

\* A row is settled and the target rests, seen with its types.
LEMMA RestsInv ==
    ASSUME Inv, RestType, NEW t \in Targets, NEW id \in LiveOf(t),
           NEW to \in AtRest, Settle(id), TransitionTarget(t, to),
           UNCHANGED attempt
    PROVE  Inv'
<1>1. to \in TargetValues
  BY DEF AtRest, TargetValues, ExceptionStates
<1>2. tasks' \in [TaskIds -> TaskRow \cup {None}]
  BY DEF Settle, Inv, TypeOK
<1>3. TypeOK'
  BY <1>1, <1>2, StateType DEF RestType, Inv, TypeOK, TargetValues
<1>4. QED
  BY <1>3, SettledInv

\* Reported results: one step per action.
LEMMA ReportResultInv ==
    ASSUME Inv, NEW w \in Workers, ReportResult(w)
    PROVE  Inv'
<1>1. /\ holding' \in [Workers -> TaskIds \cup {None}]
      /\ faults' \in 0..MaxFaults
  BY DEF ReportResult, DiscardResult, CancelledResult, RetryResult,
     FailedResult, StageResult, GateResult, PackagedResult, RejectedResult,
     Reported, Inv, TypeOK
<1>2. UNCHANGED attempt => RestType
  BY <1>1 DEF RestType, Inv, TypeOK
<1>. DEFINE id == holding[w]
            t == tasks[id].target
<1>3. CASE DiscardResult(w) \/ RejectedResult(w)
  <2>1. UNCHANGED <<state, attempt, tasks>>
    BY <1>3 DEF DiscardResult, RejectedResult
  <2>2. TypeOK' /\ KeepsRows
    BY <1>1, <2>1 DEF Inv, TypeOK, KeepsRows
  <2>3. QED
    BY <2>1, <2>2, KeepsRowsInv
<1>4. CASE CancelledResult(w)
  <2>1. t \in Targets /\ id \in LiveOf(t)
    BY <1>4, OwnsRow DEF CancelledResult, Inv
  <2>2. "CANCELLED" \in AtRest
    BY DEF AtRest
  <2>3. QED
    BY <1>2, <1>4, <2>1, <2>2, RestsInv DEF CancelledResult
<1>5. CASE RetryResult(w)
  <2>1. /\ t \in Targets /\ id \in LiveOf(t)
        /\ tasks[id].stage \in TargetStages /\ tasks[id].attempt \in 1..MaxAttempts
    BY <1>5, OwnsRow DEF RetryResult, Inv
  <2>2. /\ tasks[id].attempt + 1 \in 1..MaxAttempts
        /\ tasks[id].attempt + 1 \in 0..MaxAttempts
        /\ tasks[id].attempt + 1 > 1
    BY <1>5, <2>1, PipelineAssumption DEF RetryResult
  <2>3. attempt' = [attempt EXCEPT ![t] = tasks[id].attempt + 1]
    BY <1>5 DEF RetryResult
  <2>4. /\ attempt'[t] = tasks[id].attempt + 1
        /\ \A u \in Targets \ {t} : attempt'[u] = attempt[u]
        /\ attempt' \in [Targets -> 0..MaxAttempts]
    BY <2>1, <2>2, <2>3 DEF Inv, TypeOK
  <2>5. RestType
    BY <1>1, <2>4 DEF RestType
  <2>6. QED
    BY <1>5, <2>1, <2>2, <2>4, <2>5, MovesOnInv, FALSE \in BOOLEAN
    DEF RetryResult
<1>6. CASE FailedResult(w)
  <2>1. t \in Targets /\ id \in LiveOf(t)
    BY <1>6, OwnsRow DEF FailedResult, Inv
  <2>2. "FAILED" \in AtRest
    BY DEF AtRest
  <2>3. QED
    BY <1>2, <1>6, <2>1, <2>2, RestsInv DEF FailedResult
<1>7. CASE StageResult(w)
  <2>1. t \in Targets /\ id \in LiveOf(t)
    BY <1>7, OwnsRow DEF StageResult, Inv
  <2>2. DEFINE next == NextStage(t \in LipSync, tasks[id].stage)
  <2>3. /\ next \in TargetStages
        /\ SettleAndEnqueue(id, NewTask(t, next, 1, TRUE))
        /\ TransitionTarget(t, next) /\ UNCHANGED attempt
    BY <1>7 DEF StageResult
  <2>4. QED
    BY <1>2, <2>1, <2>3, FirstAttempt, MovesOnInv, TRUE \in BOOLEAN
<1>8. CASE GateResult(w)
  <2>1. t \in Targets /\ id \in LiveOf(t) /\ UNCHANGED attempt
    BY <1>8, OwnsRow DEF GateResult, Inv
  <2>2. CASE Settle(id) /\ TransitionTarget(t, "NEEDS_REVIEW")
    BY <1>2, <2>1, <2>2, RestsInv, "NEEDS_REVIEW" \in AtRest DEF AtRest
  <2>3. CASE /\ SettleAndEnqueue(id, NewTask(t, "PACKAGING", 1, TRUE))
             /\ TransitionTarget(t, "PACKAGING")
    <3>1. "PACKAGING" \in TargetStages /\ TRUE \in BOOLEAN
      BY DEF TargetStages
    <3>2. QED
      BY <1>2, <2>1, <2>3, <3>1, FirstAttempt, MovesOnInv
  <2>4. QED
    BY <1>8, <2>2, <2>3 DEF GateResult
<1>9. CASE PackagedResult(w)
  <2>1. t \in Targets /\ id \in LiveOf(t)
    BY <1>9, OwnsRow DEF PackagedResult, Inv
  <2>2. "COMPLETE" \in AtRest
    BY DEF AtRest
  <2>3. QED
    BY <1>2, <1>9, <2>1, <2>2, RestsInv DEF PackagedResult
<1>10. QED
  BY <1>3, <1>4, <1>5, <1>6, <1>7, <1>8, <1>9 DEF ReportResult
\* A cancel leaves each target of the job with the rows that are claimed,
\* and in a state that says whether there are any.
LEMMA CancelInv ==
    ASSUME Inv, NEW j \in Jobs, Cancel(j)
    PROVE  Inv'
<1>1. ASSUME NEW t \in Targets, JobOf[t] # j
      PROVE  LiveOf(t)' = LiveOf(t) /\ state'[t] = state[t]
             /\ \A id \in LiveOf(t) : tasks'[id] = tasks[id]
  BY <1>1, PipelineAssumption DEF Cancel, LiveOf, Live
<1>2. ASSUME NEW t \in Targets, JobOf[t] = j
      PROVE  /\ LiveOf(t)' = {id \in LiveOf(t) : tasks[id].status # "queued"}
             /\ state'[t] = CancelOutcome(t)
             /\ \A id \in LiveOf(t)' : tasks'[id] = tasks[id]
  BY <1>2 DEF Cancel, LiveOf, Live
<1>3. ASSUME NEW t \in Targets, NEW id \in LiveOf(t)
      PROVE  tasks[id].status \in {"queued", "claimed"}
  BY LiveRow DEF LiveOf, Inv, TaskRow
<1>4. ASSUME NEW t \in Targets
      PROVE  state[t] \in TargetStages => IsWorking(state[t])
  BY DEF IsWorking, WorkingStates, TargetStages
<1>5. ASSUME NEW t \in Targets
      PROVE  CancelOutcome(t) \in TargetValues
  BY <1>5 DEF CancelOutcome, Inv, TypeOK, TargetValues, ExceptionStates
<1>6. TypeOK'
  <2>1. state' \in [Targets -> TargetValues]
    <3>1. state' = [t \in Targets |->
                      IF JobOf[t] = j THEN CancelOutcome(t) ELSE state[t]]
      BY DEF Cancel
    <3>2. \A t \in Targets : state[t] \in TargetValues
      BY DEF Inv, TypeOK, TargetValues
    <3>3. QED
      BY <1>5, <3>1, <3>2
  <2>2. tasks' \in [TaskIds -> TaskRow \cup {None}]
    BY DEF Cancel, Inv, TypeOK
  <2>3. QED
    BY <2>1, <2>2 DEF Cancel, Inv, TypeOK, TargetValues
<1>7. OneLiveTask'
  <2>1. ASSUME NEW t \in Targets PROVE LiveOf(t)' \subseteq LiveOf(t)
    BY <1>1, <1>2
  <2>2. QED
    BY <2>1 DEF Inv, OneLiveTask
<1>8. ASSUME NEW t \in Targets
      PROVE  \/ state'[t] \in AtRest /\ LiveOf(t)' = {}
             \/ \E id \in TaskIds : Drives(id, t)'
  <2>1. CASE JobOf[t] # j
    <3>1. CASE state[t] \in AtRest /\ LiveOf(t) = {}
      BY <1>1, <2>1, <3>1
    <3>2. ASSUME NEW id \in TaskIds, Drives(id, t) PROVE Drives(id, t)'
      BY <1>1, <2>1, <3>2 DEF Drives, Cancel
    <3>3. QED
      BY <3>1, <3>2 DEF Inv, QueueMatchesState
  <2>2. CASE JobOf[t] = j /\ state[t] \in AtRest /\ LiveOf(t) = {}
    <3>1. LiveOf(t)' = {} /\ state'[t] = CancelOutcome(t)
      BY <1>2, <2>2
    <3>2. CancelOutcome(t) \in AtRest
      BY <2>2 DEF CancelOutcome, HasInFlightTask, AtRest
    <3>3. QED
      BY <3>1, <3>2
  <2>3. ASSUME JobOf[t] = j, NEW id \in TaskIds, Drives(id, t)
        PROVE  \/ state'[t] \in AtRest /\ LiveOf(t)' = {}
               \/ Drives(id, t)'
    <3>1. id \in LiveOf(t) /\ LiveOf(t) = {id}
      BY <2>3, LiveDrives DEF Drives
    <3>2. state'[t] = CancelOutcome(t)
      BY <1>2, <2>3
    <3>3. tasks[id].stage \in TargetStages
      BY <3>1, LiveRow DEF LiveOf, Inv, TaskRow
    <3>4. \/ IsWorking(state[t]) \/ state[t] = "RETRY_WAIT"
          \/ state[t] = "CANCEL_REQUESTED" /\ tasks[id].status = "claimed"
      BY <1>4, <2>3, <3>3 DEF Drives
    <3>5. state[t] = "CANCEL_REQUESTED" => ~ IsWorking(state[t])
      BY DEF IsWorking, WorkingStates
    <3>6. CASE tasks[id].status = "claimed"
      <4>1. id \in LiveOf(t)' /\ tasks'[id] = tasks[id] /\ HasInFlightTask(t)
        BY <1>2, <2>3, <3>1, <3>6 DEF HasInFlightTask
      <4>2. CancelOutcome(t) = "CANCEL_REQUESTED"
        BY <3>4, <3>5, <4>1 DEF CancelOutcome
      <4>3. QED
        BY <3>2, <3>6, <4>1, <4>2 DEF Drives
    <3>7. CASE tasks[id].status = "queued"
      <4>1. LiveOf(t)' = {} /\ ~ HasInFlightTask(t)
        BY <1>2, <2>3, <3>1, <3>7 DEF HasInFlightTask
      <4>2. CancelOutcome(t) = "CANCELLED"
        BY <3>4, <3>7, <4>1 DEF CancelOutcome
      <4>3. QED
        BY <3>2, <4>1, <4>2 DEF AtRest
    <3>8. QED
      BY <1>3, <3>1, <3>6, <3>7
  <2>4. QED
    BY <2>1, <2>2, <2>3 DEF Inv, QueueMatchesState
<1>9. QED
  BY <1>6, <1>7, <1>8 DEF Inv, QueueMatchesState

\* No step leaves the inductive invariant.
LEMMA NextInv == Inv /\ [Next]_vars => Inv'
<1>1. SUFFICES ASSUME Inv, [Next]_vars PROVE Inv'
  OBVIOUS
<1>2. CASE UNCHANGED vars
  BY <1>1, <1>2
  DEF vars, Inv, TypeOK, OneLiveTask, QueueMatchesState, Drives, LiveOf, Live
<1>3. CASE LeaseStep
  BY <1>1, <1>3, LeaseStepKeeps, KeepsRowsInv
<1>4. ASSUME NEW w \in Workers, ReportResult(w) PROVE Inv'
  BY <1>1, <1>4, ReportResultInv
<1>5. ASSUME NEW j \in Jobs, Cancel(j) PROVE Inv'
  BY <1>1, <1>5, CancelInv
<1>6. ASSUME NEW t \in Targets, Approve(t) PROVE Inv'
  BY <1>1, <1>6, EntersInv, "PACKAGING" \in TargetStages
  DEF Approve, TargetStages
<1>7. ASSUME NEW t \in Targets, NEW kind \in RegenerateStages,
             Regenerate(t, kind)
      PROVE  Inv'
  BY <1>1, <1>7, EntersInv, RestartType DEF Regenerate
<1>8. QED
  BY <1>1, <1>2, <1>3, <1>4, <1>5, <1>6, <1>7
  DEF Next, WorkerStep, UserStep, LeaseStep

\* The inductive invariant holds of every behaviour.
LEMMA AlwaysInv == Spec => []Inv
BY InitInv, NextInv, PTL DEF Spec

-----------------------------------------------------------------------------
(* Safety. *)

\* Type correctness, for any number of targets, workers and attempts.
THEOREM TypeCorrect == Spec => []TypeOK
<1>1. Inv => TypeOK
  BY DEF Inv
<1>2. QED
  BY <1>1, AlwaysInv, PTL

\* A target never has two rows that a worker could claim (FR-050).
THEOREM NeverTwoTasks == Spec => []OneLiveTask
<1>1. Inv => OneLiveTask
  BY DEF Inv
<1>2. QED
  BY <1>1, AlwaysInv, PTL

\* The target's columns and the queue never disagree.
THEOREM QueueAlwaysMatches == Spec => []QueueMatchesState
<1>1. Inv => QueueMatchesState
  BY DEF Inv
<1>2. QED
  BY <1>1, AlwaysInv, PTL
\* The target whose row is reported is the only one a result may move, and
\* the report settles that row.
LEMMA ReportMoves ==
    ASSUME Inv, NEW w \in Workers, ReportResult(w),
           NEW t \in Targets, state'[t] # state[t]
    PROVE  OwnerReports(t)
<1>. DEFINE id == holding[w]
<1>1. /\ Owns(w) /\ Reported(w)
      /\ \E to : TransitionTarget(tasks[id].target, to)
      /\ Settle(id) \/ \E row : SettleAndEnqueue(id, row)
  <2>1. ~ DiscardResult(w) /\ ~ RejectedResult(w)
    BY DEF DiscardResult, RejectedResult
  <2>2. QED
    BY <2>1 DEF ReportResult, CancelledResult, RetryResult, FailedResult,
       StageResult, GateResult, PackagedResult
<1>2. /\ id \in TaskIds /\ tasks[id] # None /\ tasks[id].target \in Targets
      /\ id \in LiveOf(tasks[id].target)
  BY <1>1, OwnsRow DEF Inv
<1>3. tasks[id].target = t
  BY <1>1, <1>2 DEF TransitionTarget, Inv, TypeOK
<1>4. tasks'[id] = None
  BY <1>1, <1>2 DEF Settle, SettleAndEnqueue, Fresh, Inv, TypeOK
<1>5. holding'[w] = None
  BY <1>1 DEF Reported, Inv, TypeOK
<1>6. QED
  BY <1>1, <1>2, <1>3, <1>4, <1>5 DEF OwnerReports, Owns

\* Only the worker that a row names at that moment moves a target that has
\* work under way (the guards of applyResult), cancels apart.
THEOREM OwnersMove == Spec => OnlyTheOwnerMoves
<1>1. ASSUME Inv, [Next]_vars, NEW t \in Targets, state'[t] # state[t]
      PROVE  \/ state[t] = "NEEDS_REVIEW"
             \/ state'[t] \in {"CANCEL_REQUESTED", "CANCELLED"}
                /\ state[t] # "CANCEL_REQUESTED"
             \/ OwnerReports(t)
  <2>1. \/ \E j \in Jobs : Cancel(j)
        \/ \E w \in Workers : ReportResult(w)
        \/ \E u \in Targets : Approve(u)
        \/ \E u \in Targets, kind \in RegenerateStages : Regenerate(u, kind)
    BY <1>1 DEF vars, Next, QueueStep, WorkerStep, UserStep, Claim, Heartbeat,
       LeaseAbandoned, LeaseStalls, BackoffElapses, LoseResult, RetryTarget
  <2>2. CASE \E j \in Jobs : Cancel(j)
    <3>1. state'[t] = CancelOutcome(t)
      BY <1>1, <2>2 DEF Cancel
    <3>2. ~ IsWorking("CANCEL_REQUESTED")
      BY DEF IsWorking, WorkingStates
    <3>3. QED
      BY <1>1, <3>1, <3>2 DEF CancelOutcome
  <2>3. CASE \E w \in Workers : ReportResult(w)
    BY <1>1, <2>3, ReportMoves
  <2>4. ASSUME NEW u \in Targets, Approve(u) PROVE state[t] = "NEEDS_REVIEW"
    BY <1>1, <2>4 DEF Approve, TransitionTarget, Inv, TypeOK
  <2>5. ASSUME NEW u \in Targets, NEW kind \in RegenerateStages,
               Regenerate(u, kind)
        PROVE  state[t] = "NEEDS_REVIEW"
    BY <1>1, <2>5 DEF Regenerate, TransitionTarget, Inv, TypeOK
  <2>6. QED
    BY <2>1, <2>2, <2>3, <2>4, <2>5
<1>2. Inv /\ [Next]_vars =>
        [\A t \in Targets :
            state'[t] # state[t] =>
               \/ state[t] = "NEEDS_REVIEW"
               \/ state'[t] \in {"CANCEL_REQUESTED", "CANCELLED"}
                  /\ state[t] # "CANCEL_REQUESTED"
               \/ OwnerReports(t)]_vars
  BY <1>1
<1>3. QED
  BY <1>2, AlwaysInv, PTL DEF OnlyTheOwnerMoves, Spec
-----------------------------------------------------------------------------
(* Refinement of TargetLifecycle. *)

\* The row of a target that is not cancelling is what the life cycle owes.
LEMMA AbstractRow ==
    ASSUME Inv, NEW t \in Targets, NEW id \in LiveOf(t)
    PROVE  /\ TheTask(t) = tasks[id]
           /\ state[t] # "CANCEL_REQUESTED" => Phase(t) = "running"
<1>1. LiveOf(t) = {id} /\ id \in TaskIds /\ Drives(id, t)
  BY LiveDrives DEF LiveOf, Live
<1>2. (CHOOSE x \in TaskIds : x \in LiveOf(t)) = id
  BY <1>1
<1>3. tasks[id].stage \in TargetStages
  BY <1>1, LiveRow DEF LiveOf, Inv, TaskRow
<1>4. state[t] # "CANCEL_REQUESTED" =>
        state[t] \in TargetStages \cup {"RETRY_WAIT"}
  BY <1>1, <1>3 DEF Drives
<1>5. QED
  BY <1>2, <1>4 DEF TheTask, Phase, TargetStages

\* A target that performs or waits has a row.
LEMMA RunningHasRow ==
    ASSUME Inv, NEW t \in Targets, Phase(t) = "running"
    PROVE  \E id \in LiveOf(t) : Drives(id, t) /\ TheTask(t) = tasks[id]
<1>1. state[t] \in TargetStages \cup {"RETRY_WAIT"}
  BY DEF Phase
<1>2. state[t] \notin AtRest
  BY <1>1 DEF TargetStages, AtRest
<1>3. PICK id \in TaskIds : Drives(id, t)
  BY <1>2 DEF Inv, QueueMatchesState
<1>4. QED
  BY <1>3, AbstractRow DEF Drives

\* The life cycle sees no change in a target whose state and rows stay the same.
LEMMA SeenUnchanged ==
    ASSUME Inv, Inv', NEW t \in Targets, state'[t] = state[t],
           \A id \in LiveOf(t) : /\ id \in LiveOf(t)'
                                 /\ tasks'[id].stage = tasks[id].stage
                                 /\ tasks'[id].attempt = tasks[id].attempt
    PROVE  Phase(t)' = Phase(t) /\ Owed(t)' = Owed(t) /\ Tries(t)' = Tries(t)
<1>1. Phase(t)' = Phase(t)
  BY DEF Phase
<1>2. CASE Phase(t) = "running"
  <2>1. PICK id \in LiveOf(t) : TheTask(t) = tasks[id]
    BY <1>2, RunningHasRow
  <2>2. id \in TaskIds /\ id \in LiveOf(t)'
    BY <2>1 DEF LiveOf, Live
  <2>3. \A x \in LiveOf(t)' : x = id
    BY <2>2 DEF Inv, OneLiveTask
  <2>4. TheTask(t)' = tasks'[id]
    BY <2>2, <2>3 DEF TheTask
  <2>5. QED
    BY <1>1, <1>2, <2>1, <2>4 DEF Owed, Tries
<1>3. CASE Phase(t) # "running"
  BY <1>1, <1>3 DEF Owed, Tries
<1>4. QED
  BY <1>2, <1>3

\* A step that concerns one target is seen as that target becoming something.
LEMMA SeenBecome ==
    ASSUME Inv, Inv', NEW t \in Targets, OnlyConcerns(t), NEW p, NEW s, NEW n,
           Phase(t)' = p, Owed(t)' = s, Tries(t)' = n
    PROVE  Lifecycle!Become(t, p, s, n)
<1>1. ASSUME NEW u \in Targets \ {t}
      PROVE  Phase(u)' = Phase(u) /\ Owed(u)' = Owed(u) /\ Tries(u)' = Tries(u)
  <2>1. ASSUME NEW id \in LiveOf(u)
        PROVE  id \in LiveOf(u)' /\ tasks'[id] = tasks[id]
    BY DEF OnlyConcerns, LiveOf, Live
  <2>2. state'[u] = state[u]
    BY DEF OnlyConcerns
  <2>3. QED
    BY <2>1, <2>2, SeenUnchanged
<1>2. QED
  BY <1>1 DEF Lifecycle!Become

\* What is seen of a target that has moved on to, or waits for, a stage.
LEMMA SeenOnward ==
    ASSUME Inv', NEW t \in Targets, NEW new \in LiveOf(t)',
           state'[t] # "CANCEL_REQUESTED"
    PROVE  /\ Phase(t)' = "running"
           /\ Owed(t)' = tasks'[new].stage
           /\ Tries(t)' = tasks'[new].attempt
<1>1. new \in TaskIds /\ \A x \in LiveOf(t)' : x = new
  BY DEF Inv, OneLiveTask, LiveOf, Live
<1>2. TheTask(t)' = tasks'[new]
  BY <1>1 DEF TheTask
<1>3. PICK id \in TaskIds : Drives(id, t)'
  BY DEF Inv, QueueMatchesState
<1>4. id = new /\ tasks'[new] \in TaskRow
  BY <1>1, <1>3 DEF Drives, Inv, TypeOK, LiveOf, Live
<1>5. tasks'[new].stage \in TargetStages
  BY <1>4 DEF TaskRow
<1>6. state'[t] \in TargetStages \cup {"RETRY_WAIT"}
  BY <1>3, <1>4, <1>5 DEF Drives
<1>7. Phase(t)' = "running"
  BY <1>6 DEF Phase, TargetStages
<1>8. QED
  BY <1>2, <1>7 DEF Owed, Tries

\* What is seen of a target that has come to rest.
LEMMA SeenAtRest ==
    ASSUME NEW t \in Targets, state'[t] \in AtRest
    PROVE  /\ Phase(t)' = (CASE state'[t] = "NEEDS_REVIEW" -> "review"
                             [] state'[t] = "COMPLETE"     -> "complete"
                             [] state'[t] = "FAILED"       -> "failed"
                             [] state'[t] = "CANCELLED"    -> "cancelled")
           /\ Owed(t)' = None /\ Tries(t)' = 0
<1>1. Phase(t)' = (CASE state'[t] = "NEEDS_REVIEW" -> "review"
                     [] state'[t] = "COMPLETE"     -> "complete"
                     [] state'[t] = "FAILED"       -> "failed"
                     [] state'[t] = "CANCELLED"    -> "cancelled")
  BY DEF Phase, AtRest, TargetStages
<1>2. Phase(t)' # "running"
  BY <1>1 DEF AtRest
<1>3. QED
  BY <1>1, <1>2 DEF Owed, Tries
\* MovesOnInv's step is a move to the new row's stage and attempt.
LEMMA MovesOnSeen ==
    ASSUME Inv, RestType, NEW t \in Targets, NEW id \in LiveOf(t),
           NEW stage \in TargetStages, NEW n \in 1..MaxAttempts,
           NEW due \in BOOLEAN, NEW to \in TargetStages \cup {"RETRY_WAIT"},
           SettleAndEnqueue(id, NewTask(t, stage, n, due)),
           TransitionTarget(t, to),
           \A u \in Targets \ {t} : attempt'[u] = attempt[u],
           \/ to = stage /\ n = 1
           \/ to = "RETRY_WAIT" /\ n = attempt'[t] /\ n > 1
    PROVE  Lifecycle!Become(t, "running", stage, n)
<1>1. Inv'
  BY MovesOnInv
<1>2. PICK new \in TaskIds :
        /\ Fresh(new)
        /\ tasks' = [tasks EXCEPT ![id] = None, ![new] = NewTask(t, stage, n, due)]
  BY DEF SettleAndEnqueue
<1>3. id \in TaskIds /\ id # new /\ tasks[new] = None
  BY <1>2 DEF Fresh, LiveOf, Live
<1>4. tasks'[new] = NewTask(t, stage, n, due)
  BY <1>2, <1>3 DEF Inv, TypeOK
<1>5. /\ tasks'[new] # None /\ tasks'[new].target = t
      /\ tasks'[new].stage = stage /\ tasks'[new].attempt = n
  BY <1>4, NewTaskType
<1>6. new \in LiveOf(t)'
  BY <1>5 DEF LiveOf, Live
<1>7. state'[t] # "CANCEL_REQUESTED"
  BY DEF TransitionTarget, Inv, TypeOK, TargetStages
<1>8. OnlyConcerns(t)
  BY <1>2, <1>3, <1>5 DEF OnlyConcerns, TransitionTarget, Inv, TypeOK
<1>9. Phase(t)' = "running" /\ Owed(t)' = stage /\ Tries(t)' = n
  BY <1>1, <1>5, <1>6, <1>7, SeenOnward
<1>10. QED
  BY <1>1, <1>8, <1>9, SeenBecome

\* EntersInv's step is a move to a first attempt at the stage.
LEMMA EntersSeen ==
    ASSUME Inv, NEW t \in Targets, state[t] = "NEEDS_REVIEW",
           NEW stage \in TargetStages,
           Enqueue(NewTask(t, stage, 1, TRUE)), TransitionTarget(t, stage),
           UNCHANGED <<attempt, holding, faults>>
    PROVE  Lifecycle!Become(t, "running", stage, 1)
<1>1. Inv'
  BY EntersInv
<1>2. PICK new \in TaskIds :
        Fresh(new) /\ tasks' = [tasks EXCEPT ![new] = NewTask(t, stage, 1, TRUE)]
  BY DEF Enqueue
<1>3. tasks[new] = None /\ tasks'[new] = NewTask(t, stage, 1, TRUE)
  BY <1>2 DEF Fresh, Inv, TypeOK, NewTask
<1>4. tasks'[new] \in TaskRow
  BY <1>3, FirstAttempt DEF NewTask, TaskRow
<1>5. /\ tasks'[new] # None /\ tasks'[new].target = t
      /\ tasks'[new].stage = stage /\ tasks'[new].attempt = 1
  <2>1. tasks'[new] # None
    BY <1>4, PipelineAssumption
  <2>2. QED
    BY <1>3, <2>1 DEF NewTask
<1>6. new \in LiveOf(t)'
  BY <1>5 DEF LiveOf, Live
<1>7. state'[t] # "CANCEL_REQUESTED"
  BY DEF TransitionTarget, Inv, TypeOK, TargetStages
<1>8. OnlyConcerns(t)
  BY <1>2, <1>3, <1>5 DEF OnlyConcerns, TransitionTarget, Inv, TypeOK
<1>9. Phase(t)' = "running" /\ Owed(t)' = stage /\ Tries(t)' = 1
  BY <1>1, <1>5, <1>6, <1>7, SeenOnward
<1>10. QED
  BY <1>1, <1>8, <1>9, SeenBecome

\* RestsInv's step is a move to the phase of rest, with nothing owed.
LEMMA RestsSeen ==
    ASSUME Inv, RestType, NEW t \in Targets, NEW id \in LiveOf(t),
           NEW to \in AtRest, Settle(id), TransitionTarget(t, to),
           UNCHANGED attempt
    PROVE  Lifecycle!Become(t, (CASE to = "NEEDS_REVIEW" -> "review"
                                  [] to = "COMPLETE"     -> "complete"
                                  [] to = "FAILED"       -> "failed"
                                  [] to = "CANCELLED"    -> "cancelled"),
                            None, 0)
<1>1. Inv'
  BY RestsInv
<1>2. state'[t] = to
  BY DEF TransitionTarget, Inv, TypeOK
<1>3. OnlyConcerns(t)
  BY DEF OnlyConcerns, Settle, TransitionTarget, Inv, TypeOK, LiveOf, Live
<1>4. QED
  BY <1>1, <1>2, <1>3, SeenAtRest, SeenBecome

\* A step that keeps rows and states is not seen at all.
LEMMA NothingSeen ==
    ASSUME Inv, Inv', KeepsRows, UNCHANGED state
    PROVE  UNCHANGED Lifecycle!lifecycle
<1>1. ASSUME NEW t \in Targets
      PROVE  Phase(t)' = Phase(t) /\ Owed(t)' = Owed(t) /\ Tries(t)' = Tries(t)
  BY SeenUnchanged DEF KeepsRows, LiveOf, Live
<1>2. QED
  BY <1>1 DEF Lifecycle!lifecycle

\* The running stage that a result is about.
LEMMA ReportedStage ==
    ASSUME Inv, NEW w \in Workers, Owns(w),
           state[tasks[holding[w]].target] # "CANCEL_REQUESTED"
    PROVE  LET t == tasks[holding[w]].target
           IN  /\ Phase(t) = "running"
               /\ Owed(t) = tasks[holding[w]].stage
               /\ Tries(t) = tasks[holding[w]].attempt
BY OwnsRow, AbstractRow DEF Inv, Owed, Tries

\* The order of the stages is the order of TARGET_STAGE_ORDER.
LEMMA NextFollows ==
    ASSUME NEW t \in Targets, NEW s \in TargetStages,
           NextStage(t \in LipSync, s) \in TargetStages
    PROVE  /\ Lifecycle!Follows(t, s, NextStage(t \in LipSync, s))
           /\ NextStage(t \in LipSync, s) \in Lifecycle!Stages
BY DEF NextStage, TargetStages, Lifecycle!Follows, Lifecycle!StageOrder,
   Lifecycle!Stages
\* Whatever a result does is a step of the life cycle, or nothing.
LEMMA ReportRefines ==
    ASSUME Inv, NEW w \in Workers, ReportResult(w)
    PROVE  [Lifecycle!Next]_(Lifecycle!lifecycle)
<1>. DEFINE id  == holding[w]
            row == tasks[id]
            t   == row.target
<1>1. Inv'
  BY ReportResultInv
<1>2. ASSUME UNCHANGED attempt
      PROVE  RestType /\ \A u \in Targets \ {t} : attempt'[u] = attempt[u]
  BY <1>1, <1>2 DEF RestType, Inv, TypeOK
<1>3. CASE DiscardResult(w) \/ RejectedResult(w)
  <2>1. UNCHANGED <<state, tasks>>
    BY <1>3 DEF DiscardResult, RejectedResult
  <2>2. QED
    BY <1>1, <2>1, NothingSeen DEF KeepsRows
<1>4. CASE CancelledResult(w)
  <2>1. /\ t \in Targets /\ id \in LiveOf(t) /\ UNCHANGED attempt
        /\ Settle(id) /\ TransitionTarget(t, "CANCELLED")
        /\ Phase(t) = "cancelling"
    BY <1>4, OwnsRow DEF CancelledResult, Inv, Phase, TargetStages
  <2>2. Lifecycle!Become(t, "cancelled", None, 0)
    BY <1>2, <2>1, RestsSeen, "CANCELLED" \in AtRest DEF AtRest
  <2>3. QED
    BY <2>1, <2>2 DEF Lifecycle!FinishCancel, Lifecycle!Next
<1>5. CASE RetryResult(w)
  <2>1. /\ t \in Targets /\ id \in LiveOf(t) /\ Owns(w)
        /\ row.stage \in TargetStages /\ row.attempt \in 1..MaxAttempts
        /\ row.attempt < MaxAttempts /\ state[t] # "CANCEL_REQUESTED"
        /\ SettleAndEnqueue(id, NewTask(t, row.stage, row.attempt + 1, FALSE))
        /\ TransitionTarget(t, "RETRY_WAIT")
    BY <1>5, OwnsRow DEF RetryResult, Inv
  <2>2. row.attempt + 1 \in 1..MaxAttempts /\ row.attempt + 1 > 1
    BY <2>1, PipelineAssumption
  <2>3. attempt' = [attempt EXCEPT ![t] = row.attempt + 1]
    BY <1>5 DEF RetryResult
  <2>4. /\ attempt'[t] = row.attempt + 1
        /\ \A u \in Targets \ {t} : attempt'[u] = attempt[u]
        /\ RestType
    BY <1>1, <2>1, <2>3 DEF RestType, Inv, TypeOK
  <2>5. Lifecycle!Become(t, "running", row.stage, row.attempt + 1)
    BY <2>1, <2>2, <2>4, MovesOnSeen, FALSE \in BOOLEAN
  <2>6. Phase(t) = "running" /\ Owed(t) = row.stage /\ Tries(t) = row.attempt
    BY <2>1, ReportedStage
  <2>7. Lifecycle!Retry(t)
    BY <2>1, <2>5, <2>6 DEF Lifecycle!Retry
  <2>8. QED
    BY <2>1, <2>7 DEF Lifecycle!Next
<1>6. CASE FailedResult(w)
  <2>1. /\ t \in Targets /\ id \in LiveOf(t) /\ Owns(w) /\ UNCHANGED attempt
        /\ Settle(id) /\ TransitionTarget(t, "FAILED")
        /\ state[t] # "CANCEL_REQUESTED"
    BY <1>6, OwnsRow DEF FailedResult, Inv
  <2>2. Lifecycle!Become(t, "failed", None, 0)
    BY <1>2, <2>1, RestsSeen, "FAILED" \in AtRest DEF AtRest
  <2>3. Phase(t) = "running"
    BY <2>1, ReportedStage
  <2>4. QED
    BY <2>1, <2>2, <2>3 DEF Lifecycle!Fail, Lifecycle!Next
<1>7. CASE StageResult(w)
  <2>. DEFINE next == NextStage(t \in LipSync, row.stage)
  <2>1. /\ t \in Targets /\ id \in LiveOf(t) /\ Owns(w) /\ UNCHANGED attempt
        /\ row.stage \in TargetStages /\ next \in TargetStages
        /\ state[t] # "CANCEL_REQUESTED"
        /\ SettleAndEnqueue(id, NewTask(t, next, 1, TRUE))
        /\ TransitionTarget(t, next)
    BY <1>7, OwnsRow DEF StageResult, Inv
  <2>2. Lifecycle!Follows(t, row.stage, next) /\ next \in Lifecycle!Stages
    BY <2>1, NextFollows
  <2>3. Phase(t) = "running" /\ Owed(t) = row.stage
    BY <2>1, ReportedStage
  <2>. HIDE DEF next
  <2>4. Lifecycle!Become(t, "running", next, 1)
    BY <1>2, <2>1, FirstAttempt, MovesOnSeen, TRUE \in BOOLEAN
  <2>5. Lifecycle!Perform(t, next)
    BY <2>1, <2>2, <2>3, <2>4 DEF Lifecycle!Perform
  <2>6. QED
    BY <2>1, <2>2, <2>5 DEF Lifecycle!Next
<1>8. CASE GateResult(w)
  <2>1. /\ t \in Targets /\ id \in LiveOf(t) /\ Owns(w) /\ UNCHANGED attempt
        /\ row.stage = "TARGET_QA" /\ state[t] # "CANCEL_REQUESTED"
    BY <1>8, OwnsRow DEF GateResult, Inv
  <2>2. Phase(t) = "running" /\ Owed(t) = "TARGET_QA"
    BY <2>1, ReportedStage
  <2>3. CASE Settle(id) /\ TransitionTarget(t, "NEEDS_REVIEW")
    <3>1. Lifecycle!Become(t, "review", None, 0)
      BY <1>2, <2>1, <2>3, RestsSeen, "NEEDS_REVIEW" \in AtRest DEF AtRest
    <3>2. QED
      BY <2>1, <2>2, <3>1
      DEF Lifecycle!Running, Lifecycle!Judge, Lifecycle!Next
  <2>4. CASE /\ SettleAndEnqueue(id, NewTask(t, "PACKAGING", 1, TRUE))
             /\ TransitionTarget(t, "PACKAGING")
    <3>1. "PACKAGING" \in TargetStages
      BY DEF TargetStages
    <3>2. Lifecycle!Become(t, "running", "PACKAGING", 1)
      BY <1>2, <2>1, <2>4, <3>1, FirstAttempt, MovesOnSeen, TRUE \in BOOLEAN
    <3>3. QED
      BY <2>1, <2>2, <3>2
      DEF Lifecycle!Running, Lifecycle!Judge, Lifecycle!Next
  <2>5. QED
    BY <1>8, <2>3, <2>4 DEF GateResult
<1>9. CASE PackagedResult(w)
  <2>1. /\ t \in Targets /\ id \in LiveOf(t) /\ Owns(w) /\ UNCHANGED attempt
        /\ row.stage = "PACKAGING" /\ state[t] # "CANCEL_REQUESTED"
        /\ Settle(id) /\ TransitionTarget(t, "COMPLETE")
    BY <1>9, OwnsRow DEF PackagedResult, Inv
  <2>2. Lifecycle!Become(t, "complete", None, 0)
    BY <1>2, <2>1, RestsSeen, "COMPLETE" \in AtRest DEF AtRest
  <2>3. Phase(t) = "running" /\ Owed(t) = "PACKAGING"
    BY <2>1, ReportedStage
  <2>4. QED
    BY <2>1, <2>2, <2>3
    DEF Lifecycle!Running, Lifecycle!Deliver, Lifecycle!Next
<1>10. QED
  BY <1>3, <1>4, <1>5, <1>6, <1>7, <1>8, <1>9 DEF ReportResult
\* A cancelled job is seen as its unfinished targets being cancelled, those
\* with a claimed row finishing later.
LEMMA CancelRefines ==
    ASSUME Inv, NEW j \in Jobs, Cancel(j)
    PROVE  Lifecycle!Next
<1>. DEFINE S == {t \in Targets : /\ JobOf[t] = j
                                  /\ Phase(t) \in {"running", "review", "cancelling"}}
            underWay == {t \in S : CancelOutcome(t) = "CANCEL_REQUESTED"}
<1>1. Inv'
  BY CancelInv
<1>2. ASSUME NEW t \in Targets
      PROVE  state'[t] = IF JobOf[t] = j THEN CancelOutcome(t) ELSE state[t]
  BY DEF Cancel
<1>3. ASSUME NEW t \in S
      PROVE  CancelOutcome(t) \in {"CANCEL_REQUESTED", "CANCELLED"}
  BY DEF CancelOutcome, Phase, Inv, TypeOK, IsWorking, WorkingStates,
     TargetStages, ExceptionStates
<1>4. ASSUME NEW t \in S, Phase(t) = "review"
      PROVE  CancelOutcome(t) = "CANCELLED"
  BY <1>4 DEF CancelOutcome, Phase, IsWorking, WorkingStates, TargetStages
<1>5. ASSUME NEW t \in S, Phase(t) = "cancelling"
      PROVE  CancelOutcome(t) = "CANCEL_REQUESTED"
  BY <1>5 DEF CancelOutcome, Phase, IsWorking, WorkingStates, TargetStages
<1>6. ASSUME NEW t \in Targets \ S
      PROVE  Phase(t)' = Phase(t) /\ Owed(t)' = Owed(t) /\ Tries(t)' = Tries(t)
  <2>1. state'[t] = state[t]
    <3>1. CASE JobOf[t] = j
      <4>1. state[t] \in {"COMPLETE", "FAILED", "CANCELLED"}
        BY <3>1 DEF Phase, Inv, TypeOK, ExceptionStates, TargetStages
      <4>2. CancelOutcome(t) = state[t]
        BY <4>1 DEF CancelOutcome, IsWorking, WorkingStates
      <4>3. QED
        BY <1>2, <3>1, <4>2
    <3>2. CASE JobOf[t] # j
      BY <1>2, <3>2
    <3>3. QED
      BY <3>1, <3>2
  <2>2. CASE Phase(t) = "running"
    <3>1. JobOf[t] # j
      BY <2>2
    <3>2. \A id \in LiveOf(t) : id \in LiveOf(t)' /\ tasks'[id] = tasks[id]
      BY <3>1 DEF Cancel, LiveOf, Live
    <3>3. QED
      BY <1>1, <2>1, <3>2, SeenUnchanged
  <2>3. CASE Phase(t) # "running"
    BY <2>1, <2>3 DEF Phase, Owed, Tries
  <2>4. QED
    BY <2>2, <2>3
<1>7. ASSUME NEW t \in S
      PROVE  /\ Phase(t)' = IF t \in underWay THEN "cancelling" ELSE "cancelled"
             /\ Owed(t)' = None /\ Tries(t)' = 0
  <2>1. state'[t] = CancelOutcome(t)
    BY <1>2
  <2>2. Phase(t)' = IF t \in underWay THEN "cancelling" ELSE "cancelled"
    BY <1>3, <2>1 DEF Phase, TargetStages
  <2>3. QED
    BY <2>2 DEF Owed, Tries
<1>8. \A t \in underWay : Phase(t) \in {"running", "cancelling"}
  BY <1>4
<1>9. \A t \in S : Phase(t) = "cancelling" => t \in underWay
  BY <1>5
<1>10. S \subseteq Targets /\ underWay \subseteq S
  OBVIOUS
<1>11. \A t \in S : Phase(t) \in {"running", "review", "cancelling"}
  OBVIOUS
<1>. HIDE DEF S, underWay
<1>12. Lifecycle!Cancel(S)
  BY <1>6, <1>7, <1>8, <1>9, <1>10, <1>11 DEF Lifecycle!Cancel
<1>13. QED
  BY <1>10, <1>12 DEF Lifecycle!Next

\* A reviewer's restart is one the life cycle allows.
LEMMA RestartAllowed ==
    ASSUME NEW t \in Targets, NEW kind \in RegenerateStages,
           kind = "lipsync" => t \in LipSync
    PROVE  /\ RestartState(kind) \in Lifecycle!Restarts(t)
           /\ RestartState(kind) \in Lifecycle!Stages
BY DEF RegenerateStages, RestartState, Lifecycle!Restarts, Lifecycle!Stages

\* Every step is a step of the life cycle or is not seen by it.
LEMMA NextRefines ==
    Inv /\ [Next]_vars => [Lifecycle!Next]_(Lifecycle!lifecycle)
<1>1. SUFFICES ASSUME Inv, [Next]_vars
               PROVE  [Lifecycle!Next]_(Lifecycle!lifecycle)
  OBVIOUS
<1>2. Inv'
  BY <1>1, NextInv
<1>3. CASE UNCHANGED vars
  BY <1>1, <1>2, <1>3, NothingSeen DEF vars, KeepsRows
<1>4. CASE LeaseStep
  BY <1>1, <1>2, <1>4, LeaseStepKeeps, NothingSeen
<1>5. ASSUME NEW w \in Workers, ReportResult(w)
      PROVE  [Lifecycle!Next]_(Lifecycle!lifecycle)
  BY <1>1, <1>5, ReportRefines
<1>6. ASSUME NEW j \in Jobs, Cancel(j) PROVE Lifecycle!Next
  BY <1>1, <1>6, CancelRefines
<1>7. ASSUME NEW t \in Targets, Approve(t) PROVE Lifecycle!Next
  <2>1. Lifecycle!Become(t, "running", "PACKAGING", 1)
    BY <1>1, <1>7, EntersSeen, "PACKAGING" \in TargetStages
    DEF Approve, TargetStages
  <2>2. Phase(t) = "review"
    BY <1>7 DEF Approve, Phase, TargetStages
  <2>3. QED
    BY <2>1, <2>2 DEF Lifecycle!Approve, Lifecycle!Next
<1>8. ASSUME NEW t \in Targets, NEW kind \in RegenerateStages,
             Regenerate(t, kind)
      PROVE  Lifecycle!Next
  <2>1. Lifecycle!Become(t, "running", RestartState(kind), 1)
    BY <1>1, <1>8, EntersSeen, RestartType DEF Regenerate
  <2>2. Phase(t) = "review"
    BY <1>8 DEF Regenerate, Phase, TargetStages
  <2>3. /\ RestartState(kind) \in Lifecycle!Restarts(t)
        /\ RestartState(kind) \in Lifecycle!Stages
    BY <1>8, RestartAllowed DEF Regenerate
  <2>4. Lifecycle!SendBack(t, RestartState(kind))
    BY <2>1, <2>2, <2>3 DEF Lifecycle!SendBack
  <2>5. QED
    BY <2>3, <2>4 DEF Lifecycle!Next
<1>9. QED
  BY <1>1, <1>3, <1>4, <1>5, <1>6, <1>7, <1>8
  DEF Next, WorkerStep, UserStep, LeaseStep

\* The life cycle starts where a job starts its targets.
LEMMA InitRefines == Init => Lifecycle!Init
<1>1. SUFFICES ASSUME Init PROVE Lifecycle!Init
  OBVIOUS
<1>2. Inv
  BY <1>1, InitInv
<1>3. ASSUME NEW t \in Targets
      PROVE  Phase(t) = "running" /\ Owed(t) = "TRANSLATING" /\ Tries(t) = 1
  <2>1. state[t] = "TRANSLATING"
    BY <1>1 DEF Init
  <2>2. Phase(t) = "running"
    BY <2>1 DEF Phase, TargetStages
  <2>3. PICK id \in LiveOf(t) : Drives(id, t) /\ TheTask(t) = tasks[id]
    BY <1>2, <2>2, RunningHasRow
  <2>4. tasks[id].stage = "TRANSLATING" /\ tasks[id].attempt = 1
    BY <2>1, <2>3 DEF Drives
  <2>5. QED
    BY <2>2, <2>3, <2>4 DEF Owed, Tries
<1>4. QED
  BY <1>3 DEF Lifecycle!Init

\* The queue, its leases and its workers together perform the life cycle
\* that a user is promised for every target, however many there are.
THEOREM Refinement == Spec => ImplementsLifecycle
BY InitRefines, NextRefines, AlwaysInv, PTL
DEF Spec, ImplementsLifecycle, Lifecycle!Spec
==============================================================================
