------------------------------ MODULE JobStates ------------------------------
(***************************************************************************)
(* The job / target-job state machine of the domain package                *)
(* (packages/domain/src/state-machine/job-state.ts): the vocabulary of     *)
(* states, their classes and the table of legal transitions.  Everything   *)
(* that writes a `state` column goes through this table.                   *)
(***************************************************************************)

SourceStates == {"UPLOADING", "QUARANTINED", "VALIDATING", "ANALYZING",
                 "READY_TO_CONFIGURE", "QUEUED", "TRANSCRIBING", "SOURCE_QA",
                 "TARGETS_FAN_OUT"}

TargetStates == {"TRANSLATING", "SYNTHESIZING", "TIMING", "LIP_SYNCING",
                 "MIXING", "ENCODING", "TARGET_QA", "NEEDS_REVIEW", "READY",
                 "PACKAGING", "COMPLETE"}

ExceptionStates == {"RETRY_WAIT", "FAILED", "CANCEL_REQUESTED", "CANCELLED"}

AllStates == SourceStates \cup TargetStates \cup ExceptionStates

TerminalStates == {"COMPLETE", "FAILED", "CANCELLED"}

\* Stages that perform work and may therefore fail, time out or be cancelled.
WorkingStates == {"QUARANTINED", "VALIDATING", "ANALYZING", "TRANSCRIBING",
                  "SOURCE_QA", "TARGETS_FAN_OUT", "TRANSLATING",
                  "SYNTHESIZING", "TIMING", "LIP_SYNCING", "MIXING",
                  "ENCODING", "TARGET_QA", "PACKAGING"}

IsWorking(s) == s \in WorkingStates

\* What every working state may turn into besides its successor.
Interruptions == {"RETRY_WAIT", "FAILED", "CANCEL_REQUESTED"}

TRANSITIONS == [s \in AllStates |->
    CASE s = "UPLOADING"          -> {"QUARANTINED", "FAILED", "CANCELLED"}
      [] s = "QUARANTINED"        -> {"VALIDATING"} \cup Interruptions
      [] s = "VALIDATING"         -> {"ANALYZING"} \cup Interruptions
      [] s = "ANALYZING"          -> {"READY_TO_CONFIGURE"} \cup Interruptions
      [] s = "READY_TO_CONFIGURE" -> {"QUEUED", "CANCELLED"}
      [] s = "QUEUED"             -> {"TRANSCRIBING", "CANCELLED"}
      [] s = "TRANSCRIBING"       -> {"SOURCE_QA"} \cup Interruptions
      [] s = "SOURCE_QA"          -> {"TARGETS_FAN_OUT"} \cup Interruptions
      [] s = "TARGETS_FAN_OUT"    -> {"TRANSLATING"} \cup Interruptions
      [] s = "TRANSLATING"        -> {"SYNTHESIZING"} \cup Interruptions
      [] s = "SYNTHESIZING"       -> {"TIMING"} \cup Interruptions
      [] s = "TIMING"             -> {"LIP_SYNCING", "MIXING"} \cup Interruptions
      [] s = "LIP_SYNCING"        -> {"MIXING"} \cup Interruptions
      [] s = "MIXING"             -> {"ENCODING"} \cup Interruptions
      [] s = "ENCODING"           -> {"TARGET_QA"} \cup Interruptions
      [] s = "TARGET_QA"          -> {"NEEDS_REVIEW", "READY"} \cup Interruptions
      [] s = "NEEDS_REVIEW"       -> {"READY", "TRANSLATING", "SYNTHESIZING",
                                      "TIMING", "LIP_SYNCING", "CANCELLED"}
      [] s = "READY"              -> {"PACKAGING", "NEEDS_REVIEW", "CANCELLED"}
      [] s = "PACKAGING"          -> {"COMPLETE"} \cup Interruptions
      [] s = "COMPLETE"           -> {"PACKAGING"}
      [] s = "RETRY_WAIT"         -> WorkingStates
                                       \cup {"FAILED", "CANCEL_REQUESTED"}
      [] s = "CANCEL_REQUESTED"   -> {"CANCELLED", "FAILED"}
      [] s \in {"FAILED", "CANCELLED"} -> {}]

CanTransition(from, to) == to \in TRANSITIONS[from]

(***************************************************************************)
(* The pipeline of one target: the stages a worker executes, in the order  *)
(* of TARGET_STAGE_ORDER (apps/api/src/orchestrator/local.ts).             *)
(***************************************************************************)
TargetStages == {"TRANSLATING", "SYNTHESIZING", "TIMING", "LIP_SYNCING",
                 "MIXING", "ENCODING", "TARGET_QA", "PACKAGING"}

\* nextStage: what follows a stage that succeeded, for a target with
\* (lips = TRUE) or without (lips = FALSE) a lip-sync stage.
NextStage(lips, current) ==
    CASE current = "TRANSLATING"  -> "SYNTHESIZING"
      [] current = "SYNTHESIZING" -> "TIMING"
      [] current = "TIMING"       -> IF lips THEN "LIP_SYNCING" ELSE "MIXING"
      [] current = "LIP_SYNCING"  -> "MIXING"
      [] current = "MIXING"       -> "ENCODING"
      [] current = "ENCODING"     -> "TARGET_QA"
      [] current = "TARGET_QA"    -> "NEEDS_REVIEW_GATE"
      [] current = "PACKAGING"    -> "COMPLETE"

\* RESTART_STATE: where a regeneration of an artefact kind re-enters.
RegenerateStages == {"translation", "voice", "timing", "lipsync"}

RestartState(kind) ==
    CASE kind = "translation" -> "TRANSLATING"
      [] kind = "voice"       -> "SYNTHESIZING"
      [] kind = "timing"      -> "TIMING"
      [] kind = "lipsync"     -> "LIP_SYNCING"
==============================================================================
