----------------------------- MODULE SourceAssets -----------------------------
(***************************************************************************)
(* The source half of the local orchestrator: what happens to the uploads  *)
(* of one project between the completed upload and the jobs made of it.    *)
(*                                                                         *)
(*   apps/api/src/orchestrator/local.ts   applyAssetResult, stage inputs   *)
(*   apps/api/src/services/jobs.ts        sourceOf                         *)
(*   apps/api/src/services/projects.ts    detailIn                         *)
(*   media-worker/.../validating.py, analyzing.py   outcomes of a stage    *)
(*                                                                         *)
(* A stage's row is claimed, leased and reported as in TargetPipeline: its *)
(* result is applied by one worker, under a lock on the row, and may be    *)
(* produced again as long as the row is live.  So a row is only `row[a]`.  *)
(* A transaction is one action, but for the one that stores an analysis:   *)
(* created_at is the time the transaction STARTS, and another analysis may *)
(* start later and commit earlier.                                         *)
(***************************************************************************)
EXTENDS Naturals, Sequences, SequencesExt, JobStates

CONSTANTS
    Assets,        \* source files that may be uploaded to the project
    Jobs,          \* localization jobs that may be created
    MaxAttempts,   \* TASK_MAX_ATTEMPTS
    None

AssetStages == {"VALIDATING", "ANALYZING"}

ASSUME SourceAssumption ==
    /\ MaxAttempts \in Nat \ {0}
    /\ None \notin Assets \cup AllStates
    /\ None \notin [stage : AssetStages, attempt : 1..MaxAttempts]

VARIABLES
    status,       \* assets.status, None before the upload is initialised
    validated,    \* assets whose metadata and sha256 are stored
    row,          \* the live stage_tasks row of an asset, or None
    transcripts,  \* source_transcripts in the order of created_at
    source,       \* projects.source_asset_id
    project,      \* projects.state
    job,          \* job -> what it has read, None before it is created
    overlapped    \* whether two analyses have ever been stored side by side

vars == <<status, validated, row, transcripts, source, project, job, overlapped>>

Row(stage, n) == [stage |-> stage, attempt |-> n]

Transcript == [asset : Assets, committed : BOOLEAN]

\* A transaction that stores a's analysis has begun and not ended.
Storing(a) == \E i \in DOMAIN transcripts :
    transcripts[i].asset = a /\ ~transcripts[i].committed

Move(a, to) == status' = [status EXCEPT ![a] = to]

Init ==
    /\ status = [a \in Assets |-> None]
    /\ validated = {}
    /\ row = [a \in Assets |-> None]
    /\ transcripts = <<>>
    /\ source = None
    /\ project = "draft"
    /\ job = [j \in Jobs |-> None]
    /\ overlapped = FALSE

-----------------------------------------------------------------------------
(* Uploads, as far as the project sees them. *)

InitUpload(a) ==
    /\ status[a] = None
    /\ Move(a, "UPLOADING")
    /\ UNCHANGED <<validated, row, transcripts, source, project, job, overlapped>>

AbortUpload(a) ==
    /\ status[a] = "UPLOADING"
    /\ Move(a, "CANCELLED")
    /\ UNCHANGED <<validated, row, transcripts, source, project, job, overlapped>>

\* UPLOADING -> QUARANTINED -> VALIDATING within the completing transaction.
StartAssetPipeline(a) ==
    /\ status[a] = "UPLOADING"
    /\ Move(a, "VALIDATING")
    /\ row' = [row EXCEPT ![a] = Row("VALIDATING", 1)]
    /\ UNCHANGED <<validated, transcripts, source, project, job, overlapped>>

-----------------------------------------------------------------------------
(* Results of the two stages. *)

Reportable(a, stage) == row[a] # None /\ row[a].stage = stage /\ ~Storing(a)

\* A retryable failure: missing tools, a provider that is slow or throttles.
AssetWaits(a) ==
    /\ row[a] # None /\ ~Storing(a)
    /\ row[a].attempt < MaxAttempts
    /\ CanTransition(status[a], "RETRY_WAIT")
    /\ Move(a, "RETRY_WAIT")
    /\ row' = [row EXCEPT ![a].attempt = @ + 1]
    /\ UNCHANGED <<validated, transcripts, source, project, job, overlapped>>

\* A plausible bug: the row of a rejected upload is left in the queue.
FailsUnsettled(a) ==
    /\ row[a] # None /\ ~Storing(a)
    /\ CanTransition(status[a], "FAILED")
    /\ Move(a, "FAILED")
    /\ project' = "draft"
    /\ UNCHANGED <<validated, row, transcripts, source, job, overlapped>>

\* Any other failure: the media is rejected and the project is a draft again,
\* whatever else it has.
AssetFails(a) ==
    /\ row[a] # None /\ ~Storing(a)
    /\ CanTransition(status[a], "FAILED")
    /\ Move(a, "FAILED")
    /\ row' = [row EXCEPT ![a] = None]
    /\ project' = "draft"
    /\ UNCHANGED <<validated, transcripts, source, job, overlapped>>

\* A plausible bug: the probe's results are stored with the analysis only.
ValidatedLater(a) ==
    /\ Reportable(a, "VALIDATING")
    /\ CanTransition(status[a], "ANALYZING")
    /\ Move(a, "ANALYZING")
    /\ row' = [row EXCEPT ![a] = Row("ANALYZING", 1)]
    /\ project' = "analyzing"
    /\ UNCHANGED <<validated, transcripts, source, job, overlapped>>

Validated(a) ==
    /\ Reportable(a, "VALIDATING")
    /\ CanTransition(status[a], "ANALYZING")
    /\ validated' = validated \cup {a}
    /\ Move(a, "ANALYZING")
    /\ row' = [row EXCEPT ![a] = Row("ANALYZING", 1)]
    /\ project' = "analyzing"
    /\ UNCHANGED <<transcripts, source, job, overlapped>>

\* The transaction of an analysis starts: created_at is set now.
AnalysisBegins(a) ==
    /\ Reportable(a, "ANALYZING")
    /\ transcripts' = Append(transcripts, [asset |-> a, committed |-> FALSE])
    /\ overlapped' = (overlapped \/ \E b \in Assets : Storing(b))
    /\ UNCHANGED <<status, validated, row, source, project, job>>

Pending(a) == CHOOSE i \in DOMAIN transcripts :
    transcripts[i].asset = a /\ ~transcripts[i].committed

\* A plausible bug: a failing transition does not undo what was inserted.
KeepsTranscript(a) ==
    /\ Storing(a) /\ ~CanTransition(status[a], "READY_TO_CONFIGURE")
    /\ transcripts' = [transcripts EXCEPT ![Pending(a)].committed = TRUE]
    /\ UNCHANGED <<status, validated, row, source, project, job, overlapped>>

\* From RETRY_WAIT the table refuses READY_TO_CONFIGURE: all is rolled back
\* and the row stays, to be executed again.
AnalysisRefused(a) ==
    /\ Storing(a) /\ ~CanTransition(status[a], "READY_TO_CONFIGURE")
    /\ transcripts' = RemoveAt(transcripts, Pending(a))
    /\ UNCHANGED <<status, validated, row, source, project, job, overlapped>>

Analyzed(a) ==
    /\ Storing(a) /\ CanTransition(status[a], "READY_TO_CONFIGURE")
    /\ transcripts' = [transcripts EXCEPT ![Pending(a)].committed = TRUE]
    /\ Move(a, "READY_TO_CONFIGURE")
    /\ row' = [row EXCEPT ![a] = None]
    /\ source' = a
    /\ project' = "ready"
    /\ UNCHANGED <<validated, job, overlapped>>

-----------------------------------------------------------------------------
(* What reads them: always the newest transcript, never "the job's". *)

Committed == {i \in DOMAIN transcripts : transcripts[i].committed}

\* A plausible bug: the oldest one.
Oldest == IF Committed = {} THEN None ELSE transcripts[Min(Committed)].asset

\* SELECT ... FROM source_transcripts ORDER BY created_at DESC LIMIT 1.
Latest == IF Committed = {} THEN None ELSE transcripts[Max(Committed)].asset

\* sourceOf: the asset a new job is made of.
Analysed == /\ source \in validated
            /\ status[source] = "READY_TO_CONFIGURE"
            /\ Latest # None

\* The job is created, its targets' first stages get their parameters.
CreateJob(j) ==
    /\ job[j] = None /\ Analysed
    /\ project' = "processing"
    /\ job' = [job EXCEPT ![j] = [asset |-> source, read |-> {Latest}]]
    /\ UNCHANGED <<status, validated, row, transcripts, source, overlapped>>

\* Any later stage of a target reads its segments, metadata and source uri.
BuildTargetParams(j) ==
    /\ job[j] # None
    /\ job' = [job EXCEPT ![j].read = @ \cup {Latest}]
    /\ UNCHANGED <<status, validated, row, transcripts, source, project, overlapped>>

-----------------------------------------------------------------------------
AssetResult(a) ==
    \/ AssetWaits(a) \/ AssetFails(a) \/ Validated(a)
    \/ AnalysisBegins(a)

AnalysisEnds(a) == AnalysisRefused(a) \/ Analyzed(a)

Next ==
    \/ \E a \in Assets :
         \/ InitUpload(a)  \/ AbortUpload(a)  \/ StartAssetPipeline(a)
         \/ AssetResult(a) \/ AnalysisEnds(a)
    \/ \E j \in Jobs : CreateJob(j) \/ BuildTargetParams(j)

Spec == Init /\ [][Next]_vars

\* A second retryable failure is refused, and the row is only executed again.
MayBeRefused(a) == row[a] # None /\ row[a].attempt \in 2..MaxAttempts - 1

\* A row's result arrives (TargetPipeline shows how) and transactions end.
Fairness == \A a \in Assets :
    /\ WF_vars(AssetResult(a) /\ ~MayBeRefused(a))
    /\ WF_vars(AnalysisEnds(a))

FairSpec == Spec /\ Fairness

-----------------------------------------------------------------------------
(* What is checked. *)

TypeOK ==
    /\ status \in [Assets -> {None, "UPLOADING", "VALIDATING", "ANALYZING",
                              "READY_TO_CONFIGURE", "RETRY_WAIT", "FAILED",
                              "CANCELLED"}]
    /\ validated \subseteq Assets
    /\ row \in [Assets ->
          {None} \cup [stage : AssetStages, attempt : 1..MaxAttempts]]
    /\ transcripts \in Seq(Transcript)
    /\ source \in Assets \cup {None}
    /\ project \in {"draft", "analyzing", "ready", "processing"}
    /\ \A j \in Jobs : job[j] # None => job[j].asset \in Assets

\* The asset's column and the queue agree: the row of a working asset is of
\* its stage, that of a waiting one is a repetition of the stage that failed,
\* and only validated media are analysed (FR-002, FR-003).
RowMatchesStatus ==
    \A a \in Assets :
        /\ status[a] \in AssetStages => row[a] = Row(status[a], 1)
        /\ status[a] = "RETRY_WAIT" => row[a] # None /\ row[a].attempt > 1
        /\ status[a] \notin AssetStages \cup {"RETRY_WAIT"} => row[a] = None
        /\ row[a] # None => (row[a].stage = "ANALYZING" <=> a \in validated)

\* Whatever uploads overlap or fail: the project's source and every asset
\* whose transcript may be read are ready and have the metadata and checksum
\* every stage's parameters are made of, so buildTargetParams never throws.
SourcesAreUsable ==
    /\ \A i \in DOMAIN transcripts : LET tr == transcripts[i] IN
          /\ tr.asset \in validated
          /\ tr.committed => status[tr.asset] = "READY_TO_CONFIGURE"
    /\ source # None => Latest # None /\ status[source] = "READY_TO_CONFIGURE"

\* An analysis that is executed again and again is stored at most once.
OneTranscriptPerAsset ==
    \A i, k \in DOMAIN transcripts :
        transcripts[i].asset = transcripts[k].asset => i = k

\* The analysis a job's stages read is that of its own asset ("analyzes the
\* source once", README.md:46), unless the project has been given another
\* source since, or two analyses were stored side by side, in which case the
\* project's source need not be the asset of its newest transcript.
JobsKeepTheirSource ==
    \A j \in Jobs :
        job[j] # None /\ ~overlapped /\ source = job[j].asset
           => job[j].read = {source}

\* The table refuses what the row of a retried upload may report: a second
\* retryable failure as long as attempts are left, and an analysis that
\* succeeds (local.ts:547 against pipeline-state.ts:93).  Nothing is moved, so
\* the row is executed again whenever its lease has run out.
Stuck(a) ==
    /\ status[a] = "RETRY_WAIT"
    /\ row[a].stage = "ANALYZING" \/ row[a].attempt < MaxAttempts

\* Every completed upload is settled, its row answered for and gone, whatever
\* else is uploaded and analysed beside it; only one whose stage is retried
\* may be stuck instead, although its retries are meant to end as well.
UploadsAreSettled ==
    \A a \in Assets : row[a] # None ~> (row[a] = None \/ Stuck(a))
==============================================================================
