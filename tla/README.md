# Polycast: a TLA+ model of the localization pipeline

This directory specifies, model-checks and in large part proves the control logic of
Polycast (`src/`): a service that takes a podcast episode, analyses it, and produces
one localized version per target language. Media work is done by workers that poll a
queue kept in PostgreSQL; people review each target before it is packaged; browsers
upload sources in parts, create jobs and follow them over an event stream. What can
go wrong there is a matter of order, timing and staleness, which is what these
modules are about. All paths below are relative to `src/`; `apps/api/src/` is left
out where the file name is enough.

- Run a model: `tlc -config PipelineSafety.cfg MCTargetPipeline.tla`
- Check the proofs of a module: `tlapm TargetPipelineProofs.tla`
- `PROJECT.json` lists components, runs, mutations of the model, the source lines of
  every definition, the finding, hazards and theorems.

## 1. Inventory

| Part | State it keeps | Operations | What is hard about it |
|---|---|---|---|
| **Job state machine** `packages/domain/src/state-machine/job-state.ts` | none; the table of legal transitions | `canTransition`, `transition` | every writer of a `state` column must agree with it |
| **Target pipeline** `orchestrator/local.ts` | `target_jobs` (state, attempt, scope) | `applyTargetResult`, `readyGate`, `startPackaging`, `regenerate`, `cancelTarget`; `cancel`, `retryTarget` in `services/jobs.ts` | results late, twice, or of a row meanwhile cancelled |
| **Stage task queue** `orchestrator/tasks.ts` | `stage_tasks` (status, attempt, lease, `not_before`) | enqueue, claim, heartbeat, settle, cancel | leases expire while their worker still works |
| **Worker loop** `services/media-worker/polycast_worker/runner.py` | the task in hand | claim, execute, heartbeat, post result | dies, stalls, loses the answer |
| **Completion of a job** `settleParentJob`, `JobService.cancel` | `localization_jobs.completed_at` | read all targets, update the job | reads without locks, lock order |
| **Artefacts, review, gate** `services/review.ts`, `local.ts`, worker `stages/` | translations, approvals, issues, renders (rows); audio, video (files) | stages; edit, regenerate, resolve, approve | what is stale, for whom, and what was signed |
| **Asset pipeline** `applyAssetResult`, `stages/validating.py`, `analyzing.py` | `assets`, transcripts, `projects.source_asset_id` | validate, analyse, retry, configure | overlapping analyses; transcripts replaced under running jobs |
| **Uploads** `services/uploads.ts`, `storage/*`, `apps/web/lib/upload.ts` | `uploads`, multipart upload in the store, record in the browser | init/resume, sign, put part, complete, abort, discard | database and object store are not one transaction; concurrent workers share batches |
| **Job creation** `JobService.create`, `idempotency.ts`, `estimate.ts`, `quotas.ts`, the wizard | idempotency keys, reservations, running targets, the wizard's steps | estimate, submit, create | concurrent requests against one budget and one quota; answers lost |
| **Event stream** `events/*`, `routes/events.ts`, `use-project-events.ts`, `processing-view.tsx` | `domain_events`, LISTEN connection, last event id, the screen | emit, notify, replay, subscribe, poll, fetch | gaps between replay and subscription, ids not in commit order, answers out of order |
| **Sign-in and sessions** `apps/web/app/auth/*`, `lib/auth-session.ts`, `auth/cognito.ts` | cookies shared by tabs, cached signing keys | callback, renewal, switch of organization, sign-out | handlers of several tabs overlap; keys rotate |
| **Web interface** `review-studio.tsx`, `wizard.tsx`, `lib/upload.ts` and others | selection, draft, pending requests | keys, buttons, forms, refetches | what is on the screen is not what the API holds |
| **Legacy transcript pipeline** `infra/lambda/process-transcript`, `podcast-language-encoder-stack.ts` | executions, Transcribe jobs, Polly tasks, objects | trigger, transcribe, translate, speak, poll | executions overlap and share names; calls are repeated |
| **Pure functions** `estimate.ts`, `media-time.ts`, `timing_fit.py`, `roles.ts`, `registry.ts` | none | | rounding, boundaries |
| **Storage drivers** `storage/s3.ts`, `local-fs.ts` | multipart uploads | create, sign, put, list, complete, abort | two drivers differ in what they refuse |
| **Step Functions adapter** `step-functions.ts`, `polycast-orchestration-stack.ts` | executions, task tokens | fan out, complete stage, cancel | deployed, not wired to the API |
| **Providers, views, migrations, infrastructure, contracts** | | | I/O, presentation or declarations |

How they interact: a user uploads a source (browser → store, then API); the
completed upload queues VALIDATING and ANALYZING for the asset; a job fans out into
targets, each with one queued row; a worker claims a row over HTTP, runs the stage,
writes files under the target's prefix and posts a result; the API applies it in one
transaction: settle the row, move the target, enqueue the next row, emit an event.
After TARGET_QA the gate sends the target to review; an approval of the last segment
packages it; a regeneration sends it back with a scope. Events reach the screens
through the outbox. Every handler is one PostgreSQL transaction at READ COMMITTED
that locks the rows it writes (`db/pool.ts`); where that is not enough to make it
atomic for what it reads (`settleParentJob`, job creation, the stored analysis,
completion of an upload) its module takes it apart.

What makes each part correct:

- *Pipeline and queue*: one live row per target; state and queue agree; only the
  row's owner moves a target; a cancel always ends; retries end.
- *Completion*: a job is complete only when its targets are; an outcome is final.
- *Artefacts*: nothing unsigned is packaged; approvals are neither lost nor kept
  wrongly; what is delivered speaks what it shows.
- *Assets*: only usable assets are configured; an analysis is stored once; a running
  job keeps the transcript it started with; every upload is settled.
- *Uploads*: what is processed is whole; progress is what is stored; a cancel tells
  the truth; no file gets another's parts; an uploader never hangs.
- *Creation*: one key makes one job, at the price shown; budget and quota hold.
- *Events*: a screen that says it is live is not stale for ever.
- *Sessions*: the organization chosen stays; a navigation ends on a page.
- *Review studio*: a draft is of the segment and the version on the screen; an
  approval is of a text that was seen.
- *Legacy encoder*: what is published is the newest, with all its audio, and
  executions end.

## 2. Modules

| Module | What it is | Proofs |
|---|---|---|
| `JobStates` | states, their classes, transition table, stage order, restart points | |
| `TargetLifecycle` | abstract: what one target is promised, without queue or workers | |
| `TargetPipeline` | targets, rows, leases, workers, users; refines `TargetLifecycle` | `TargetPipelineProofs` |
| `JobOutcome` | abstract: what the end of a job comes to, seen from its committed rows | |
| `JobCompletion` | results and a cancel as interleaved transactions with locks; refines `JobOutcome` | `JobCompletionProofs` |
| `TargetArtefacts` | translations, approvals, issues, speech and files of one target; refines `TargetLifecycle` | `TargetArtefactsProofs` |
| `SourceAssets` | from completed uploads to the transcripts jobs read | `SourceAssetsProofs` |
| `Uploads` | upload and asset rows, the multipart store (both drivers) | |
| `UploadOutcome` | abstract: what an upload comes to, seen from outside | |
| `MultipartUploader` | the uploaders in the browser, composed with `Uploads`; refines `UploadOutcome` | `MultipartUploaderProofs` |
| `JobEstimate` | cents per minute, tiers, low and high bound | |
| `JobLedger` | abstract: jobs made one at a time, and what they add up to | |
| `JobCreation` | wizards and `POST /localization-jobs`, on `JobEstimate`; refines `JobLedger` | `JobCreationProofs` |
| `LiveScreen` | outbox, hub, SSE stream, and the screen at its end | `BrowserProofs` |
| `ReviewStudio` | reviewers' screens and the requests they send | `BrowserProofs` |
| `Sessions` | tabs, cookies, handlers, identity pool and key caches | `BrowserProofs` |
| `EpisodeEncoder` | the legacy state machine with its Lambda function | `EpisodeEncoderProofs` |
| `MC*` | instances for TLC: values of constants, nothing else | |

`TargetPipeline`, `JobCompletion`, `SourceAssets` and `TargetLifecycle` share
`JobStates`. Modules meet at an interface each of them names: a row of
`SourceAssets` is claimed and reported as in `TargetPipeline`; `GateResult` of
`TargetPipeline` is decided in `TargetArtefacts`; `ReviewStudio` takes a
regeneration as one step and `TargetArtefacts` takes it apart; `LiveScreen` lets the
stream fail and `ReviewStudio` assumes that it works.

### TargetPipeline

`state` and `attempt` are the columns of `target_jobs`; `tasks` maps a row id to a
queued or claimed row (a settled row only answers "not claimed" to later reports, so
it is dropped, and its id is not reused while a worker remembers it); `holding` is
what each worker executes; `faults` bounds stalls and losses.

| Action | Code |
|---|---|
| `Claim` | `POST /tasks/claim`, `claimTask`; any runnable row stands for "the oldest" |
| `Heartbeat`, `LeaseStalls`, `LeaseAbandoned` | `heartbeatTask`, beats that are late, beats that stopped |
| `LoseResult` | a worker dies, or drops a result it cannot post; also a result whose body the contract rejects, which leaves the same state |
| `BackoffElapses` | `not_before` of a retry |
| `DiscardResult` … `RejectedResult` | the branches of `applyResult` / `applyTargetResult`, in their order; `RejectedResult` is `IllegalTransitionError`, which rolls everything back |
| `Cancel`, `RetryTarget`, `Approve`, `Regenerate` | the users' requests; `Approve` is the one that satisfies the gate |

A claim does not touch the target, so a retried stage runs while its target is still
in RETRY_WAIT; both the legality of its result and the finding come from there.
`GateResult` may also pass straight to PACKAGING, as `readyGate` is written;
`TargetArtefacts` shows (theorem `AlwaysReviewed`) that this branch is never taken.
READY is passed through within a transaction and never stored.

### JobCompletion

Transactions are taken apart, because `settleParentJob` reads the other targets'
rows without locking them. `report[t]` is where the transaction of t's result
stands, `saw[t]` what it read under its lock, `cancel`/`cancelSaw` the same for a
cancel, `lock`/`jobLock` who holds which row. `CancelLocks` takes the targets in any
order: they are inserted at one instant, so `ORDER BY created_at` does not order
them. `AbortReport`/`AbortCancel` are PostgreSQL breaking the one circle there can
be: the result holds its target and wants the job, the cancel holds the job and
wants that target. All of it implements `JobOutcome` (`ImplementsOutcome`): seen
from the committed rows, each transaction is one step that finds the targets as they
are, although the requests are taken apart and run at READ COMMITTED. This is what
entitles `TargetPipeline` and `TargetArtefacts` to take a handler as one action; the
one weakness left, a job that may stay uncompleted, is explicit in `Deliver` of
`JobOutcome`.

### TargetArtefacts

A stage's execution and result are one step: reviewers are refused while a stage
runs, except for resolving an issue, which no stage reads. A generation of a
translation is a number. A take (speech render) records the generation it speaks,
the regeneration round that made it and whether it will fit its slot; TIMING writes
no file for one that does not, and a file of an earlier round is then found first
(`LeftOver`). `raw`, `fitted`, `picture`, `mix`, `encode` are files under the
target's prefix (one per stage, not versioned: a later run writes over them);
`speech` are the fresh rows. `Given(stage)` is what `buildTargetParams` hands to a
stage: the segments in the regeneration's scope for `ScopedStages`, all of them
otherwise. Abstracted: several issues on one segment are one; severities (a critical
issue can be accepted, not dismissed); render rows of kinds lipsync, mix and encode,
which no code reads; the project has one transcript; real providers are assumed (the
local mock reports lip sync as not applied). Two modules thus take the same target
apart, `TargetPipeline` along its rows and workers and `TargetArtefacts` along what
its stages read and write. Both implement `TargetLifecycle` (`ImplementsLifecycle`;
here a stage is tried once and the target is the only one), so neither lets it do
what the other one rules out at the level they share.

### SourceAssets

`status` and `row` are an asset's column and its live task, `validated` the assets
whose metadata is stored, `transcripts` the rows of `source_transcripts` in the
order of `created_at`, `source` and `project` the project's columns, `job` what the
stages of a job have read. `StartAssetPipeline`, `Validated`, `AnalysisRefused`,
`Analyzed`, `AssetWaits` and `AssetFails` are the branches of `applyAssetResult`.
Storing an analysis is two steps (`AnalysisBegins`, then its commit), because
`created_at` is the time a transaction starts and another one may start later and
commit earlier. `BuildTargetParams` reads the `Latest` committed transcript of the
project, not the one of the job's asset.

### Uploads and MultipartUploader

`Uploads` is the API and the store: `upload`, `asset` the columns, `open`, `stored`,
`object` what the store has. Completing is two steps, since the store is not part of
the transaction: `Assemble` under a lock of the row, then `CommitComplete` or
`RollBackComplete`. `AbortUpload` meets a row that is locked, completed or active;
`Expire` is the bucket's rule for incomplete uploads. `s3` chooses the driver at the
start: the local one needs no open multipart upload. `MultipartUploader` adds the
browser: each uploader has a `phase`, the parts it counts as uploaded (`known`), the
queue, and per worker what it is doing: signing a batch (which the other workers
wait for), putting a part, waiting for a retry. `Submit`, `Start`, `PartStep`,
`Complete` … `Abort` follow `run`, the worker loop and the buttons, `AbortEarly` a
cancel while init is still unanswered; `record` is the browser's storage. Files have
a name and a size in common, which is all `init` compares, and differ in content; an
etag stands for the content. URLs become stale by a failed request only; time is not
modelled. All of it implements `UploadOutcome` (`ImplementsOutcome`): begun,
completed with a whole content or aborted, each in one step. An upload has its
content from the commit on: what the store assembled for a transaction that is not
over, or was rolled back, is nobody's yet. A PUT that arrives late, or a second
tab's `complete`, changes nothing any more; a tab that shows "completed" is right.

### JobEstimate and JobCreation

`JobEstimate` is the arithmetic of `estimate.ts` in whole cents with its ceilings.
In `JobCreation` `tab` is a wizard (step, choices, the estimate shown, requests
sent), `tx` the transaction of each request, `keys` the idempotency keys, `jobs` and
`running` what is committed. A request is taken apart at its statements: `Reserve`
inserts the key, waiting (`WaitEnds`) for another transaction that has inserted it;
`Replay` answers from the stored result; `ReadBudget`, `ReadQuota` and `Create`
follow, so other transactions commit in between. `raced` remembers that two
creations read side by side, `regained` that a target came back to work without a
look at the quota. A month has one budget and does not end; targets come to rest and
return (`TargetRests`, `TargetReturns`) at any time. `JobLedger` is what this comes
to (`ImplementsLedger`): one step makes a job under a key that has none, at the
price of the source as it is then and, unless creations have read side by side,
within what budget and quota leave at that moment, not at the moment they were read.
Reserved cents and running targets are one number each in it, which committed rows
must add up to.

### LiveScreen

`log` is `domain_events` in the order of commits, `drawn` its ids (drawn earlier),
`hub` the LISTEN connection with what it has not delivered, `phase` where the
handler of the stream stands between replay and subscription, `wire` what it has
written, `lastId` and `link` the browser, `asked` and `answers` its fetches.
`Replay` writes what is stored `After` the last id, in the order of the ids (the
query's ORDER BY, as a definition rather than a sort). `Replay` and `Subscribe` are
two steps as in `routes/events.ts`; what the hub delivers between them has nobody to
go to. `Show` applies an answer, whichever comes first; `FetchFails` is the catch of
`refresh`: the old view stays, with an error beside it (`error`). A stream has one
screen: that of the project (every event refetches) or that of a target under review
(events of this target, once it rests).

### ReviewStudio

`version`, `author`, `approved`, `open`, `state` are the rows of one target;
`screen` what a reviewer sees (`shown`), the selected segment, the draft and the
busy flag; `sent`, `reads`, `answers`, `events` the messages under way. One action
per control of the screen (`Keys`, `HeaderButton`, `ListButtons`, `PanelButtons`,
`EditForm`, `CommentForm`, each with the condition the component disables it by);
`Succeeds`, `Fails` and `Unanswered` are the ends of a request (the last: it was
served, and the answer lost), `Serve`, `FetchFails`, `Show` and `Hear` refetch and
event. `dark` has the segments whose newest text a screen has missed because a call
of its own failed, until it shows it. `seen` remembers the newest texts each screen
has shown, since answers of two refetches may arrive in either order. `Others` are
reviewers whose screens do not matter, and `OthersAsk` the kinds of requests they
make. The pipeline of a regeneration is one step (`PipelineReturns`).

### Sessions

`jar` holds the cookies all tabs share, `tab` what each one shows or waits for, with
what its handler has read; `known` and `recent` are the signing keys an instance of
the API has cached and whether it fetched them within the minute; `chosen` is the
organization the user chose last, `undone` whether a handler that had read another
one, or none, has stored what it found since. Every page links to the login page,
where the organization is switched (`Visit`). A handler reads the cookies when it
starts (`Refresh`, `Returns`, `Choose`) and writes them when it is answered
(`Renewed`/`RenewalFails`, `Callback`, `Chosen`), so two tabs' handlers overlap.
`Minute` lets the guard cookie go and a token expire, `Rotate` and `Revoke` are the
pool and an administrator.

### EpisodeEncoder

`exec` is an execution with its state and call of the Lambda function, `job` its
Transcribe job, `inv` where a function call stands, `speech` Polly's tasks, `text`
and `manifest` the output bucket, whose names are made of the episode id only.
`Trigger` delivers an event, in any order and perhaps again; `InvokeRetried` repeats
a call whose first may still run; `Dies` ends an execution (a failure or the
six-hour timeout) and not its function. `Chunks` cuts the sentences of a translation
as `process-transcript` does: a sentence is its length, the positions of its blanks
and whether the regular expression passes over it; each chunk is trimmed, so `heard`
is what is left of it.

## 3. What is checked

| Run | Instance, distinct states | Shows |
|---|---|---|
| `pipeline_safety` | 2 targets of one job (one with lip sync), 2 workers, 4 row ids, 2 attempts, 2 faults; 113,036 up to symmetry | `OneLiveTask`, `QueueMatchesState`, `OnlyTheOwnerMoves`, `ImplementsLifecycle` (refinement) |
| `pipeline_liveness` | 1 target, 2 workers, 3 ids, 2 attempts, 1 fault; 3,040 | `CancelCompletes`, `RetriesEnd` |
| `job_completion` | 3 targets; 19,179 | `CompletedMeansDone`, `DoneStaysDone`, `ImplementsOutcome` (refinement), `ResultsArrive` |
| `artefacts_safety` | 3 segments of 2 speakers, lip sync, 1 edit, 2 regenerations, takes that fit or not; 3,341,520 | `OnlyApprovedPackaged`, `MixIsCurrent`, `SpokenAsTranslated`, `ApprovalsPersist`, `QaLeadsToReview`, `ImplementsLifecycle` (refinement) |
| `source_assets` | 3 assets, 1 job, 3 attempts; 6,287 | `SourcesAreUsable`, `OneTranscriptPerAsset`, `JobsKeepTheirSource`, `UploadsAreSettled` |
| `uploads` | 2 uploaders (2 workers and 1) of different files, 2 parts, 2 upload ids, 2 tries, 1 fault, both drivers; 270,316 | `ProcessedIsWhole`, `ProgressIsStored`, `CancelIsTrue`, `NoForeignParts`, `ImplementsOutcome` (refinement), `UploadEnds` |
| `job_creation` | 2 wizards, 3 requests, 2 selections, durations 1 and 2, budget 160, quota 2, 1 lost answer; 1,496,629 | `OneJobPerKey`, `ChargedAsShown`, `WithinBudget`, `WithinQuota`, `ImplementsLedger` (refinement) |
| `live_screen` | 2 targets, either screen, 2 changes, 1 edit, 1 fault, 2 fetches; 370,981 | `LogHasNoHoles`, `ScreenCatchesUp` |
| `sessions` | 1 user, 2 organizations, 2 tabs, 2 instances, 2 keys, 1 sign-in, 1 minute, 1 fault; 1,411,748 | `ChosenSurvives`, `NavigationsEnd` |
| `review_studio` | 1 reviewer's screen and another reviewer, 2 segments (1 critical), 2 versions, 1 regeneration, 1 request, 1 read, 1 fault; 3,638,412 | `DraftIsOfTheSelected`, `ApprovedAsSeen` |
| `episode_encoder` | 1 file uploaded twice, 2 executions, 2 calls each, 2 targets, 1 fault; 228,939 | `PublishedIsNewest`, `AudioIsThere`, `EncodingEnds` |
| `retry_exhaustion` | 1 target, 2 row ids, 3 attempts, no fault | `RetriesEnd` **violated** |

`TypeOK` of all modules, `OneActiveUpload`, `Resumable`, `RowMatchesStatus`,
`SubmitIsAnswered`, `OnlyCircle`, `BatchesAreSigned` and `CompletesWithEveryPart`
are proved (section 5) and not checked once more.

**Bounds.** *Pipeline*: two workers are what a lease race needs, the one that
stalled and the one that took over; two targets are what a cancel of a whole job
needs to meet targets in different states. A target has at most one live row, and a
worker may remember one that is settled, so four ids (targets + workers) never block
an enqueue. Two attempts exercise a retry; with three the retries no longer end,
which is the finding. Each stall or loss starts the same race anew; two allow one in
the middle of another. *Completion*: three targets give two concurrent settlers and
a bystander. *Artefacts*: three segments are one in a regeneration's scope, one
outside of it with the same speaker, and one of another speaker; two regenerations
are one on top of another's leftovers, and of their takes any may fit or not, which
is what leaves an older file in front; one edit is enough to change a text after it
was spoken. *Assets*: two overlapping analyses and an asset that comes later; three
attempts (the default) let a second failure meet RETRY_WAIT. *Uploads*: two parts
leave one for each of two workers and let one worker fail while the other waits; two
upload ids are one that was lost and its successor; one fault is one lost answer,
roll-back or expiry, and everything it leaves behind is then explored. Only one user
(`Restless`) pauses, resumes, cancels and leaves, which the other uploader of the
shared upload has to live with. *Creation*: three requests are a double submit of
one key beside a rival; the budget admits one job of either selection and not two of
the larger one. *Screen*: two changes are what an inversion of ids and a gap need.
*Sessions*: two tabs overlap in every pair of handlers; two instances and two keys
make one that knows the new key and one that does not; one fault is a failed call or
a revoked membership, and a switch may be made from either tab as often as the user
likes. *Studio*: two segments are the selected one and another; one request and one
read under way already interleave with events and another reviewer, who only sends
what changes texts or approvals (`OthersAsk`; the theorems are for any); one fault
is a request or a refetch that fails. With one read no answer overtakes another; two
reads are too many states for a run, and the theorem `ApprovesWhatWasShown` covers
any number. *Encoder*: two uploads and two executions overlap or follow each other;
two calls are one and its repetition; the text begins with a stray "...", and its
sentence is as long as a chunk but for the blank after it, so its last part is
empty. That the chunks of other texts are whole is evaluated besides, for all up to
three sentences of a small kind (`SmallTextsAreWhole`).

**Deadlock** is checked in the pipeline and in `JobCompletion`, where it would be a
bug. Elsewhere the cfg turns it off, because the system or the bounded part of it
comes to rest: targets, jobs and uploads end, users need not do anything, and the
bounds run out.

**Fairness.** Users are never fair: nobody has to approve, cancel, retry, resume or
sign in. `TargetPipeline`: weak fairness of each worker's reporting, of abandoned
leases and of backoffs (a process that lives goes on; time passes), strong fairness
of claiming a row, because `claimTask` hands out the oldest runnable row, so no row
waits for ever although others keep appearing. `JobCompletion`: strong fairness of a
transaction's steps, because waiters for a PostgreSQL row lock are served in order
of arrival. `SourceAssets`: a row's result arrives, which `TargetPipeline` shows,
unless it is one of the results that are refused for ever (`MayBeRefused`), and a
transaction that has begun ends. `MultipartUploader`: each worker goes on, and the
end of an upload is answered. `LiveScreen`: transactions end, the hub and
EventSource reconnect, requests are served; strong fairness of the browser's
receiving, which a broken stream disables for a while. `Sessions`: a request is
answered and a redirect is followed; `NavigationsEnd` excepts a user who keeps
navigating in another tab for ever. `EpisodeEncoder`: each execution goes on as long
as it can do something, its functions, Transcribe and Polly included. Faults are
bounded: no system ends if every result is lost.

**History variables and exceptions.** Some properties are conditional on something
the code does not prevent: `raced` and `regained` (creation), `missed` and `crossed`
(screen), `overlapped` (assets, encoder), `strayed` (wizard), `undone` (sessions),
`Behind`, `seen` and `dark` (studio). Others except a state: `LeftOver` (artefacts),
`Stuck` (assets), `error` (screen), the phases of a cancel and another uploader's
completion (uploads), a sentence that had to be cut (encoder). Each one records the
case that breaks the property otherwise, and so names the weakness; section 4 lists
them. A hazard that is nothing but such a case has no property in `PROJECT.json`,
only a note.

**Properties are tested against mutations.** For every property of a passing run
there is a plausible slip in one definition (a dropped guard, a forgotten row, a
scope too wide) under which TLC finds the property violated. They stand next to the
definition they replace, as "A plausible bug".

## 4. What was found

**Retries never exhaust** (`retry_exhaustion`, `local.ts:583`). The second retryable
failure asks for RETRY_WAIT → RETRY_WAIT, which the table refuses; the transaction
rolls back and the row is executed again at every lease expiry. The default is three
attempts. The same loop takes a packaging that succeeds on its retry, as RETRY_WAIT
→ COMPLETE is refused (`local.ts:700`).

The modules also show, by the exceptions their properties need or by the branches
they contain, where the code falls short of what one would expect of it:

- *Completion*: two last targets that complete side by side each see the other
  unfinished, and `completed_at` stays empty (`local.ts:921`).
- *Artefacts*: the mix speaks an old take when the new one does not fit
  (`stages/common.py:168`); an edit reruns nothing, so approving it delivers
  captions the audio does not speak (`review.ts:335`), both against "invalidates
  everything downstream" (`invalidation/graph.ts:4`); after a scoped regeneration
  the whole video is synced to the scope's speech (`lip_syncing.py:120`); resolving
  the last issue does not ask the gate (`review.ts:357`); failed checks without an
  issue do not hold a target (`local.ts:785`, `quality.py:113`).
- *Assets*: two analyses stored side by side may leave a project whose source is not
  the asset of its newest transcript (`overlapped`). The row of an upload is
  executed for ever once a stage has failed twice of three attempts, or when an
  analysis succeeds on its retry (`Stuck`; `local.ts:547`, `pipeline-state.ts:93`). A second
  upload changes the segments of jobs under way (`local.ts:248`).
- *Uploads*: after a roll-back or an expiry the row stays active and every later
  init trips over it (`Resumable` needs `faults = 0`); "Discard" forgets only the
  browser's record; two files of one name and size share an upload. A cancel before
  init is answered has no upload to name, so the API hears nothing of it, although
  the screen shows "aborted" and `abort` "tells the API" (`upload.ts:198`); one
  during the assembly, or after another tab's completion, comes too late and shows
  the same.
- *Creation*: concurrent creations pass budget and quota together (`raced`);
  regenerations and approvals do not look at the quota (`regained`); an estimate is
  not bound to the source it was made for; the stepper stays usable while a request
  is under way (`wizard.tsx:133`); a reservation is never released, though the
  cancel dialog says so (`processing-view.tsx:286`), and is made although the
  estimate says otherwise when budgets are disabled (`estimate-step.tsx:139`).
- *Screen*: events that commit in another order than their ids are skipped by a
  replay; those that pass between replay and subscription, or while the hub is
  reconnecting, are lost to a stream that stays open (`missed`); an older answer may
  replace a newer one (`processing-view.tsx:36`); a refetch that fails while the
  stream is live is not repeated, so the old view stays beside its error message
  (`processing-view.tsx:45`); edits emit no events; the retry button shows for
  FAILED, the API accepts RETRY_WAIT only.
- *Sessions*: a second sign-in overwrites the state of the first
  (`auth-session.ts:72`); a late callback or a transient failure of a renewal signs
  a good session out; a 403 of `/me` counts as having no organization. The chosen
  organization does not always survive a renewal (`auth-session.ts:112`): a renewal
  whose profile call fails deletes it while the refresh token stays
  (`auth/refresh/route.ts:64`), and one that started before a switch of organization
  and ends after it stores the old one (`undone`).
- *Studio*: the answers of two refetches are shown in whatever order they arrive
  (`review-studio.tsx:94`), so the screen may fall back to an older text than it has
  shown and an approval then be of one no longer there; keys ignore the busy flag,
  and the first answer clears it for a second request; a draft is lost when the
  version changes; an approval while an event is under way is of a text that was not
  seen (`Behind`), and so is one after a refetch or an answer got lost (`dark`;
  `review-studio.tsx:105`, `:170`); a save carries no version and replaces whatever
  is current (`review.ts:300`); editing does not close an issue, though the hint
  says so (`review-studio.tsx:345`).
- *Encoder*: episodes of one base name share their outputs; an execution that
  overlaps another or died with its function running may overwrite newer outputs
  (`overlapped`); the manifest is written before the audio is there. A sentence that
  is longer than a chunk only by the blank after it is cut there, and the trim
  leaves an empty part to be spoken (`process-transcript/index.ts:209`).

## 5. What is proved

Every invariant and every action property of the runs, and the five refinements, are
proved for all values of the constants, from the assumptions named in the modules:
`PipelineAssumption`, `CompletionAssumption`, `ArtefactsAssumption`,
`SourceAssumption`, `UploaderAssumption`, `CreationAssumption` (selections are
finite), `ScreenAssumption`, `EventAssumption`, `StudioAssumption`,
`SessionsAssumption`, `EncoderAssumption`, `SentenceAssumption` (only the end of a
text is blank), `PartsAssumption` (`MaxParts` is not below the chunks of any
translation). Bounds are naturals, special values are distinct from the others, maps
have the right domains; nothing else. TLC evaluates all of them.

- `TargetPipelineProofs`: `TypeCorrect`, `NeverTwoTasks`, `QueueAlwaysMatches`,
  `OwnersMove`, `Refinement`. The inductive invariant is `TypeOK /\ OneLiveTask /\
  QueueMatchesState`. Neither of the last two is inductive alone: a handler replaces
  *its* row, so a second live row would survive it, and that there is no second one
  is `OneLiveTask`, which in turn holds because users enqueue only in review, where
  `QueueMatchesState` says that no row is left. `OwnersMove` and the refinement are
  then facts about single steps from a state of the invariant. The refinement maps a
  target's columns and its one row to phase, owed stage and tries; the CHOOSE in it
  is harmless because the row is unique.
- `JobCompletionProofs`: `TypeCorrect`, `CompletionIsSound`, `OutcomesAreFinal`,
  `TransactionsAreSteps`, `NoOtherCircle`. A transaction under way holds its
  target's lock and what it saw is the state (`ResultHoldsRow`), a cancel holds the
  rows it has read at their present state (`CancelHoldsRows`), and whoever wants the
  job's row has seen every other target done (`SettlersSawTheEnd`). That the
  unlocked read is sound rests on the last: terminal states are never left, which is
  `OutcomesAreFinal`. From the same invariant every step is a step of `JobOutcome`
  or changes no committed row: a commit finds its target as it was read, and a
  cancel finds all of them so. `NoOtherCircle` says which deadlocks there can be:
  locks are held only by transactions under way (`Holders`), so a result that cannot
  have the job's row waits for one that already settles it and will commit, or for
  the cancel that waits for it in turn.
- `TargetArtefactsProofs`: `TypeCorrect`, `SignedOff`, `AlwaysReviewed`,
  `ApprovalsStay`, `KeepsToLifecycle`, `MixStaysCurrent`, `DeliversWhatIsSpoken`,
  whichever takes fit. `OnlyApprovedPackaged` needs `Signed` (it also ties the
  packaging task's parameters to the text); that the gate after QC never passes
  needs `ScopeUnsigned`: from a regeneration to the gate, some segment in scope has
  no approval. `MixStaysCurrent` and `DeliversWhatIsSpoken` follow a text through
  the files: what is spoken is in `raw`, then, if it fits, in `fitted`, then in
  `mix` (`RawIsSpoken`, `FittedIsSpoken`, `Mixed`, `Spoken`, `EncodeIsMix`), each as
  far as the stage reached requires; a fitted file that is not the take's own is of
  an earlier round and did fit then (`FittedIsOlder`), which is the case `LeftOver`
  excepts. That the target keeps to `TargetLifecycle` follows from what each step
  does to the column, with `AlwaysReviewed` for the gate.
- `SourceAssetsProofs`: `TypeCorrect`, `RowsMatch`, `StoredOnce`, `AlwaysUsable`,
  `KeepsSource`. An analysis is stored once because a transcript not yet committed
  keeps its asset's row (`Stored`), on which nothing else is then applied, and a
  committed one is of an asset that is ready, which has no row any more. That the
  newest transcript is the source's (`NewestIsSource`) holds while no two analyses
  are stored side by side: then an uncommitted one is the last of the table, and
  what it commits becomes both the newest and the source. A job's asset is ready for
  good (`JobsAreOfReady`), so it cannot become the source a second time, which is
  why a job never sees another transcript as long as its source stays.
- `MultipartUploaderProofs`: `TypeCorrect`, `SharesOneUpload`, `ProcessesWholes`,
  `CountsWhatIsStored`, `CancelsTruly`, `StaysResumable`, `KeepsForeignPartsOut`,
  `UploadsEndOnce`, `NoBatchIsMissed`, `NoPartIsForgotten`. One invariant is of the
  server (rows, store and locks agree: `ServerOK`, `Coupled`, `OneActiveUpload`,
  `Resumable`, `Kept`), one of the uploaders (`Parted`: a worker at work has a part;
  `Told`: what a cancel has been told, in each phase it may be asked for in;
  `Remembers`: what is counted or recorded as uploaded is stored). The composition
  is by operation: each operation of `Uploads` keeps the first, and a part stored in
  an open upload may be replaced but is never taken away, so what uploaders remember
  stays true. For the refinement of `UploadOutcome` the operations are sorted by
  what they do to a row and its content (`OutcomeOfServer`), the steps of the tabs
  by whether one begins to show "completed" (`HeardNext`); that none stops showing
  it needs `PartsOver`: who has come to the end of the parts has no worker whose
  failure could still fail the upload. The last two are why workers of one tab that
  share a queue and a batch of URLs neither wait for ever nor finish early: for
  every part a worker waits for, another of the tab is having its batch signed
  (`SignOK`), and while none has failed every part is counted, queued or in some
  worker's hand (`Somewhere`).
- `JobCreationProofs`: `TypeCorrect`, `OneJob`, `Answers`, `ChargesAsShown`,
  `KeepsToBudget`, `KeepsToQuota`, `CreationIsSerial`; `BoundsInOrder` and
  `EstimateGrows` about `JobEstimate`. `KeyInv` says who holds a key: one
  transaction at work or one job, and that the job is what the key's result says;
  `TabInv` what a wizard has been told and what its requests carry. Budget and quota
  hold as long as at most one transaction has read (`Money`, `Crowd`): what it has
  read is then still true when it makes its job. The reserved total is the library's
  sum, a recursive function over the subsets of its domain. That there is one
  (`SumExists`), that it does not depend on the order of its terms (`RunningSum`)
  and grows by one term with one job (`SumOfOneMore`) is proved by a smallest
  counterexample, a number or a finite set, where one would use induction.
  `CreationIsSerial` is the refinement of `JobLedger`: `Create`, at the end of a
  transaction, is its step, since nothing read in between has changed (`Money`,
  `Crowd`) and no other job has the key (`KeyInv`); `Untold` says that only a wizard
  that is done has been told of a job, so it is told once. All steps before are
  stutters, except that the second of two that read side by side is `Overlap`. Of
  the estimate it is proved that the low bound is never above the high one, which is
  what a job reserves, and that the high one grows with source and selection
  (`SumMonotone`).
- `EpisodeEncoderProofs`: `TypeCorrect`, `PublishesTheNewest`, `AllIsSpoken`. The
  invariant says how far an execution is (`Course`), where a call is among the
  languages (`Place`), that without an overlap only the call made last by the
  execution started last may still write (`Alone`), that the bucket holds what this
  call has written so far (`Own`), and that it read the newest upload unless the
  event of a newer one is on its way (`Reads`). That the parts a translation is cut
  into say together what its sentences say, none is longer than a chunk and only a
  sentence that is cut leaves an empty one (`ChunksAre`) follows the folds of the
  cut step by step, again by a smallest counterexample (`UpTo`).
- `BrowserProofs` is about three modules, of which it extends `ReviewStudio` and
  takes the other two as instances; their assumptions are hypotheses of the
  theorems.
  - *Studio*: `TypeCorrect`, `DraftsStayPut`, `ApprovesWhatWasShown`. The screens
    keep their types because the walk through the issues (`NextOpenIssue`, a minimum
    over a finite set) never leaves the segments. For the approvals, `Known` relates
    the copies of a text under way: a reviewer to whom nothing is under way has seen
    the newest text of every segment unless another reviewer wrote it or a call that
    would have shown it failed (`Told`), and no copy is ahead of the database
    (`NotAhead`).
  - *Sessions*: `SessionsTypeCorrect`, `ChoiceSurvives` (of `ChosenSurvives`). What
    a handler has read is typed (`Args`), and as long as the user chosen for is the
    one signed in the cookie names the choice unless `undone` (`Kept`): the choice
    is a membership of its user (or is over), so a handler that has read it has it
    confirmed and stores it again. What one that has read something else stores is
    what `undone` says, in whichever tab and after whatever failure.
  - *Stream*: `StreamTypeCorrect`, `MissesNothing` (of `LogHasNoHoles`). Always, ids
    are drawn once (`Drawn`) and what stream and screen know is in the log
    (`Placed`). While no event has passed the stream and ids follow the commits
    (`Tracked`), four facts hold together: the hub's queue is the end of the log
    (`QueueIsTheEnd`), nothing arrives from before the first event received
    (`FromTheFirst`), no two events known have a missing one between them
    (`NoGaps`), and a stream that is on has whatever follows or will be handed it
    (`NothingBehind`). The property follows from `NoGaps` (what is missing comes
    after the last id) and `NothingBehind` (nothing is missing while the stream is
    on); the other two are what the hub and the first events of a stream need to
    keep these.

Only model-checked:

- liveness (`CancelCompletes`, `RetriesEnd`, `ResultsArrive`, `UploadsAreSettled`,
  `UploadEnds`, `ScreenCatchesUp`, `NavigationsEnd`, `EncodingEnds`): fairness and
  ENABLED are out of the prover's reach;
- the counterexample of `retry_exhaustion`;
- that no module deadlocks where deadlock is checked.

What is not claimed: where a property is conditional (section 3, history variables),
so is its theorem; and a theorem about a module is one about its abstractions
(section 2).

## 6. Not modelled

- *Step Functions adapter and the orchestration stack.* Deployed but not wired:
  `createApp` takes the local orchestrator only, so no execution of it meets the
  state modelled here. Reading it showed that both sides do not speak the same
  language yet: `FanOutInput` has `jobId`/`locale` where the machine expects
  `localizationJobId`/`targetLocale`; `completeStage` answers `{nextState}` where it
  chooses by `$.qa.needsReview`; a retry on `States.TaskFailed` also repeats
  `StageFailed`; no state has `HeartbeatSeconds`; a Map state has no Catch.
- *Two workers that write one file at once* (after a lease race;
  `docs/architecture.md:194`, `docs/product-spec.md:160`): a stage of
  `TargetArtefacts` is one step. `TargetPipeline` has the race, without files.
- *Providers*: clients that submit, poll and download; the outcome of a call is the
  outcome of its stage, which the modules choose freely. A retried sync.so stage
  submits (and pays for) its job again (`synclabs.py:212`).
- *Views, deliverables, projects, members, audit*: reads, and writes of one row that
  no other actor interprets.
- *Migrations, contracts, infrastructure declarations*: no behaviour of their own; a
  constraint or setting a module relies on is mapped there.
- *Pages that only show what they fetched, media, texts, formats, logging.*
- *Media time, speech fitting, capabilities, roles, the invalidation graph*: pure
  functions, tested at their boundaries, on which no interleaving depends.
- *Sizes, media types and the quotas of a source*: an upload has few parts here. The
  largest source the quota admits needs more 8 MiB parts than one multipart upload
  of the store takes (`packages/domain/src/quotas.ts:54`).
