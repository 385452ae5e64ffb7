--------------------------- MODULE TargetArtefacts ---------------------------
(***************************************************************************)
(* What one target is made of, and what its reviewers sign: translations,  *)
(* approvals, QC issues and speech renders (rows), and the audio, picture  *)
(* and media the workers write under one prefix per target and stage       *)
(* (files; a stage that runs again writes over them).                      *)
(*                                                                         *)
(*   apps/api/src/orchestrator/local.ts     results, gate, regeneration    *)
(*   apps/api/src/services/review.ts        edit, resolve, approve         *)
(*   services/media-worker/.../stages/      what each stage reads, writes  *)
(*                                                                         *)
(* A stage's execution and its result are one action: the reviewer's       *)
(* requests are refused while a stage runs, except resolveIssue, and what  *)
(* a stage reads is not touched by that.  Queue, retries and workers are   *)
(* TargetPipeline.  The providers are real ones (APP_ENV aws): a render    *)
(* has audio and a lip-synced video.  A generation of a translation is a   *)
(* number, 0 for none.                                                     *)
(***************************************************************************)
EXTENDS Naturals, JobStates

CONSTANTS
    Segments,    \* the segments of the transcript
    SpeakerOf,   \* who speaks each of them
    LipSync,     \* target_jobs.lip_sync, on a source with video
    Fits,        \* whether speech can be fitted into its slot: what may happen
    Edits,       \* bound: manual edits in a behaviour
    Rounds,      \* bound: regenerations in a behaviour
    None

ASSUME ArtefactsAssumption ==
    /\ Segments # {}
    /\ LipSync \in BOOLEAN
    /\ Fits \subseteq BOOLEAN /\ Fits # {}
    /\ Edits \in Nat /\ Rounds \in Nat

\* A speech render: the generation it speaks, the round that made it, and
\* whether TIMING will find that it fits.
Take == [text : 1 .. 1 + Edits + Rounds, round : 0 .. Rounds, fits : Fits]

ASSUME NoneAssumption == None \notin Take

VARIABLES
    state,      \* target_jobs.state
    scope,      \* target_jobs.scope_segment_ids, null being every segment
    edits, round,   \* manual edits and regenerations so far
    text,       \* translation_versions: the current generation of a segment
    approved,   \* approvals: the generation a fresh approval is for, or 0
    open,       \* qc_issues: the segments on which issues are open
    measured,   \* qc_checks: the latest loudness and true-peak checks pass
    speech,     \* renders: the fresh speech render of a segment, or None
    raw,        \* files: speech/<segment>.wav of SYNTHESIZING
    fitted,     \* files: speech/<segment>.fit.wav of TIMING
    picture,    \* files: whose speech the lip-synced video shows
    mix,        \* files: the dialogue in mix.wav, None the original voice
    encode,     \* files: what the encoded media consists of
    order,      \* parameters of the PACKAGING task: the translations
    delivered   \* the deliverables of the packaged version

rows  == <<edits, round, text, approved, open, measured, speech>>
files == <<raw, fitted, picture, mix, encode>>
vars  == <<state, scope, rows, files, order, delivered>>

PerSegment(S) == [Segments -> S \cup {None}]

Init ==
    /\ state = "TRANSLATING" /\ scope = Segments
    /\ edits = 0 /\ round = 0
    /\ text = [s \in Segments |-> 0]
    /\ approved = [s \in Segments |-> 0]
    /\ open = {} /\ measured = TRUE
    /\ speech = [s \in Segments |-> None]
    /\ raw = speech /\ fitted = speech /\ picture = speech /\ mix = speech
    /\ encode = None /\ order = None /\ delivered = None

\* The stage that is running, and where its success leads.
Runs(stage) == state = stage /\ state' = NextStage(LipSync, stage)

\* A plausible bug: the mix is left among the stages that see the scope only.
MixToo == {"TRANSLATING", "SYNTHESIZING", "TIMING", "LIP_SYNCING", "MIXING"}

\* The stages that run on the regeneration scope only.
ScopedStages == {"TRANSLATING", "SYNTHESIZING", "TIMING", "LIP_SYNCING"}

\* The segments whose translations and fresh speech a stage is given.
Given(stage) == IF stage \in ScopedStages THEN scope ELSE Segments

\* f with g's values for the segments of S.
Override(f, S, g) == [s \in Segments |-> IF s \in S THEN g[s] ELSE f[s]]

Cleared(f, S, none) == Override(f, S, [s \in S |-> none])

-----------------------------------------------------------------------------
(* The stages. *)

\* TRANSLATING: a new generation for every segment given; what was spoken
\* and approved of the old one is stale.
Translate ==
    /\ Runs("TRANSLATING")
    /\ LET S == Given("TRANSLATING") IN
        /\ text' = Override(text, S, [s \in S |-> text[s] + 1])
        /\ speech' = Cleared(speech, S, None)
        /\ approved' = Cleared(approved, S, 0)
    /\ UNCHANGED <<scope, edits, round, open, measured, files, order, delivered>>

\* SYNTHESIZING: every current translation given is spoken.
Synthesize ==
    /\ Runs("SYNTHESIZING")
    /\ LET S == Given("SYNTHESIZING") IN \E fits \in [S -> Fits] :
        LET takes == [s \in S |->
                        [text |-> text[s], round |-> round, fits |-> fits[s]]]
        IN  /\ raw' = Override(raw, S, takes)
            /\ speech' = Override(speech, S, takes)
    /\ UNCHANGED <<scope, edits, round, text, approved, open, measured,
                   fitted, picture, mix, encode, order, delivered>>

\* A plausible bug: a segment that has a fitted file is skipped.
FitOnce ==
    /\ Runs("TIMING")
    /\ LET fitting == {s \in Given("TIMING") :
                        speech[s] # None /\ speech[s].fits /\ fitted[s] = None}
       IN  fitted' = Override(fitted, fitting, raw)
    /\ UNCHANGED <<scope, rows, raw, picture, mix, encode, order, delivered>>

\* TIMING: a fresh render that fits its slot is stretched into a
\* file of its own; one that does not is left as it is.
FitSpeech ==
    /\ Runs("TIMING")
    /\ LET fitting == {s \in Given("TIMING") :
                        speech[s] # None /\ speech[s].fits}
       IN  fitted' = Override(fitted, fitting, raw)
    /\ UNCHANGED <<scope, rows, raw, picture, mix, encode, order, delivered>>

\* find_speech_wav, for the segments in S that have a fresh render: the
\* fitted file if there is one, else the raw one.
SpeechFiles(S) ==
    [s \in Segments |->
        IF s \notin S \/ speech[s] = None THEN None
        ELSE IF fitted[s] # None THEN fitted[s] ELSE raw[s]]

\* LIP_SYNCING: one video of the whole episode from the speech given; no
\* speech at all is an error.
LipSyncVideo ==
    /\ Runs("LIP_SYNCING")
    /\ \E s \in Given("LIP_SYNCING") : speech[s] # None
    /\ picture' = SpeechFiles(Given("LIP_SYNCING"))
    /\ UNCHANGED <<scope, rows, raw, fitted, mix, encode, order, delivered>>

\* MIXING: the dialogue of the speech given.
Mix ==
    /\ Runs("MIXING")
    /\ mix' = SpeechFiles(Given("MIXING"))
    /\ UNCHANGED <<scope, rows, raw, fitted, picture, encode, order, delivered>>

\* ENCODING: the mix, on the lip-synced video where one exists.
Encode ==
    /\ Runs("ENCODING")
    /\ encode' = [audio |-> mix, video |-> picture]
    /\ UNCHANGED <<scope, rows, raw, fitted, picture, mix, order, delivered>>

\* A plausible bug: the issues that are open are not looked at.
ApprovalsSuffice(fresh, issues) ==
    issues \subseteq Segments /\ \A s \in Segments : fresh[s] = text[s]

\* allSegmentsApproved and no open issue.
GatePasses(fresh, issues) ==
    issues = {} /\ \A s \in Segments : fresh[s] = text[s]

\* Through READY into packaging; the task's parameters are fixed here.
StartPackaging == state' = "PACKAGING" /\ order' = text

\* The checks of a run and the issues it found, which are added to those still
\* open.  A loudness or a true peak out of bounds fails its check but opens no
\* issue.
PersistQa(found) == open' = open \cup found /\ measured' \in BOOLEAN

\* TARGET_QA: every segment is looked at again, whatever the scope was, and
\* the gate is asked.  The scope of the regeneration ends.
TargetQA ==
    /\ state = "TARGET_QA"
    /\ \E found \in SUBSET Segments :
        /\ PersistQa(found)
        /\ IF GatePasses(approved, open')
           THEN StartPackaging
           ELSE state' = "NEEDS_REVIEW" /\ UNCHANGED order
    /\ scope' = Segments
    /\ UNCHANGED <<edits, round, text, approved, speech, files, delivered>>

\* The deliverables of the package version: captions and transcript from the
\* parameters, media from the encoded file.
PersistPackage == delivered' = [text |-> order, media |-> encode]

\* PACKAGING
Package ==
    /\ Runs("PACKAGING") /\ PersistPackage
    /\ UNCHANGED <<scope, rows, files, order>>

\* A stage fails for good, or the job is cancelled.
Abandon ==
    /\ \/ IsWorking(state) /\ state' = "FAILED"
       \/ state \notin TerminalStates /\ state' = "CANCELLED"
    /\ UNCHANGED <<scope, rows, files, order, delivered>>

-----------------------------------------------------------------------------
(* The reviewers. *)

\* The segments a regeneration is about: the voice of a speaker is one.
ScopeOf(kind, s) ==
    IF kind = "voice" THEN {u \in Segments : SpeakerOf[u] = SpeakerOf[s]} ELSE {s}

\* Plausible bugs: approvals outside of the scope are dropped; or none is.
RegenerateClearsAll(kind, s) ==
    /\ state = "NEEDS_REVIEW" /\ round < Rounds
    /\ kind = "lipsync" => LipSync
    /\ LET S == ScopeOf(kind, s) IN
        /\ scope' = S
        /\ speech' = IF kind \in {"translation", "voice"}
                     THEN Cleared(speech, S, None) ELSE speech
        /\ approved' = [u \in Segments |-> 0]
        /\ open' = open \ S
    /\ round' = round + 1
    /\ state' = RestartState(kind)
    /\ UNCHANGED <<edits, text, measured, files, order, delivered>>

RegenerateKeepsApprovals(kind, s) ==
    /\ state = "NEEDS_REVIEW" /\ round < Rounds
    /\ kind = "lipsync" => LipSync
    /\ LET S == ScopeOf(kind, s) IN
        /\ scope' = S
        /\ speech' = IF kind \in {"translation", "voice"}
                     THEN Cleared(speech, S, None) ELSE speech
        /\ open' = open \ S
    /\ round' = round + 1
    /\ state' = RestartState(kind)
    /\ UNCHANGED <<edits, text, approved, measured, files, order, delivered>>

\* A plausible bug: work under way does not keep a reviewer from it.
RegenerateAnyTime(kind, s) ==
    /\ state \notin TerminalStates /\ round < Rounds
    /\ kind = "lipsync" => LipSync
    /\ LET S == ScopeOf(kind, s) IN
        /\ scope' = S
        /\ speech' = IF kind \in {"translation", "voice"}
                     THEN Cleared(speech, S, None) ELSE speech
        /\ approved' = Cleared(approved, S, 0)
        /\ open' = open \ S
    /\ round' = round + 1
    /\ state' = RestartState(kind)
    /\ UNCHANGED <<edits, text, measured, files, order, delivered>>

\* POST .../regenerate: what lies downstream is stale, and the pipeline
\* restarts with that scope.
Regenerate(kind, s) ==
    /\ state = "NEEDS_REVIEW" /\ round < Rounds
    /\ kind = "lipsync" => LipSync
    /\ LET S == ScopeOf(kind, s) IN
        /\ scope' = S
        /\ speech' = IF kind \in {"translation", "voice"}
                     THEN Cleared(speech, S, None) ELSE speech
        /\ approved' = Cleared(approved, S, 0)
        /\ open' = open \ S
    /\ round' = round + 1
    /\ state' = RestartState(kind)
    /\ UNCHANGED <<edits, text, measured, files, order, delivered>>

\* PUT .../translation: a generation written by hand.
EditTranslation(s) ==
    /\ state = "NEEDS_REVIEW" /\ edits < Edits
    /\ edits' = edits + 1
    /\ text' = [text EXCEPT ![s] = @ + 1]
    /\ approved' = [approved EXCEPT ![s] = 0]
    /\ speech' = [speech EXCEPT ![s] = None]
    /\ UNCHANGED <<state, scope, round, open, measured, files, order, delivered>>

\* Accepting or dismissing an issue, whatever the target is doing.
ResolveIssue(s) ==
    /\ s \in open
    /\ open' = open \ {s}
    /\ UNCHANGED <<state, scope, edits, round, text, approved, measured, speech,
                   files, order, delivered>>

\* POST .../approve: segments with an open issue are refused; then tryReady.
Approve(S) ==
    /\ state = "NEEDS_REVIEW" /\ S # {} /\ S \cap open = {}
    /\ approved' = Override(approved, S, text)
    /\ IF GatePasses(approved', open)
       THEN StartPackaging
       ELSE UNCHANGED <<state, order>>
    /\ UNCHANGED <<scope, edits, round, text, open, measured, speech, files,
                   delivered>>

-----------------------------------------------------------------------------
WorkerStep == Translate \/ Synthesize \/ FitSpeech \/ LipSyncVideo \/ Mix
                \/ Encode \/ TargetQA \/ Package

ReviewerStep ==
    \/ \E kind \in RegenerateStages, s \in Segments : Regenerate(kind, s)
    \/ \E s \in Segments : EditTranslation(s) \/ ResolveIssue(s)
    \/ \E S \in SUBSET Segments : Approve(S)

Next == WorkerStep \/ ReviewerStep \/ Abandon

Spec == Init /\ [][Next]_vars

-----------------------------------------------------------------------------
(* What is checked. *)

Generation == 0 .. 1 + Edits + Rounds

\* Every row and every file holds a value the code can write.
TypeOK ==
    /\ state \in TargetStages \cup {"NEEDS_REVIEW"} \cup TerminalStates
    /\ scope \subseteq Segments /\ scope # {}
    /\ edits \in 0 .. Edits /\ round \in 0 .. Rounds
    /\ text \in [Segments -> Generation] /\ approved \in [Segments -> Generation]
    /\ open \subseteq Segments /\ measured \in BOOLEAN
    /\ \A f \in {speech, raw, fitted, picture, mix} : f \in PerSegment(Take)
    /\ encode \in [audio : PerSegment(Take), video : PerSegment(Take)] \cup {None}
    /\ order \in [Segments -> Generation] \cup {None}
    /\ delivered \in [text : [Segments -> Generation],
                      media : [audio : PerSegment(Take),
                               video : PerSegment(Take)]] \cup {None}

\* Nothing is packaged that a reviewer has not signed: while a target is
\* packaged and ever after, every segment's approval is for exactly the
\* generation in the deliverables, and no issue is open (FR-042), although
\* edits and regenerations change the text below the approvals.
OnlyApprovedPackaged ==
    /\ state \in {"PACKAGING", "COMPLETE"} =>
          open = {} /\ \A s \in Segments : approved[s] = order[s]
    /\ state = "COMPLETE" => delivered.text = order

\* An approval is lost only with what it approved: by an edit of that very
\* segment, or a regeneration that has the segment in its scope (BR-04,
\* docs/product-spec.md:218).
ApprovalsPersist ==
    [][\A s \in Segments : approved'[s] # approved[s] /\ approved'[s] = 0 =>
          text'[s] # text[s] \/ (s \in scope' /\ state' # "NEEDS_REVIEW")]_vars

\* Quality control never lets a target pass without its reviewers: whatever
\* was approved before, something in the run's scope is not any more ("Beta
\* targets always need review", readyGate).
QaLeadsToReview ==
    [][state = "TARGET_QA" => state' # "PACKAGING"]_vars

\* TIMING leaves the files of a segment it cannot fit alone, and an earlier
\* round's fitted file is found before the raw one (common.py:168): `file` is
\* that file, of a take that did fit, in the place of the fresh render.
LeftOver(s, file) ==
    /\ speech[s] # None /\ ~speech[s].fits
    /\ file # None /\ file.fits /\ file.round < speech[s].round

\* Once mixed, the mix has for every segment with a fresh render exactly that
\* render, whatever was regenerated in whichever scope: no segment is left out
\* and nothing older survives, but what LeftOver names.
MixIsCurrent ==
    state \in {"ENCODING", "TARGET_QA", "PACKAGING", "COMPLETE"} =>
        \A s \in Segments : speech[s] # None =>
            mix[s] = speech[s] \/ LeftOver(s, mix[s])

\* What is delivered speaks the text it shows, whatever is edited and
\* regenerated ("Regenerating an artefact at a stage invalidates everything
\* downstream", invalidation/graph.ts:4), but for two cases.  A text edited
\* since it was spoken is packaged without being spoken again, and then no
\* render is fresh; and a fresh render may be left out for an older file.
SpokenAsTranslated ==
    state = "COMPLETE" =>
        \A s \in Segments : LET heard == delivered.media.audio[s] IN
            /\ speech[s] # None => speech[s].text = delivered.text[s]
            /\ \/ heard # None /\ heard.text = delivered.text[s]
               \/ speech[s] = None /\ edits > 0
               \/ LeftOver(s, heard)

(***************************************************************************)
(* The life cycle that TargetPipeline implements with a queue, from the    *)
(* side of the artefacts: every success of a stage, every judgement of     *)
(* the gate and every restart is one step of it.  A retry is part of its   *)
(* stage here, and a cancel is carried through at once.                    *)
(***************************************************************************)
It == "it"   \* this target

Phase ==
    CASE state \in TargetStages   -> "running"
      [] state = "NEEDS_REVIEW"   -> "review"
      [] state = "COMPLETE"       -> "complete"
      [] state = "FAILED"         -> "failed"
      [] OTHER                    -> "cancelled"

Lifecycle == INSTANCE TargetLifecycle WITH
    Targets <- {It}, LipSync <- IF LipSync THEN {It} ELSE {}, MaxAttempts <- 1,
    phase <- [t \in {It} |-> Phase],
    owed  <- [t \in {It} |-> IF state \in TargetStages THEN state ELSE None],
    tries <- [t \in {It} |-> IF state \in TargetStages THEN 1 ELSE 0]

\* Whatever is edited, approved, found and regenerated, the target is a target
\* of that life cycle: stages are performed once and in order, only a review
\* sends it back, and an end is final.
ImplementsLifecycle == Lifecycle!Spec
==============================================================================
