-------------------------- MODULE MultipartUploader --------------------------
(***************************************************************************)
(* The browser's side of an upload (apps/web/lib/upload.ts): uploaders,    *)
(* each with a few concurrent workers that sign, PUT and retry the parts   *)
(* of one file, beside a record of the progress in the browser's storage.  *)
(* They run against the API and the object store of module Uploads.        *)
(*                                                                         *)
(* An uploader is one call of MultipartUploader.run: another tab, or the   *)
(* user starting again after a failure or a reload, is another uploader.   *)
(* A request and its answer are one step unless the answer is lost.  Which *)
(* of the remaining parts is next is a choice; time does not pass for      *)
(* signed urls, which only failures make stale.                            *)
(***************************************************************************)
EXTENDS Uploads

CONSTANTS
    Clients,    \* uploaders
    FileOf,     \* the file each one was given
    Workers,
    WorkersOf,  \* the concurrent workers of each uploader
    Tries,      \* maxAttempts for a part
    Restless    \* bound: the clients whose users pause, resume, discard and leave

ASSUME UploaderAssumption ==
    /\ FileOf \in [Clients -> Files]
    /\ WorkersOf \in [Clients -> SUBSET Workers]
    /\ Parts \subseteq Nat
    /\ Tries \in Nat \ {0} /\ MaxFaults \in Nat
    /\ None \notin Files \cup UploadIds \cup Parts \cup Workers \cup PartLists
    /\ None \notin {"active", "completed", "aborted", "assembling", "initializing",
                    "UPLOADING", "VALIDATING", "CANCELLED"}

VARIABLES
    phase,     \* what the uploader shows
    paused,
    id,        \* its upload, None before init
    known,     \* part -> etag the uploader counts as uploaded
    queue,     \* parts no worker has taken yet
    signed,    \* parts with a signed url
    signing,   \* the worker whose batch is being signed, None
    work,      \* worker -> what it is doing
    record,    \* the upload and parts in the browser's storage
    cancelled  \* uploaders the user has aborted, with their phase then

client == <<phase, paused, id, known, queue, signed, signing, work, cancelled>>

vars == <<server, client, record>>

Idle == [at |-> "gate", part |-> None, try |-> 0, batch |-> {}, on |-> None]

Ends == {"done", "dead"}

NoRecord == [upload |-> None, parts |-> NoParts]

Init ==
    /\ InitServer
    /\ phase = [c \in Clients |-> "idle"]
    /\ paused = [c \in Clients |-> FALSE]
    /\ id = [c \in Clients |-> None]
    /\ known = [c \in Clients |-> NoParts]
    /\ queue = [c \in Clients |-> {}]
    /\ signed = [c \in Clients |-> {}]
    /\ signing = [c \in Clients |-> None]
    /\ work = [c \in Clients |-> [w \in Workers |-> Idle]]
    /\ record = NoRecord
    /\ cancelled = [c \in Clients |-> None]

Phase(c, ph) == phase' = [phase EXCEPT ![c] = ph]

Work(c, w, to) == work' = [work EXCEPT ![c][w] = to]

Stopped(c) == cancelled[c] # None

\* persist
Persist(c) == record' = [upload |-> id'[c], parts |-> known'[c]]

-----------------------------------------------------------------------------
(* init *)

\* A plausible bug: the recorded parts are used whatever upload they are of.
TrustAnyRecord(u) == record.parts

\* Recorded parts are only those of this upload if the ids agree.
Recorded(u) == IF record.upload = u THEN record.parts ELSE NoParts

\* What is taken as uploaded: the store's list before the browser's.
Resumed(u) == [p \in Parts |->
    IF stored[u][p] # None THEN stored[u][p] ELSE Recorded(u)[p]]

\* The form is submitted.
Submit(c) ==
    /\ phase[c] = "idle" /\ Phase(c, "initializing")
    /\ UNCHANGED <<server, paused, id, known, queue, signed, signing, work, cancelled, record>>

Begin(c) ==
    \E u \in UploadIds :
        /\ phase[c] = "initializing" /\ CanInit(u)
        /\ Init_(u) /\ UNCHANGED faults
        /\ id' = [id EXCEPT ![c] = u]
        /\ known' = [known EXCEPT ![c] = Resumed(u)]
        /\ queue' = [queue EXCEPT ![c] = {p \in Parts : Resumed(u)[p] = None}]
        /\ Persist(c)
        /\ Phase(c, "uploading")
        /\ UNCHANGED <<paused, signed, signing, work, cancelled>>

\* The answer is lost, or S3 cannot list what it no longer has.
BeginFails(c) ==
    /\ phase[c] = "initializing"
    /\ \/ \E u \in UploadIds : CanInit(u) /\ Init_(u) /\ Fault
       \/ (\E u \in Active : ~Listable(u)) /\ UNCHANGED server
    /\ Phase(c, "failed")
    /\ UNCHANGED <<paused, id, known, queue, signed, signing, work, cancelled, record>>

-----------------------------------------------------------------------------
(* worker *)

Running(c) == id[c] # None /\ ~Stopped(c) /\ phase[c] # "gone"

\* After the gate: the next part, or nothing left to do.
TakePart(c, w) ==
    /\ Running(c) /\ ~paused[c] /\ work[c][w].at = "gate"
    /\ \/ LET p == CHOOSE n \in queue[c] : \A m \in queue[c] : n <= m IN
            /\ queue[c] # {}
            /\ queue' = [queue EXCEPT ![c] = @ \ {p}]
            /\ Work(c, w, [Idle EXCEPT !.at = "sign", !.part = p, !.try = 1])
       \/ queue[c] = {} /\ Work(c, w, [Idle EXCEPT !.at = "done"])
            /\ UNCHANGED queue
    /\ UNCHANGED <<server, record, phase, paused, id, known, signed, signing, cancelled>>

\* A batch is under way and this worker has not waited for one yet.
MustWait(c, w) == signing[c] # None /\ work[c][w].on = None

\* signedUrl: use the url there is, wait for the batch being signed, or sign
\* this part together with those still queued (signBatchSize is not reached).
SignedUrl(c, w) ==
    LET me == work[c][w] IN
    /\ Running(c) /\ me.at = "sign"
    /\ \/ me.part \in signed[c] /\ Work(c, w, [me EXCEPT !.at = "put"])
            /\ UNCHANGED signing
       \/ me.part \notin signed[c] /\ MustWait(c, w)
            /\ Work(c, w, [me EXCEPT !.at = "wait", !.on = signing[c]])
            /\ UNCHANGED signing
       \/ /\ me.part \notin signed[c] /\ ~MustWait(c, w)
          /\ Work(c, w, [me EXCEPT !.at = "lead",
                                   !.batch = {me.part} \cup (queue[c] \ signed[c])])
          /\ signing' = [signing EXCEPT ![c] = w]
    /\ UNCHANGED <<server, record, phase, paused, id, known, queue, signed, cancelled>>

\* What a worker does after a failed attempt at its part: the url is dropped
\* and it tries again after the gate, or the whole run fails.
AfterFailure(me) ==
    IF me.try < Tries
    THEN [Idle EXCEPT !.at = "again", !.part = me.part, !.try = me.try + 1]
    ELSE [Idle EXCEPT !.at = "dead"]

\* A plausible bug: who waits for a batch does not hear of its end.
Unheard(c, w, v) == FALSE

Waiting(c, w, v) == work[c][v].at = "wait" /\ work[c][v].on = w

\* The batch is signed; whoever waited for it looks for its url.
BatchSigned(c, w) ==
    LET me == work[c][w] IN
    /\ Running(c) /\ me.at = "lead"
    /\ Signable(id[c])
    /\ signed' = [signed EXCEPT ![c] = @ \cup me.batch]
    /\ signing' = [signing EXCEPT ![c] = None]
    /\ work' = [work EXCEPT ![c] = [v \in Workers |->
          IF v = w THEN [me EXCEPT !.at = "put", !.batch = {}]
          ELSE IF Waiting(c, w, v) THEN [@[v] EXCEPT !.at = "sign"] ELSE @[v]]]
    /\ UNCHANGED <<server, record, phase, paused, id, known, queue, cancelled>>

Fails(c, some) ==
    /\ work' = [work EXCEPT ![c] = [v \in Workers |->
          IF v \in some THEN AfterFailure(@[v]) ELSE @[v]]]
    /\ phase' = IF \E v \in some : work'[c][v].at = "dead"
                THEN [phase EXCEPT ![c] = "failed"] ELSE phase

\* A request for urls fails for everybody who waited for it.
BatchFails(c, w) ==
    /\ Running(c) /\ work[c][w].at = "lead"
    /\ \/ ~Signable(id[c]) /\ UNCHANGED server
       \/ Fault /\ UNCHANGED <<s3, upload, asset, open, stored, object, assembling>>
    /\ Fails(c, {w} \cup {v \in Workers : Waiting(c, w, v)})
    /\ signing' = [signing EXCEPT ![c] = None]
    /\ UNCHANGED <<record, paused, id, known, queue, signed, cancelled>>

\* The backoff is over.
TryAgain(c, w) ==
    /\ Running(c) /\ ~paused[c] /\ work[c][w].at = "again"
    /\ Work(c, w, [work[c][w] EXCEPT !.at = "sign"])
    /\ UNCHANGED <<server, record, phase, paused, id, known, queue, signed, signing, cancelled>>

\* PUT of a part: the etag is kept and the progress recorded; the url is not
\* needed again.
PartStored(c, w) ==
    LET me == work[c][w] IN
    /\ Running(c) /\ me.at = "put"
    /\ PutPart(id[c], me.part, FileOf[c]) /\ UNCHANGED faults
    /\ known' = [known EXCEPT ![c][me.part] = FileOf[c]]
    /\ UNCHANGED id /\ Persist(c)
    /\ signed' = [signed EXCEPT ![c] = @ \ {me.part}]
    /\ Work(c, w, Idle)
    /\ UNCHANGED <<phase, paused, queue, signing, cancelled>>

PartFails(c, w) ==
    LET me == work[c][w] IN
    /\ Running(c) /\ me.at = "put"
    /\ \/ ~Storable(id[c]) /\ UNCHANGED server
       \/ Fault /\ UNCHANGED <<s3, upload, asset, open, stored, object, assembling>>
    /\ Fails(c, {w})
    /\ signed' = [signed EXCEPT ![c] = @ \ {me.part}]
    /\ UNCHANGED <<record, paused, id, known, queue, signing, cancelled>>

-----------------------------------------------------------------------------
(* run, after the workers *)

AllDone(c) ==
    /\ Running(c) /\ phase[c] = "uploading"
    /\ \A w \in WorkersOf[c] : work[c][w].at = "done"
    /\ Phase(c, "completing")
    /\ UNCHANGED <<server, record, paused, id, known, queue, signed, signing, work, cancelled>>

ClientIdle == UNCHANGED <<paused, id, known, queue, signed, signing, work, cancelled>>

\* The request is accepted and the store assembles the object; from here on
\* the user's abort no longer stops it.
Complete(c) ==
    /\ phase[c] = "completing" /\ Acceptable(id[c], known[c]) /\ Assemble(id[c])
    /\ Phase(c, "assembling")
    /\ UNCHANGED <<faults, record>> /\ ClientIdle

\* An uploader that was aborted meanwhile waits for two answers.
Answered(c, ph) == Phase(c, IF Stopped(c) THEN "aborting" ELSE ph)

Completed(c) ==
    /\ phase[c] = "assembling"
    /\ CommitComplete(id[c]) /\ UNCHANGED faults
    /\ Answered(c, "completed") /\ record' = NoRecord /\ ClientIdle

\* The answer is lost, or the transaction rolls back.
CompletedUnheard(c) ==
    /\ phase[c] = "assembling"
    /\ Fault /\ (CommitComplete(id[c]) \/ RollBackComplete(id[c]))
    /\ Answered(c, "failed") /\ UNCHANGED record /\ ClientIdle

\* Somebody else has completed it: the answer is the same.
AlreadyCompleted(c) ==
    /\ phase[c] = "completing" /\ upload[id[c]] = "completed"
    /\ Phase(c, "completed") /\ record' = NoRecord
    /\ UNCHANGED server /\ ClientIdle

\* Aborted, or parts missing, overwritten or gone.
CompleteRefused(c) ==
    /\ phase[c] = "completing" /\ id[c] \notin assembling
    /\ \/ upload[id[c]] = "aborted"
       \/ upload[id[c]] = "active" /\ ~Acceptable(id[c], known[c])
    /\ Phase(c, "failed")
    /\ UNCHANGED <<server, record>> /\ ClientIdle

-----------------------------------------------------------------------------
(* The user, and the buttons there are. *)

\* Whether the form is busy with an upload.
Busy(c) == phase[c] \in {"initializing", "uploading", "paused", "completing",
                          "assembling", "aborting"}

\* The interrupted upload that the page found when it was opened is discarded:
\* its progress is forgotten, the upload itself stays as it is in the API and
\* in the store.
Discard(c) ==
    /\ phase[c] = "idle" /\ record # NoRecord
    /\ record' = NoRecord
    /\ UNCHANGED <<server, client>>

Pause(c) ==
    /\ ~paused[c] /\ phase[c] = "uploading"
    /\ paused' = [paused EXCEPT ![c] = TRUE] /\ Phase(c, "paused")
    /\ UNCHANGED <<server, record, id, known, queue, signed, signing, work, cancelled>>

Resume(c) ==
    /\ paused[c] /\ phase[c] = "paused"
    /\ paused' = [paused EXCEPT ![c] = FALSE] /\ Phase(c, "uploading")
    /\ UNCHANGED <<server, record, id, known, queue, signed, signing, work, cancelled>>

\* Requests for urls and parts are cancelled; nobody looks at the rest again.
WorkersReturn(c) ==
    /\ work' = [work EXCEPT ![c] = [w \in Workers |-> Idle]]
    /\ queue' = [queue EXCEPT ![c] = {}]
    /\ signed' = [signed EXCEPT ![c] = {}]
    /\ signing' = [signing EXCEPT ![c] = None]
    /\ known' = [known EXCEPT ![c] = NoParts]
    /\ paused' = [paused EXCEPT ![c] = FALSE]
    /\ UNCHANGED id

\* Before init is answered there is no id to abort: the request is cancelled,
\* which may have been served by then, and the API is not told.
AbortEarly(c) ==
    /\ ~Stopped(c) /\ phase[c] = "initializing"
    /\ \/ \E u \in UploadIds : CanInit(u) /\ Init_(u) /\ UNCHANGED faults
       \/ UNCHANGED server
    /\ cancelled' = [cancelled EXCEPT ![c] = phase[c]]
    /\ Phase(c, "aborted") /\ record' = NoRecord
    /\ WorkersReturn(c)

\* The API is told; whatever it answers, the uploader shows "aborted".
Abort(c) ==
    /\ ~Stopped(c) /\ Busy(c) /\ phase[c] \notin {"initializing", "assembling"}
    /\ id[c] \notin assembling
    /\ \/ AbortUpload(id[c]) /\ UNCHANGED faults
       \/ ~Abortable(id[c]) /\ UNCHANGED server
    /\ cancelled' = [cancelled EXCEPT ![c] = phase[c]]
    /\ Phase(c, "aborted") /\ record' = NoRecord
    /\ WorkersReturn(c)

\* The complete request is not cancelled with the others: the abort waits for
\* the lock on the row,
AbortTooLate(c) ==
    /\ ~Stopped(c) /\ phase[c] = "assembling"
    /\ cancelled' = [cancelled EXCEPT ![c] = phase[c]]
    /\ record' = NoRecord
    /\ UNCHANGED <<server, phase, paused, id, known, queue, signed, signing, work>>

\* and is answered "aborted" also for a completed upload; the uploader shows
\* whichever of the two answers it hears last.
AbortServed(c) ==
    /\ phase[c] = "aborting" /\ id[c] \notin assembling
    /\ \/ AbortUpload(id[c]) /\ UNCHANGED faults
       \/ ~Abortable(id[c]) /\ UNCHANGED server
    /\ \/ Phase(c, "aborted")
       \/ upload[id[c]] = "completed" /\ Phase(c, "completed")
    /\ UNCHANGED record /\ ClientIdle

\* The page is reloaded or closed; the record survives.
Leave(c) ==
    /\ Running(c) /\ phase[c] \in {"uploading", "paused", "failed"}
    /\ Phase(c, "gone") /\ WorkersReturn(c)
    /\ UNCHANGED <<server, record, cancelled>>

-----------------------------------------------------------------------------
PartStep(c, w) ==
    \/ TakePart(c, w)   \/ SignedUrl(c, w)  \/ BatchSigned(c, w)
    \/ BatchFails(c, w) \/ TryAgain(c, w)   \/ PartStored(c, w)
    \/ PartFails(c, w)

\* The form is submitted: init, with or without success.
Start(c) == Submit(c) \/ Begin(c) \/ BeginFails(c)

\* What the form offers besides.
Buttons(c) ==
    \/ c \in Restless /\ (Pause(c) \/ Resume(c) \/ Discard(c))
    \/ AbortEarly(c) \/ Abort(c) \/ AbortTooLate(c)

Finish(c) ==
    \/ AllDone(c)          \/ Complete(c)        \/ Completed(c)
    \/ CompletedUnheard(c) \/ AlreadyCompleted(c) \/ CompleteRefused(c)

Next ==
    \/ \E c \in Clients :
         \/ Start(c) \/ \E w \in WorkersOf[c] : PartStep(c, w)
         \/ Finish(c) \/ AbortServed(c)
         \/ Buttons(c) \/ (c \in Restless /\ Leave(c))
    \/ \E u \in UploadIds : Expire(u) /\ UNCHANGED <<client, record>>

\* A page that stays open runs its workers and hears answers or errors.
Fairness ==
    \A c \in Clients :
        /\ \A w \in WorkersOf[c] : WF_vars(PartStep(c, w))
        /\ WF_vars(Finish(c))

Spec == Init /\ [][Next]_vars

FairSpec == Spec /\ Fairness

-----------------------------------------------------------------------------
(* What is checked. *)

TypeOK ==
    /\ s3 \in BOOLEAN /\ faults \in 0..MaxFaults
    /\ upload \in [UploadIds -> {None, "active", "completed", "aborted"}]
    /\ asset \in [UploadIds -> {None, "UPLOADING", "VALIDATING", "CANCELLED"}]
    /\ open \subseteq UploadIds /\ assembling \subseteq UploadIds
    /\ stored \in [UploadIds -> PartLists]
    /\ object \in [UploadIds -> PartLists \cup {None}]
    /\ phase \in [Clients -> {"idle", "initializing", "uploading", "paused",
          "completing", "assembling", "completed", "failed", "aborting", "aborted", "gone"}]
    /\ id \in [Clients -> UploadIds \cup {None}]
    /\ known \in [Clients -> PartLists]
    /\ queue \in [Clients -> SUBSET Parts]
    /\ signed \in [Clients -> SUBSET Parts]
    /\ signing \in [Clients -> Workers \cup {None}]

\* Tabs, retries and reloads of one file share one upload at a time (FR-001).
OneActiveUpload == \A u, v \in Active : u = v

\* Whatever order completions, lost answers and aborts take effect in, an
\* asset is processed exactly if its upload is completed, and then the store
\* has its object with every part; a cancelled asset has none.
ProcessedIsWhole ==
    \A u \in UploadIds :
        /\ asset[u] = "VALIDATING" <=> upload[u] = "completed"
        /\ asset[u] = "CANCELLED" <=> upload[u] = "aborted"
        /\ upload[u] = "completed" =>
              object[u] # None /\ \A p \in Parts : object[u][p] # None

\* What an uploader counts as uploaded, and will list to complete, is in the
\* store as long as the upload can be completed: recorded progress of another
\* upload never stands in for a part.
ProgressIsStored ==
    \A c \in Clients : id[c] \in Active \cap open /\ object[id[c]] = None =>
        \A p \in Parts : known[c][p] # None => stored[id[c]][p] # None

\* Two files of equal name and size may share an upload, but an uploader that
\* uploads every part itself completes with nothing but its own file: parts
\* another one has replaced meanwhile are refused by their etags.
OwnParts(c) == \A p \in Parts : known[c][p] = FileOf[c]

NoForeignParts ==
    [][\A c \in Clients : phase[c] = "completing" /\ phase'[c] = "assembling"
          /\ OwnParts(c)
             => object'[id[c]] = [p \in Parts |-> FileOf[c]]]_vars

\* This uploader has had the upload completed, whatever it shows since.
CompletedBy(c, u) == id[c] = u /\ (phase[c] = "completed" \/ cancelled[c] = "assembling")

\* A user who is shown "cancelled" while nothing fails is told the truth, in
\* every phase but two: before init is answered the API hears nothing of the
\* cancel, whatever upload.ts:198 says, and once the store assembles the object
\* it comes too late.  In the others it fails to cancel only what another
\* uploader of the same file has completed meanwhile.
CancelIsTrue ==
    \A c \in Clients :
        phase[c] = "aborted" /\ cancelled[c] \notin {"initializing", "assembling"}
        /\ faults = 0 =>
           \/ asset[id[c]] = "CANCELLED"
           \/ \E d \in Clients \ {c} : CompletedBy(d, id[c])

\* As long as nothing fails, an interrupted upload can be taken up again
\* (uploads.ts:42); a completion that rolls back, or the store's own expiry
\* of incomplete uploads, leaves a row that every later init trips over.
Resumable ==
    faults = 0 => \A u \in Active : u \in open \cup assembling

\* Who waits for a batch of urls waits for one that is being signed, also when
\* several are: no wake-up is missed (upload.ts:307).
BatchesAreSigned ==
    \A c \in Clients : \A w \in WorkersOf[c] : work[c][w].at = "wait" =>
        work[c][w].on \in WorkersOf[c] /\ work[c][work[c][w].on].at = "lead"

\* Retries, shared batches and pauses forget no part: an uploader that has a
\* worker (upload.ts:164) completes only with the etag of every part.
CompletesWithEveryPart ==
    \A c \in Clients : phase[c] = "completing" /\ WorkersOf[c] # {} =>
        \A p \in Parts : known[c][p] # None

\* An uploader that is neither paused nor left comes to an end: the workers'
\* shared batches, retries and failures never leave all of them waiting.
UploadEnds ==
    \A c \in Clients : phase[c] = "uploading" ~> phase[c] # "uploading"

\* What an upload is, seen from the tabs and from what reads completed ones.
Outcome == INSTANCE UploadOutcome WITH
    Tabs <- Clients,
    status <- upload,
    content <- [u \in UploadIds |-> IF upload[u] = "completed" THEN object[u] ELSE None],
    heard <- [c \in Clients |-> IF phase[c] = "completed" THEN id[c] ELSE None]

\* Parts, batches, retries, the store's half of a completion and its rollback
\* amount to single steps of an upload: it ends once, whole, and what a late
\* PUT or a second complete does afterwards changes nothing (uploads.ts:224).
ImplementsOutcome == Outcome!Spec
==============================================================================
