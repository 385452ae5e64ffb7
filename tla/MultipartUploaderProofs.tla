------------------------ MODULE MultipartUploaderProofs ------------------------
(***************************************************************************)
(* Proofs about MultipartUploader and the Uploads it makes, for any number *)
(* of tabs, workers, parts, attempts and faults, and both storage drivers. *)
(*                                                                         *)
(* What happens to an upload in the API and in the store is looked at      *)
(* first, whoever does it (ServerStep); then what the uploaders remember;  *)
(* what all of it is to those outside (UploadOutcome); and last that a     *)
(* transfer loses no part on the way through queue, batches and workers.   *)
(***************************************************************************)
EXTENDS MultipartUploader, NaturalsInduction, WellFoundedInduction, TLAPS

UploadStatus == {None, "active", "completed", "aborted"}

AssetStatus == {None, "UPLOADING", "VALIDATING", "CANCELLED"}

ServerOK ==
    /\ s3 \in BOOLEAN /\ faults \in 0..MaxFaults
    /\ upload \in [UploadIds -> UploadStatus]
    /\ asset \in [UploadIds -> AssetStatus]
    /\ open \subseteq UploadIds /\ assembling \subseteq UploadIds
    /\ stored \in [UploadIds -> PartLists]
    /\ object \in [UploadIds -> PartLists \cup {None}]

\* The asset follows its upload, and what is being completed is whole.
Coupled ==
    \A u \in UploadIds :
        /\ upload[u] = None <=> asset[u] = None
        /\ upload[u] = "active" <=> asset[u] = "UPLOADING"
        /\ upload[u] = "completed" <=> asset[u] = "VALIDATING"
        /\ upload[u] = "aborted" <=> asset[u] = "CANCELLED"
        /\ u \in assembling => upload[u] = "active"
        /\ u \in assembling \/ upload[u] = "completed" =>
              object[u] # None /\ \A p \in Parts : object[u][p] # None

\* The local driver keeps the parts of an upload until it is completed.
Kept ==
    ~s3 => \A u \in Active : object[u] = None => u \in open

Server == ServerOK /\ Coupled /\ OneActiveUpload /\ Resumable /\ Kept

\* The parts listed are stored, as long as the upload can still be completed.
Has(parts, u) ==
    u \in Active \cap open /\ object[u] = None =>
        \A p \in Parts : parts[p] # None => stored[u][p] # None

Rows == <<s3, upload, asset, open, stored, object, assembling>>

\* Everything that happens to an upload.
ServerStep(u) ==
    /\ faults' \in 0..MaxFaults /\ faults' >= faults
    /\ \/ CanInit(u) /\ Init_(u)
       \/ \E p, f : f \in Files /\ PutPart(u, p, f)
       \/ (\A p \in Parts : stored[u][p] # None) /\ Assemble(u)
       \/ CommitComplete(u)
       \/ faults' > faults /\ RollBackComplete(u)
       \/ AbortUpload(u)
       \/ Expire(u)
       \/ UNCHANGED Rows

LEMMA NoneIsNot ==
    /\ None \notin PartLists /\ None \notin Files /\ None \notin UploadIds
    /\ None \notin Workers
    /\ None \notin {"active", "completed", "aborted", "assembling", "initializing",
                    "UPLOADING", "VALIDATING", "CANCELLED"}
BY UploaderAssumption

LEMMA ServerInit == InitServer => Server
<1> SUFFICES ASSUME InitServer  PROVE Server
  OBVIOUS
<1>1. ServerOK
  BY UploaderAssumption DEF InitServer, ServerOK, NoParts, PartLists, UploadStatus,
                            AssetStatus
<1>2. Coupled
  BY NoneIsNot DEF InitServer, Coupled
<1>3. OneActiveUpload /\ Resumable /\ Kept
  BY NoneIsNot DEF InitServer, OneActiveUpload, Resumable, Kept, Active
<1> QED  BY <1>1, <1>2, <1>3 DEF Server

LEMMA ServerTypes ==
    ASSUME Server, NEW u \in UploadIds, ServerStep(u)  PROVE ServerOK'
<1>1. NoParts \in PartLists
  BY DEF NoParts, PartLists
<1>2. stored[u] \in PartLists
  BY DEF Server, ServerOK
<1>3. CASE CanInit(u) /\ Init_(u)
  BY <1>3 DEF ServerStep, Init_, Server, ServerOK, UploadStatus, AssetStatus
<1>4. CASE \E p, f : f \in Files /\ PutPart(u, p, f)
  <2>1. PICK p, f : f \in Files /\ PutPart(u, p, f)
    BY <1>4
  <2>2. [stored[u] EXCEPT ![p] = f] \in PartLists
    BY <1>2, <2>1 DEF PartLists
  <2>3. stored' = [stored EXCEPT ![u] = [stored[u] EXCEPT ![p] = f]]
    BY <2>1 DEF PutPart, Server, ServerOK
  <2>4. stored' \in [UploadIds -> PartLists]
    BY <2>2, <2>3 DEF Server, ServerOK
  <2> QED  BY <2>1, <2>4 DEF ServerStep, PutPart, Server, ServerOK
<1>5. CASE Assemble(u)
  BY <1>1, <1>2, <1>5 DEF ServerStep, Assemble, Server, ServerOK
<1>6. CASE CommitComplete(u) \/ RollBackComplete(u)
  BY <1>6 DEF ServerStep, CommitComplete, RollBackComplete, Server, ServerOK,
              UploadStatus, AssetStatus
<1>7. CASE AbortUpload(u)
  BY <1>1, <1>7 DEF ServerStep, AbortUpload, Server, ServerOK, UploadStatus, AssetStatus
<1>8. CASE Expire(u)
  BY <1>1, <1>8 DEF ServerStep, Expire, Server, ServerOK
<1>9. CASE UNCHANGED Rows
  BY <1>9 DEF ServerStep, Rows, Server, ServerOK
<1> QED  BY <1>3, <1>4, <1>5, <1>6, <1>7, <1>8, <1>9 DEF ServerStep

LEMMA ServerCoupled ==
    ASSUME Server, NEW u \in UploadIds, ServerStep(u)  PROVE Coupled'
<1>0. /\ upload \in [UploadIds -> UploadStatus] /\ asset \in [UploadIds -> AssetStatus]
      /\ object \in [UploadIds -> PartLists \cup {None}] /\ stored[u] \in PartLists
      /\ Coupled
  BY DEF Server, ServerOK
<1>1. CASE CanInit(u) /\ Init_(u)
  BY <1>0, <1>1, NoneIsNot DEF Init_, CanInit, Active, Coupled, UploadStatus
<1>2. CASE (\A p \in Parts : stored[u][p] # None) /\ Assemble(u)
  BY <1>0, <1>2, NoneIsNot DEF Assemble, Coupled
<1>3. CASE CommitComplete(u)
  BY <1>0, <1>3, NoneIsNot DEF CommitComplete, Coupled
<1>4. CASE AbortUpload(u)
  BY <1>0, <1>4, NoneIsNot DEF AbortUpload, Abortable, Coupled
<1>5. CASE RollBackComplete(u)
  BY <1>0, <1>5 DEF RollBackComplete, Coupled
<1>6. CASE UNCHANGED <<upload, asset, object, assembling>>
  BY <1>0, <1>6 DEF Coupled
<1> QED
  BY <1>1, <1>2, <1>3, <1>4, <1>5, <1>6 DEF ServerStep, PutPart, Expire, Rows

LEMMA ServerRest ==
    ASSUME Server, NEW u \in UploadIds, ServerStep(u)
    PROVE  OneActiveUpload' /\ Resumable'
<1>0. /\ upload \in [UploadIds -> UploadStatus] /\ Coupled /\ OneActiveUpload
      /\ Resumable /\ faults \in Nat /\ faults' \in Nat /\ faults' >= faults
  BY UploaderAssumption DEF Server, ServerOK, ServerStep
<1>1. OneActiveUpload'
  <2>1. CASE CanInit(u) /\ Init_(u)
    BY <1>0, <2>1 DEF Init_, CanInit, Active, OneActiveUpload
  <2>2. CASE ~(CanInit(u) /\ Init_(u))
    <3>1. Active' \subseteq Active
      BY <1>0, <2>2 DEF ServerStep, PutPart, Assemble, CommitComplete, RollBackComplete,
           AbortUpload, Expire, Rows, Active
    <3> QED  BY <1>0, <3>1 DEF OneActiveUpload
  <2> QED  BY <2>1, <2>2
<1>2. Resumable'
  <2> SUFFICES ASSUME faults' = 0, NEW v \in UploadIds, upload'[v] = "active"
               PROVE  v \in open' \cup assembling'
    BY DEF Resumable, Active
  <2>1. faults = 0
    BY <1>0
  <2>2. upload[v] = "active" => v \in open \cup assembling
    BY <1>0, <2>1 DEF Resumable, Active
  <2>3. CASE CanInit(u) /\ Init_(u)
    BY <1>0, <2>2, <2>3 DEF Init_, CanInit, Active
  <2>4. CASE (\E p, f : PutPart(u, p, f)) \/ Assemble(u) \/ UNCHANGED Rows
    BY <1>0, <2>2, <2>4 DEF PutPart, Assemble, Rows
  <2>5. CASE CommitComplete(u) \/ AbortUpload(u)
    BY <1>0, <2>2, <2>5, NoneIsNot DEF CommitComplete, AbortUpload
  <2>6. ~Expire(u) /\ ~(faults' > faults)
    BY <1>0, <2>1 DEF Expire, Fault
  <2> QED  BY <2>3, <2>4, <2>5, <2>6 DEF ServerStep
<1> QED  BY <1>1, <1>2

LEMMA ServerKept == ASSUME Server, NEW u \in UploadIds, ServerStep(u)  PROVE Kept'
<1>0. /\ upload \in [UploadIds -> UploadStatus] /\ Kept /\ s3 \in BOOLEAN
      /\ object \in [UploadIds -> PartLists \cup {None}] /\ stored[u] \in PartLists
  BY DEF Server, ServerOK
<1>1. CASE CanInit(u) /\ Init_(u)
  BY <1>0, <1>1 DEF Kept, Init_, CanInit, Active
<1>2. CASE Assemble(u)
  BY <1>0, <1>2, NoneIsNot DEF Kept, Assemble, Active
<1>3. CASE CommitComplete(u) \/ AbortUpload(u)
  BY <1>0, <1>3, NoneIsNot DEF Kept, CommitComplete, AbortUpload, Active
<1>4. CASE Expire(u)
  BY <1>0, <1>4 DEF Kept, Expire
<1>5. CASE (\E p, f : PutPart(u, p, f)) \/ RollBackComplete(u) \/ UNCHANGED Rows
  BY <1>0, <1>5 DEF Kept, PutPart, RollBackComplete, Rows, Active
<1> QED  BY <1>1, <1>2, <1>3, <1>4, <1>5 DEF ServerStep

LEMMA ServerInv == ASSUME Server, NEW u \in UploadIds, ServerStep(u)  PROVE Server'
BY ServerTypes, ServerCoupled, ServerRest, ServerKept DEF Server

\* An upload that is over stays so, and one that is there does not vanish.
LEMMA Settled ==
    ASSUME Server, NEW u \in UploadIds, ServerStep(u), NEW v \in UploadIds
    PROVE  /\ upload[v] # None => upload'[v] # None
           /\ upload[v] \in {"completed", "aborted"} =>
                 upload'[v] = upload[v] /\ asset'[v] = asset[v]
<1>0. /\ upload \in [UploadIds -> UploadStatus] /\ asset \in [UploadIds -> AssetStatus]
      /\ Coupled
  BY DEF Server, ServerOK
<1> QED
  BY <1>0, NoneIsNot DEF ServerStep, Init_, CanInit, Active, PutPart, Assemble,
       CommitComplete, RollBackComplete, AbortUpload, Abortable, Expire, Rows, Coupled

\* Parts that are stored stay stored, as long as the upload can be completed.
LEMMA HasStays ==
    ASSUME Server, NEW u \in UploadIds, ServerStep(u), NEW v \in UploadIds, NEW parts,
           upload[v] # None, Has(parts, v)
    PROVE  Has(parts, v)'
<1> SUFFICES ASSUME upload'[v] = "active", v \in open', object'[v] = None,
                    NEW p \in Parts, parts[p] # None
             PROVE  stored'[v][p] # None
  BY DEF Has, Active
<1>0. /\ upload \in [UploadIds -> UploadStatus] /\ stored \in [UploadIds -> PartLists]
      /\ object \in [UploadIds -> PartLists \cup {None}] /\ Coupled
      /\ upload[v] = "active" /\ s3 \in BOOLEAN /\ Kept
  BY Settled DEF Server, ServerOK, UploadStatus
<1>1. CASE UNCHANGED <<open, stored, object>>
  BY <1>0, <1>1 DEF Has, Active
<1>2. CASE \E q, f : f \in Files /\ PutPart(u, q, f)
  <2>1. PICK q, f : f \in Files /\ PutPart(u, q, f)
    BY <1>2
  <2>2. v \in open
    BY <1>0, <2>1 DEF PutPart, Storable, Kept, Active
  <2>3. stored[v][p] # None
    BY <1>0, <2>1, <2>2 DEF PutPart, Has, Active
  <2>4. stored[u] \in [Parts -> Files \cup {None}] /\ f # None
    BY <1>0, <2>1, NoneIsNot DEF PartLists
  <2>5. stored' = [stored EXCEPT ![u] = [stored[u] EXCEPT ![q] = f]]
    BY <1>0, <2>1 DEF PutPart
  <2>6. stored'[v] = IF v = u THEN [stored[u] EXCEPT ![q] = f] ELSE stored[v]
    BY <1>0, <2>5
  <2> QED  BY <2>3, <2>4, <2>6
<1>3. CASE Assemble(u) \/ AbortUpload(u) \/ Expire(u)
  BY <1>0, <1>3 DEF Assemble, AbortUpload, Expire, Has, Active
<1>4. CASE CanInit(u) /\ Init_(u)
  BY <1>0, <1>4 DEF Init_, CanInit, Has, Active
<1> QED
  BY <1>1, <1>2, <1>3, <1>4 DEF ServerStep, CommitComplete, RollBackComplete, Rows

-----------------------------------------------------------------------------
(* The uploaders. *)

Phases == {"idle", "initializing", "uploading", "paused", "completing", "assembling",
           "completed", "failed", "aborting", "aborted", "gone"}

Jobs == [at: {"gate", "sign", "wait", "lead", "put", "again", "done", "dead"},
         part: Parts \cup {None}, try: Nat, batch: SUBSET Parts,
         on: Workers \cup {None}]

Stations == {"sign", "wait", "lead", "put", "again"}

ClientOK ==
    /\ phase \in [Clients -> Phases]
    /\ id \in [Clients -> UploadIds \cup {None}]
    /\ known \in [Clients -> PartLists]
    /\ queue \in [Clients -> SUBSET Parts]
    /\ signed \in [Clients -> SUBSET Parts]
    /\ signing \in [Clients -> Workers \cup {None}]
    /\ work \in [Clients -> [Workers -> Jobs]]
    /\ record \in [upload: UploadIds \cup {None}, parts: PartLists]
    /\ cancelled \in [Clients -> Phases \cup {None}]

\* A busy worker has a part.
Parted == \A c \in Clients, w \in Workers :
              work[c][w].at \in Stations => work[c][w].part \in Parts

\* Which phases an uploader without an upload, or aborted, may be in.
Begun == Phases \ {"idle", "initializing", "failed", "aborted"}

Ided ==
    \A c \in Clients :
        /\ phase[c] \in {"idle", "initializing"} => id[c] = None
        /\ phase[c] \in Begun => id[c] # None
        /\ phase[c] = "aborted" /\ cancelled[c] # "initializing" => id[c] # None

Told ==
    \A c \in Clients :
        /\ phase[c] \in {"idle", "initializing", "uploading", "paused", "completing"}
              => cancelled[c] = None
        /\ phase[c] = "assembling" => cancelled[c] \in {None, "assembling"}
        /\ phase[c] = "aborting" => cancelled[c] = "assembling"

\* What an uploader, and what the browser, remembers of an upload is stored.
Remembers ==
    /\ \A c \in Clients : id[c] # None =>
          upload[id[c]] # None /\ Has(known[c], id[c])
    /\ record.upload # None =>
          upload[record.upload] # None /\ Has(record.parts, record.upload)

Uploaders == ClientOK /\ Parted /\ Ided /\ Told /\ Remembers

Inv == Server /\ Uploaders

LEMMA InitInv == Init => Inv
<1> SUFFICES ASSUME Init  PROVE Inv
  OBVIOUS
<1>1. Server
  BY ServerInit DEF Init
<1>2. NoParts \in PartLists
  BY DEF NoParts, PartLists
<1>3. ClientOK
  BY <1>2 DEF Init, ClientOK, Phases, Jobs, Idle, NoRecord
<1>4. Parted /\ Ided /\ Told /\ Remembers
  BY DEF Init, Parted, Stations, Idle, Ided, Begun, Told, Remembers, NoRecord
<1> QED  BY <1>1, <1>3, <1>4 DEF Inv, Uploaders

\* What any step does to the uploads is a step of one of them, or none.
LEMMA ServerSteps ==
    ASSUME Inv, Next
    PROVE  UNCHANGED server \/ \E u \in UploadIds : ServerStep(u)
<1>0. /\ faults \in 0..MaxFaults /\ ClientOK /\ Ided /\ MaxFaults \in Nat
      /\ Parted /\ FileOf \in [Clients -> Files]
      /\ \A c \in Clients : WorkersOf[c] \subseteq Workers
  BY UploaderAssumption DEF Inv, Server, ServerOK, Uploaders
<1>1. Fault => faults' \in 0..MaxFaults /\ faults' > faults /\ faults' >= faults
  BY <1>0 DEF Fault
<1>2. UNCHANGED faults => faults' \in 0..MaxFaults /\ faults' >= faults
  BY <1>0
<1>3. ASSUME NEW c \in Clients, Start(c) \/ AbortEarly(c)  PROVE
      UNCHANGED server \/ \E u \in UploadIds : ServerStep(u)
  BY <1>1, <1>2, <1>3 DEF Start, Submit, Begin, BeginFails, AbortEarly, ServerStep
<1>4. ASSUME NEW c \in Clients, NEW w \in WorkersOf[c], PartStep(c, w)  PROVE
      UNCHANGED server \/ \E u \in UploadIds : ServerStep(u)
  <2>1. CASE PartStored(c, w)
    <3>1. id[c] \in UploadIds /\ FileOf[c] \in Files
      BY <1>0, <2>1 DEF PartStored, Running, ClientOK
    <3> QED  BY <1>2, <2>1, <3>1 DEF PartStored, ServerStep
  <2>2. CASE BatchFails(c, w) \/ PartFails(c, w)
    <3>1. id[c] \in UploadIds
      BY <1>0, <2>2 DEF BatchFails, PartFails, Running, ClientOK
    <3> QED  BY <1>1, <2>2, <3>1 DEF BatchFails, PartFails, ServerStep, Rows
  <2> QED  BY <1>4, <2>1, <2>2 DEF PartStep, TakePart, SignedUrl, BatchSigned, TryAgain
<1>5. ASSUME NEW c \in Clients, Finish(c)  PROVE
      UNCHANGED server \/ \E u \in UploadIds : ServerStep(u)
  <2>1. CASE Complete(c)
    <3>1. id[c] \in UploadIds
      BY <1>0, <2>1 DEF Complete, Ided, Begun, Phases, ClientOK
    <3>2. \A p \in Parts : stored[id[c]][p] # None
      BY <2>1 DEF Complete, Acceptable
    <3> QED  BY <1>2, <2>1, <3>1, <3>2 DEF Complete, ServerStep
  <2>2. CASE Completed(c) \/ CompletedUnheard(c)
    <3>1. id[c] \in UploadIds
      BY <1>0, <2>2 DEF Completed, CompletedUnheard, Ided, Begun, Phases, ClientOK
    <3> QED  BY <1>1, <1>2, <2>2, <3>1 DEF Completed, CompletedUnheard, ServerStep
  <2> QED  BY <1>5, <2>1, <2>2 DEF Finish, AllDone, AlreadyCompleted, CompleteRefused
<1>6. ASSUME NEW c \in Clients,
             Buttons(c) \/ AbortServed(c) \/ Leave(c)  PROVE
      UNCHANGED server \/ \E u \in UploadIds : ServerStep(u)
  <2>1. CASE Abort(c) \/ AbortServed(c)
    <3>1. id[c] \in UploadIds
      BY <1>0, <2>1 DEF Abort, AbortServed, Busy, Ided, Begun, Phases, ClientOK
    <3> QED  BY <1>2, <2>1, <3>1 DEF Abort, AbortServed, ServerStep
  <2> QED  BY <1>3, <1>6, <2>1 DEF Buttons, Pause, Resume, Discard, AbortTooLate, Leave
<1>7. ASSUME NEW u \in UploadIds, Expire(u)  PROVE ServerStep(u)
  BY <1>1, <1>7 DEF Expire, ServerStep
<1> QED  BY <1>3, <1>4, <1>5, <1>6, <1>7 DEF Next

LEMMA ServerNext == ASSUME Inv, Next  PROVE Server'
<1>1. CASE UNCHANGED server
  BY <1>1 DEF Inv, server, Server, ServerOK, Coupled, OneActiveUpload, Resumable, Kept,
              Active
<1> QED  BY <1>1, ServerSteps, ServerInv DEF Inv

\* No step makes what is remembered of an upload untrue, or undoes its end.
StillHas(parts, u) ==
    upload'[u] = "active" /\ u \in open' /\ object'[u] = None =>
        \A p \in Parts : parts[p] # None => stored'[u][p] # None

LEMMA Carried ==
    ASSUME Inv, Next, NEW v \in UploadIds
    PROVE  /\ upload[v] # None => upload'[v] # None
           /\ upload[v] \in {"completed", "aborted"} =>
                 upload'[v] = upload[v] /\ asset'[v] = asset[v]
           /\ \A parts : upload[v] # None /\ Has(parts, v) => StillHas(parts, v)
<1>1. CASE UNCHANGED server
  BY <1>1 DEF server, Has, StillHas, Active
<1>2. ASSUME NEW u \in UploadIds, ServerStep(u)  PROVE
      /\ upload[v] # None => upload'[v] # None
      /\ upload[v] \in {"completed", "aborted"} =>
            upload'[v] = upload[v] /\ asset'[v] = asset[v]
      /\ \A parts : upload[v] # None /\ Has(parts, v) => StillHas(parts, v)
  BY <1>2, Settled, HasStays DEF Inv, Has, StillHas, Active
<1> QED  BY <1>1, <1>2, ServerSteps

-----------------------------------------------------------------------------
(* Each kind of step keeps what the uploaders' own state must be. *)

Own == ClientOK /\ Parted /\ Ided /\ Told

LEMMA LeastIsThere ==
    ASSUME NEW T \in SUBSET Nat, T # {}
    PROVE  (CHOOSE n \in T : \A m \in T : n <= m) \in T
<1> DEFINE R == OpToRel(<, Nat)
<1>1. IsWellFoundedOn(R, Nat)
  BY NatLessThanWellFounded
<1>2. PICK n \in T : \A m \in T : <<m, n>> \notin R
  BY <1>1, WFMin
<1>3. \A m \in T : m < n => <<m, n>> \in R
  BY DEF OpToRel
<1>4. \A m \in T : ~(m < n)
  BY <1>2, <1>3
<1> HIDE DEF R
<1>5. \A m \in T : n <= m
  BY <1>4
<1> QED  BY <1>5

LEMMA StartOwn ==
    ASSUME Inv, NEW c \in Clients, Start(c)  PROVE Own'
<1>0. ClientOK /\ Parted /\ Ided /\ Told /\ stored \in [UploadIds -> PartLists]
  BY DEF Inv, Uploaders, Server, ServerOK
<1>1. CASE Begin(c)
  <2>1. PICK u \in UploadIds :
          /\ phase[c] = "initializing"
          /\ id' = [id EXCEPT ![c] = u]
          /\ known' = [known EXCEPT ![c] = Resumed(u)]
          /\ queue' = [queue EXCEPT ![c] = {p \in Parts : Resumed(u)[p] = None}]
          /\ Persist(c) /\ Phase(c, "uploading")
          /\ UNCHANGED <<paused, signed, signing, work, cancelled>>
    BY <1>1 DEF Begin
  <2>2. stored[u] \in PartLists /\ record.parts \in PartLists /\ NoParts \in PartLists
    BY <1>0 DEF ClientOK, NoParts, PartLists
  <2>3. Resumed(u) \in PartLists
    BY <2>2 DEF Resumed, Recorded, PartLists
  <2>4. ClientOK'
    BY <1>0, <2>1, <2>3 DEF ClientOK, Persist, Phase, Phases
  <2>5. u # None
    BY NoneIsNot
  <2> QED  BY <1>0, <2>1, <2>4, <2>5 DEF Own, Parted, Ided, Begun, Told, Phase, ClientOK, Phases
<1>2. CASE Submit(c)
  BY <1>0, <1>2 DEF Submit, Own, ClientOK, Parted, Ided, Begun, Told, Phase, Phases
<1>3. CASE BeginFails(c)
  BY <1>0, <1>3 DEF BeginFails, Own, ClientOK, Parted, Ided, Begun, Told, Phase, Phases
<1> QED  BY <1>1, <1>2, <1>3 DEF Start

\* A step of a worker leaves alone what the uploader as a whole shows, but for
\* a failure.
LEMMA FailsOwn ==
    ASSUME ClientOK, Parted, Ided, Told, NEW c \in Clients, NEW some \in SUBSET Workers,
           \A v \in some : work[c][v].at \in Stations,
           Fails(c, some), UNCHANGED <<id, known, queue, record, cancelled>>,
           signed' \in [Clients -> SUBSET Parts],
           signing' \in [Clients -> Workers \cup {None}]
    PROVE  Own'
<1>1. \A v \in some : AfterFailure(work[c][v]) \in Jobs
                      /\ AfterFailure(work[c][v]).part \in Parts \cup {None}
                      /\ (AfterFailure(work[c][v]).at \in Stations =>
                            AfterFailure(work[c][v]).part \in Parts)
  <2> SUFFICES ASSUME NEW v \in some, NEW me, me = work[c][v]
               PROVE  /\ AfterFailure(me) \in Jobs
                      /\ AfterFailure(me).part \in Parts \cup {None}
                      /\ AfterFailure(me).at \in Stations => AfterFailure(me).part \in Parts
    OBVIOUS
  <2>1. me \in Jobs /\ me.part \in Parts
    BY DEF Parted, ClientOK
  <2>2. me.try + 1 \in Nat
    BY <2>1 DEF Jobs
  <2>3. CASE me.try < Tries
    BY <2>1, <2>2, <2>3 DEF AfterFailure, Idle, Jobs, Stations
  <2>4. CASE ~(me.try < Tries)
    BY <2>4 DEF AfterFailure, Idle, Jobs, Stations
  <2> QED  BY <2>3, <2>4
<1>2. work' = [work EXCEPT ![c] = [v \in Workers |->
                 IF v \in some THEN AfterFailure(work[c][v]) ELSE work[c][v]]]
  BY DEF Fails, ClientOK
<1>3. work' \in [Clients -> [Workers -> Jobs]]
  BY <1>1, <1>2 DEF ClientOK
<1>4. phase' = phase \/ phase' = [phase EXCEPT ![c] = "failed"]
  BY DEF Fails
<1>5. ClientOK'
  BY <1>3, <1>4 DEF ClientOK, Phases
<1>6. Parted'
  BY <1>1, <1>2 DEF Parted, ClientOK
<1>7. Ided' /\ Told'
  BY <1>4 DEF Ided, Begun, Told, ClientOK
<1> QED  BY <1>5, <1>6, <1>7 DEF Own

LEMMA PartOwn ==
    ASSUME Inv, NEW c \in Clients, NEW w \in WorkersOf[c], PartStep(c, w)  PROVE Own'
<1>0. /\ ClientOK /\ Parted /\ Ided /\ Told /\ w \in Workers
      /\ work[c] \in [Workers -> Jobs] /\ work[c][w] \in Jobs
      /\ FileOf[c] \in Files
  BY UploaderAssumption DEF Inv, Uploaders, ClientOK
<1>1. CASE TakePart(c, w)
  <2>1. ASSUME queue[c] # {}, NEW p, p = CHOOSE n \in queue[c] : \A m \in queue[c] : n <= m,
               queue' = [queue EXCEPT ![c] = @ \ {p}],
               Work(c, w, [Idle EXCEPT !.at = "sign", !.part = p, !.try = 1]),
               UNCHANGED <<record, phase, id, known, signed, signing, cancelled>>
        PROVE  Own'
    <3>1. p \in Parts
      BY <1>0, <2>1, UploaderAssumption, LeastIsThere DEF ClientOK
    <3>2. [Idle EXCEPT !.at = "sign", !.part = p, !.try = 1] \in Jobs
      BY <3>1 DEF Idle, Jobs
    <3> QED  BY ZenonT(60), <1>0, <2>1, <3>1, <3>2 DEF Own, ClientOK, Parted, Ided, Begun, Told, Work, Idle, Jobs
  <2>2. ASSUME Work(c, w, [Idle EXCEPT !.at = "done"]),
               UNCHANGED <<queue, record, phase, id, known, signed, signing, cancelled>>
        PROVE  Own'
    <3>1. [Idle EXCEPT !.at = "done"] \in Jobs /\ "done" \notin Stations
      BY DEF Idle, Jobs, Stations
    <3> QED  BY <1>0, <2>2, <3>1 DEF Own, ClientOK, Parted, Ided, Begun, Told, Work, Idle
  <2> QED  BY <1>1, <2>1, <2>2 DEF TakePart
<1>2. CASE SignedUrl(c, w)
  <2>1. PICK me \in Jobs :
          /\ me.part \in Parts /\ Work(c, w, me)
          /\ signing' \in [Clients -> Workers \cup {None}]
    <3>0. work[c][w].part \in Parts
      BY <1>0, <1>2 DEF SignedUrl, Parted, Stations
    <3>1. [work[c][w] EXCEPT !.at = "put"] \in Jobs
          /\ [work[c][w] EXCEPT !.at = "put"].part \in Parts
      BY <1>0, <3>0 DEF Jobs
    <3>2. [work[c][w] EXCEPT !.at = "wait", !.on = signing[c]] \in Jobs
          /\ [work[c][w] EXCEPT !.at = "wait", !.on = signing[c]].part \in Parts
      BY <1>0, <3>0 DEF Jobs, ClientOK
    <3>3. [work[c][w] EXCEPT !.at = "lead",
             !.batch = {work[c][w].part} \cup (queue[c] \ signed[c])] \in Jobs
          /\ [work[c][w] EXCEPT !.at = "lead",
             !.batch = {work[c][w].part} \cup (queue[c] \ signed[c])].part \in Parts
      BY <1>0, <3>0 DEF Jobs, ClientOK
    <3> QED  BY ZenonT(60), <1>0, <1>2, <3>1, <3>2, <3>3 DEF SignedUrl, ClientOK
  <2> QED  BY <1>0, <1>2, <2>1 DEF SignedUrl, Own, ClientOK, Parted, Ided, Begun, Told, Work
<1>3. CASE BatchSigned(c, w)
  <2>1. work[c][w].batch \subseteq Parts /\ work[c][w].part \in Parts
    BY <1>0, <1>3 DEF BatchSigned, Jobs, Parted, Stations
  <2>2. [work[c][w] EXCEPT !.at = "put", !.batch = {}] \in Jobs
        /\ [work[c][w] EXCEPT !.at = "put", !.batch = {}].part \in Parts
    BY <1>0, <2>1 DEF Jobs
  <2>3. \A v \in Workers : Waiting(c, w, v) =>
          [work[c][v] EXCEPT !.at = "sign"] \in Jobs
          /\ [work[c][v] EXCEPT !.at = "sign"].part \in Parts
    BY <1>0 DEF Jobs, Waiting, Parted, Stations, ClientOK
  <2>4. work' = [work EXCEPT ![c] = [v \in Workers |->
          IF v = w THEN [work[c][w] EXCEPT !.at = "put", !.batch = {}]
          ELSE IF Waiting(c, w, v) THEN [work[c][v] EXCEPT !.at = "sign"] ELSE work[c][v]]]
    BY <1>0, <1>3 DEF BatchSigned, ClientOK
  <2>5. work' \in [Clients -> [Workers -> Jobs]] /\ Parted'
    BY <1>0, <2>2, <2>3, <2>4 DEF ClientOK, Parted
  <2> QED  BY <1>0, <1>3, <2>1, <2>5, NoneIsNot DEF BatchSigned, Own, ClientOK, Ided, Begun, Told
<1>4. CASE BatchFails(c, w)
  <2>1. \A v \in {w} \cup {v \in Workers : Waiting(c, w, v)} : work[c][v].at \in Stations
    BY <1>4 DEF BatchFails, Waiting, Stations
  <2> QED  BY <1>0, <1>4, <2>1, FailsOwn DEF BatchFails, ClientOK
<1>5. CASE TryAgain(c, w)
  <2>1. [work[c][w] EXCEPT !.at = "sign"] \in Jobs
        /\ [work[c][w] EXCEPT !.at = "sign"].part \in Parts
    BY <1>0, <1>5 DEF TryAgain, Jobs, Parted, Stations
  <2> QED  BY <1>0, <1>5, <2>1 DEF TryAgain, Own, ClientOK, Parted, Ided, Begun, Told, Work
<1>6. CASE PartStored(c, w)
  <2>1. work[c][w].part \in Parts
    BY <1>0, <1>6 DEF PartStored, Parted, Stations
  <2>2. known' = [known EXCEPT ![c] = [known[c] EXCEPT ![work[c][w].part] = FileOf[c]]]
    BY <1>0, <1>6 DEF PartStored, ClientOK
  <2>3. [known[c] EXCEPT ![work[c][w].part] = FileOf[c]] \in PartLists
    BY <1>0, <2>1 DEF ClientOK, PartLists
  <2>4. known' \in [Clients -> PartLists]
    BY <1>0, <2>2, <2>3 DEF ClientOK
  <2>5. Idle \in Jobs /\ Idle.at \notin Stations
    BY DEF Idle, Jobs, Stations
  <2> QED  BY <1>0, <1>6, <2>4, <2>5 DEF PartStored, Own, ClientOK, Parted, Ided, Begun, Told,
             Work, Persist
<1>7. CASE PartFails(c, w)
  <2>1. {w} \in SUBSET Workers /\ work[c][w].at \in Stations
    BY <1>0, <1>7 DEF PartFails, Stations
  <2> QED  BY <1>0, <1>7, <2>1, FailsOwn DEF PartFails, ClientOK
<1> QED  BY <1>1, <1>2, <1>3, <1>4, <1>5, <1>6, <1>7 DEF PartStep

LEMMA FinishOwn ==
    ASSUME Inv, NEW c \in Clients,
           Finish(c) \/ AbortServed(c) \/ Buttons(c) \/ Leave(c)
    PROVE  Own'
<1>0. ClientOK /\ Parted /\ Ided /\ Told
  BY DEF Inv, Uploaders
<1>1. NoRecord \in [upload: UploadIds \cup {None}, parts: PartLists]
      /\ NoParts \in PartLists /\ Idle \in Jobs /\ Idle.at \notin Stations
  BY UploaderAssumption DEF NoRecord, NoParts, PartLists, Idle, Jobs, Stations
<1>2. CASE AllDone(c) \/ Complete(c) \/ AlreadyCompleted(c) \/ CompleteRefused(c)
           \/ Discard(c)
  <2>1. /\ UNCHANGED <<id, known, queue, signed, signing, work, cancelled>>
        /\ record' \in {record, NoRecord}
        /\ \/ phase' = phase
           \/ \E ph \in Phases :
                 /\ phase' = [phase EXCEPT ![c] = ph]
                 /\ phase[c] \in {"uploading", "completing"}
                 /\ ph \in {"completing", "assembling", "completed", "failed"}
    BY <1>2 DEF AllDone, Complete, AlreadyCompleted, CompleteRefused, Discard, ClientIdle,
                client, Phase, Phases
  <2>2. ClientOK' /\ Parted'
    <3>1. phase' \in [Clients -> Phases]
      BY <1>0, <2>1 DEF ClientOK
    <3>2. /\ id' = id /\ known' = known /\ queue' = queue /\ signed' = signed
          /\ signing' = signing /\ work' = work /\ cancelled' = cancelled
      BY <2>1
    <3>3. record' \in [upload: UploadIds \cup {None}, parts: PartLists]
      BY <1>0, <1>1, <2>1 DEF ClientOK
    <3> QED  BY <1>0, <3>1, <3>2, <3>3 DEF ClientOK, Parted
  <2>3. CASE phase' = phase
    <3>1. id' = id /\ cancelled' = cancelled
      BY <2>1
    <3>2. Ided' /\ Told'
      BY <1>0, <2>3, <3>1 DEF Ided, Told
    <3> QED  BY <2>2, <3>2 DEF Own
  <2>4. ASSUME NEW ph \in {"completing", "assembling", "completed", "failed"},
               phase' = [phase EXCEPT ![c] = ph], phase[c] \in {"uploading", "completing"}
        PROVE  Own'
    <3>1. id[c] # None /\ cancelled[c] = None
      BY <1>0, <2>4 DEF Ided, Begun, Told, Phases
    <3>2. \A d \in Clients : phase'[d] = IF d = c THEN ph ELSE phase[d]
      BY <1>0, <2>4 DEF ClientOK
    <3>3. Ided'
      BY <1>0, <2>1, <3>1, <3>2 DEF Ided, Begun, Phases
    <3>4. Told'
      BY <1>0, <2>1, <3>1, <3>2 DEF Told
    <3> QED  BY <2>2, <3>3, <3>4 DEF Own
  <2> QED  BY <2>1, <2>3, <2>4
<1>3. CASE Completed(c) \/ CompletedUnheard(c)
  BY ZenonT(60), <1>0, <1>1, <1>3 DEF Completed, CompletedUnheard, Answered, Stopped,
       ClientIdle, Own, ClientOK, Parted, Ided, Begun, Told, Phase, Phases
<1>4. CASE AbortServed(c) \/ Pause(c) \/ Resume(c)
  BY ZenonT(60), <1>0, <1>1, <1>4 DEF AbortServed, Pause, Resume,
       ClientIdle, Own, ClientOK, Parted, Ided, Begun, Told, Phase, Phases
<1>5. CASE Abort(c) \/ Leave(c)
  <2>1. /\ phase' = [phase EXCEPT ![c] = "aborted"] \/ phase' = [phase EXCEPT ![c] = "gone"]
        /\ cancelled' = [cancelled EXCEPT ![c] = phase[c]] \/ cancelled' = cancelled
        /\ record' = NoRecord \/ record' = record
        /\ id[c] # None /\ WorkersReturn(c)
    BY <1>0, <1>5 DEF Abort, Leave, Running, Busy, Ided, Begun, Phases, Phase
  <2>2. ClientOK' /\ Parted'
    BY <1>0, <1>1, <2>1 DEF WorkersReturn, ClientOK, Parted, Phases
  <2> QED  BY ZenonT(60), <1>0, <2>1, <2>2 DEF WorkersReturn, Own, Ided, Begun, Told, ClientOK
<1>6. CASE AbortEarly(c)
  <2>1. ClientOK' /\ Parted'
    BY <1>0, <1>1, <1>6 DEF AbortEarly, Phase, WorkersReturn, ClientOK, Parted, Phases
  <2> QED
    BY <1>0, <1>6, <2>1 DEF AbortEarly, Phase, WorkersReturn, Own, Ided, Begun, Told, ClientOK
<1>7. CASE AbortTooLate(c)
  BY <1>0, <1>1, <1>7 DEF AbortTooLate, Own, ClientOK, Parted, Ided, Begun, Told, Phases, Stopped
<1> QED  BY <1>2, <1>3, <1>4, <1>5, <1>6, <1>7 DEF Finish, Buttons

LEMMA OwnNext == ASSUME Inv, Next  PROVE Own'
<1>1. ASSUME NEW u \in UploadIds, Expire(u), UNCHANGED <<client, record>>  PROVE Own'
  BY <1>1 DEF Inv, Uploaders, client, Own, ClientOK, Parted, Ided, Begun, Told
<1> QED  BY <1>1, StartOwn, PartOwn, FinishOwn DEF Next

LEMMA RemembersNext == ASSUME Inv, Next  PROVE Remembers'
<1>0. ClientOK /\ Remembers /\ Parted
  BY DEF Inv, Uploaders
<1>1. ASSUME NEW d \in Clients, id[d] # None
      PROVE  upload'[id[d]] # None /\ StillHas(known[d], id[d])
  <2>1. id[d] \in UploadIds
    BY <1>0, <1>1 DEF ClientOK
  <2>2. upload[id[d]] # None /\ Has(known[d], id[d])
    BY <1>0, <1>1 DEF Remembers
  <2> QED  BY <2>1, <2>2, Carried
<1>2. ASSUME record.upload # None
      PROVE  upload'[record.upload] # None /\ StillHas(record.parts, record.upload)
  <2>1. record.upload \in UploadIds
    BY <1>0, <1>2 DEF ClientOK
  <2>2. upload[record.upload] # None /\ Has(record.parts, record.upload)
    BY <1>0, <1>2 DEF Remembers
  <2> QED  BY <2>1, <2>2, Carried
\* It is enough to look at who remembers something else than before.
<1>3. ASSUME \A d \in Clients : \/ id'[d] = id[d] /\ known'[d] \in {known[d], NoParts}
                                \/ upload'[id'[d]] # None /\ StillHas(known'[d], id'[d]),
             \/ record' \in {record, NoRecord}
             \/ upload'[record'.upload] # None /\ StillHas(record'.parts, record'.upload)
      PROVE  Remembers'
  <2>1. \A u : StillHas(NoParts, u)
    BY DEF StillHas, NoParts
  <2>2. \A d \in Clients : id'[d] # None =>
           upload'[id'[d]] # None /\ StillHas(known'[d], id'[d])
    BY <1>1, <1>3, <2>1
  <2>3. record'.upload # None =>
           upload'[record'.upload] # None /\ StillHas(record'.parts, record'.upload)
    BY <1>2, <1>3 DEF NoRecord
  <2> QED  BY <2>2, <2>3 DEF Remembers, Has, StillHas, Active
<1>4. ASSUME NEW c \in Clients, Begin(c)  PROVE Remembers'
  <2>1. PICK u \in UploadIds :
          /\ CanInit(u) /\ Init_(u)
          /\ id' = [id EXCEPT ![c] = u]
          /\ known' = [known EXCEPT ![c] = Resumed(u)]
          /\ record' = [upload |-> id'[c], parts |-> known'[c]]
    BY <1>4 DEF Begin, Persist
  <2>2. id'[c] = u /\ known'[c] = Resumed(u) /\ u # None
    BY <1>0, <2>1, NoneIsNot DEF ClientOK
  <2>3. upload'[u] # None /\ stored' = stored
    BY <2>1, NoneIsNot DEF Init_, Inv, Server, ServerOK
  <2>4. StillHas(Recorded(u), u)
    BY <1>2, <2>2 DEF Recorded, StillHas, NoParts
  <2>5. StillHas(Resumed(u), u)
    BY <2>3, <2>4 DEF Resumed, StillHas
  <2> QED  BY <1>0, <1>3, <2>1, <2>2, <2>3, <2>5 DEF ClientOK
<1>5. ASSUME NEW c \in Clients, NEW w \in WorkersOf[c], PartStored(c, w)  PROVE Remembers'
  <2> DEFINE p == work[c][w].part
             f == FileOf[c]
  <2>1. /\ w \in Workers /\ id[c] \in UploadIds /\ id[c] # None /\ p \in Parts
        /\ PutPart(id[c], p, f) /\ f # None
        /\ known' = [known EXCEPT ![c] = [known[c] EXCEPT ![p] = f]]
        /\ id' = id /\ record' = [upload |-> id[c], parts |-> known'[c]]
    <3>1. w \in Workers /\ f \in Files
      BY UploaderAssumption
    <3>2. id[c] \in UploadIds /\ id[c] # None
      BY <1>0, <1>5 DEF PartStored, Running, ClientOK
    <3>3. work[c][w].at = "put" /\ PutPart(id[c], p, f)
          /\ known' = [known EXCEPT ![c][p] = f] /\ id' = id /\ Persist(c)
      BY <1>5 DEF PartStored
    <3>4. p \in Parts
      BY <1>0, <3>1, <3>3 DEF Parted, Stations
    <3>5. known' = [known EXCEPT ![c] = [known[c] EXCEPT ![p] = f]]
      BY <1>0, <3>3 DEF ClientOK
    <3> HIDE DEF p, f
    <3> QED  BY <3>1, <3>2, <3>3, <3>4, <3>5, NoneIsNot DEF Persist
  <2>2. known[c] \in [Parts -> Files \cup {None}] /\ stored \in [UploadIds -> PartLists]
        /\ stored[id[c]] \in [Parts -> Files \cup {None}]
    BY <1>0, <2>1 DEF ClientOK, PartLists, Inv, Server, ServerOK
  <2>3. stored' = [stored EXCEPT ![id[c]] = [stored[id[c]] EXCEPT ![p] = f]]
    BY <2>1, <2>2 DEF PutPart
  <2>4. stored'[id[c]][p] = f
    BY <2>1, <2>2, <2>3
  <2>5. known'[c] = [known[c] EXCEPT ![p] = f]
    BY <1>0, <2>1 DEF ClientOK
  <2>6. upload'[id[c]] # None /\ StillHas(known[c], id[c])
    BY <1>1, <2>1
  <2>7. StillHas(known'[c], id[c])
    BY <2>1, <2>2, <2>4, <2>5, <2>6 DEF StillHas
  <2> HIDE DEF p, f
  <2> QED  BY <1>0, <1>3, <2>1, <2>6, <2>7 DEF ClientOK
<1>6. ASSUME NEW c \in Clients,
             Submit(c) \/ BeginFails(c) \/ Finish(c) \/ AbortServed(c) \/ Buttons(c)
               \/ Leave(c)
      PROVE  Remembers'
  <2>1. UNCHANGED id /\ record' \in {record, NoRecord}
        /\ (known' = known \/ known' = [known EXCEPT ![c] = NoParts])
    BY <1>6 DEF Submit, BeginFails, Finish, AllDone, Complete, Completed, CompletedUnheard,
         AlreadyCompleted, CompleteRefused, ClientIdle, AbortServed, Buttons, Pause,
         Resume, Discard, client, AbortEarly, Abort, AbortTooLate, WorkersReturn, Leave
  <2> QED  BY <1>0, <1>3, <2>1 DEF ClientOK
<1>7. ASSUME NEW c \in Clients, NEW w \in WorkersOf[c], PartStep(c, w), ~PartStored(c, w)
      PROVE  Remembers'
  BY <1>3, <1>7 DEF PartStep, TakePart, SignedUrl, BatchSigned, BatchFails, TryAgain,
       PartFails
<1>8. ASSUME NEW u \in UploadIds, Expire(u), UNCHANGED <<client, record>>
      PROVE  Remembers'
  BY <1>3, <1>8 DEF client
<1> QED  BY <1>4, <1>6, <1>7, <1>8, <1>5 DEF Next, Start

LEMMA InvNext == ASSUME Inv, [Next]_vars  PROVE Inv'
<1>1. CASE Next
  BY <1>1, ServerNext, OwnNext, RemembersNext DEF Inv, Uploaders, Own
<1>2. CASE UNCHANGED vars
  <2>1. UNCHANGED <<server, client, record>>
    BY <1>2 DEF vars
  <2>2. Server'
    BY <2>1 DEF Inv, server, Server, ServerOK, Coupled, OneActiveUpload, Resumable, Kept,
                Active
  <2>3. Uploaders'
    BY <2>1 DEF Inv, server, client, Uploaders, ClientOK, Parted, Ided, Begun, Told, Remembers,
                Has, Active
  <2> QED  BY <2>2, <2>3 DEF Inv
<1> QED  BY <1>1, <1>2

LEMMA Invariance == Spec => []Inv
BY InitInv, InvNext, PTL DEF Spec

-----------------------------------------------------------------------------
(* The theorems. *)

\* The rows, the store and the uploaders are always as the code's types say.
THEOREM TypeCorrect == Spec => []TypeOK
<1>1. Inv => TypeOK
  BY DEF Inv, Server, ServerOK, Uploaders, ClientOK, TypeOK, UploadStatus, AssetStatus,
         Phases
<1> QED  BY <1>1, Invariance, PTL

\* Whatever the tabs do at once, they share one active upload of the file.
THEOREM SharesOneUpload == Spec => []OneActiveUpload
<1>1. Inv => OneActiveUpload
  BY DEF Inv, Server
<1> QED  BY <1>1, Invariance, PTL

\* An asset is processed exactly if its upload is completed, with every part.
THEOREM ProcessesWholes == Spec => []ProcessedIsWhole
<1>1. Inv => ProcessedIsWhole
  BY DEF Inv, Server, Coupled, ProcessedIsWhole
<1> QED  BY <1>1, Invariance, PTL

\* What an uploader counts as uploaded is stored while the upload is open.
THEOREM CountsWhatIsStored == Spec => []ProgressIsStored
<1>1. Inv => ProgressIsStored
  <2> SUFFICES ASSUME Inv, NEW c \in Clients, id[c] \in Active \cap open,
                      object[id[c]] = None, NEW p \in Parts, known[c][p] # None
               PROVE  stored[id[c]][p] # None
    BY DEF ProgressIsStored
  <2>1. id[c] # None
    BY NoneIsNot DEF Active
  <2> QED  BY <2>1 DEF Inv, Uploaders, Remembers, Has
<1> QED  BY <1>1, Invariance, PTL

\* As long as nothing fails, an interrupted upload can be taken up again.
THEOREM StaysResumable == Spec => []Resumable
<1>1. Inv => Resumable
  BY DEF Inv, Server
<1> QED  BY <1>1, Invariance, PTL

\* Who uploads every part itself completes with its own file only.
THEOREM KeepsForeignPartsOut == Spec => NoForeignParts
<1> DEFINE Clean == \A c \in Clients : phase[c] = "completing" /\ phase'[c] = "assembling"
                        /\ OwnParts(c) => object'[id[c]] = [p \in Parts |-> FileOf[c]]
<1>1. ASSUME Inv, [Next]_vars  PROVE Clean
  <2> SUFFICES ASSUME NEW c \in Clients, phase[c] = "completing",
                      phase'[c] = "assembling", OwnParts(c)
               PROVE  object'[id[c]] = [p \in Parts |-> FileOf[c]]
    OBVIOUS
  <2>0. /\ ClientOK /\ Ided /\ object \in [UploadIds -> PartLists \cup {None}]
        /\ known[c] \in [Parts -> Files \cup {None}]
    BY <1>1 DEF Inv, Uploaders, Server, ServerOK, ClientOK, PartLists
  <2>1. Next
    BY <1>1 DEF vars, client
  <2>2. Complete(c)
    <3>1. ASSUME NEW d \in Clients, Start(d) \/ AbortServed(d) \/ Buttons(d) \/ Leave(d)
          PROVE  FALSE
      BY <2>0, <3>1 DEF Start, Submit, Begin, BeginFails, AbortServed, Buttons, Pause, Resume,
           Discard, client, AbortEarly, Abort, AbortTooLate, Leave, Phase, ClientOK
    <3>2. ASSUME NEW d \in Clients, NEW w \in WorkersOf[d], PartStep(d, w)
          PROVE  FALSE
      BY <2>0, <3>2 DEF PartStep, TakePart, SignedUrl, BatchSigned, BatchFails, TryAgain,
           PartStored, PartFails, Fails, ClientOK
    <3>3. ASSUME NEW d \in Clients, Finish(d)
          PROVE  Complete(d) /\ d = c
      BY <2>0, <3>3 DEF Finish, AllDone, Complete, Completed, CompletedUnheard, Answered,
           AlreadyCompleted, CompleteRefused, Phase, ClientOK
    <3>4. ASSUME NEW u \in UploadIds, Expire(u), UNCHANGED <<client, record>>
          PROVE  FALSE
      BY <3>4 DEF client
    <3> QED  BY <2>1, <3>1, <3>2, <3>3, <3>4 DEF Next
  <2>3. id[c] \in UploadIds
    BY <2>0 DEF Ided, Begun, Phases, ClientOK
  <2>4. object'[id[c]] = known[c]
    BY <2>0, <2>2, <2>3 DEF Complete, Acceptable, Assemble
  <2> QED  BY <2>0, <2>4 DEF OwnParts
<1>2. Inv /\ [Next]_vars => [Clean]_vars
  BY <1>1
<1> QED  BY Invariance, <1>2, PTL DEF Spec, NoForeignParts

-----------------------------------------------------------------------------
(* The refinement: an upload and its tabs, as UploadOutcome has them.       *)

\* Who has left the parts behind has no worker at one.
PartsOver ==
    \A c \in Clients : phase[c] \in {"completing", "assembling", "completed", "aborting"}
        => \A w \in WorkersOf[c] : work[c][w].at = "done"

Content == [u \in UploadIds |-> IF upload[u] = "completed" THEN object[u] ELSE None]

Heard == [c \in Clients |-> IF phase[c] = "completed" THEN id[c] ELSE None]

LEMMA PartsOverNext == ASSUME Inv, PartsOver, Next  PROVE PartsOver'
<1>0. /\ phase \in [Clients -> Phases] /\ work \in [Clients -> [Workers -> Jobs]]
      /\ \A c \in Clients : WorkersOf[c] \subseteq Workers
  BY UploaderAssumption DEF Inv, Uploaders, ClientOK
<1>1. ASSUME NEW c \in Clients, Start(c)  PROVE PartsOver'
  BY <1>0, <1>1 DEF Start, Submit, Begin, BeginFails, Phase, PartsOver
<1>2. ASSUME NEW c \in Clients, NEW w \in WorkersOf[c], PartStep(c, w)  PROVE PartsOver'
  <2>1. work[c][w].at # "done"
    BY <1>2 DEF PartStep, TakePart, SignedUrl, BatchSigned, BatchFails, TryAgain,
                PartStored, PartFails
  <2>2. phase[c] \notin {"completing", "assembling", "completed", "aborting"}
    BY <2>1 DEF PartsOver
  <2>3. \A d \in Clients \ {c} : phase'[d] = phase[d] /\ work'[d] = work[d]
    BY <1>0, <1>2 DEF PartStep, TakePart, SignedUrl, BatchSigned, BatchFails, TryAgain,
                PartStored, PartFails, Fails, Work
  <2>4. phase'[c] = phase[c] \/ phase'[c] = "failed"
    BY <1>0, <1>2 DEF PartStep, TakePart, SignedUrl, BatchSigned, BatchFails, TryAgain,
                PartStored, PartFails, Fails
  <2> QED  BY <2>2, <2>3, <2>4 DEF PartsOver
<1>3. ASSUME NEW c \in Clients, Finish(c)  PROVE PartsOver'
  BY <1>0, <1>3 DEF Finish, AllDone, Complete, Completed, CompletedUnheard, Answered,
       AlreadyCompleted, CompleteRefused, ClientIdle, Phase, PartsOver
<1>4. ASSUME NEW c \in Clients, AbortServed(c) \/ Pause(c) \/ Resume(c) \/ Discard(c)
                                \/ AbortTooLate(c)
      PROVE  PartsOver'
  BY <1>0, <1>4 DEF AbortServed, Pause, Resume, Discard, AbortTooLate, ClientIdle, client,
       Phase, PartsOver
<1>5. ASSUME NEW c \in Clients, AbortEarly(c) \/ Abort(c) \/ Leave(c)  PROVE PartsOver'
  <2>1. phase'[c] \in {"aborted", "gone"}
    BY <1>0, <1>5 DEF AbortEarly, Abort, Leave, Phase
  <2>2. \A d \in Clients \ {c} : phase'[d] = phase[d] /\ work'[d] = work[d]
    BY <1>0, <1>5 DEF AbortEarly, Abort, Leave, WorkersReturn, Phase
  <2> QED  BY <2>1, <2>2 DEF PartsOver
<1>6. ASSUME NEW u \in UploadIds, UNCHANGED <<client, record>>  PROVE PartsOver'
  BY <1>6 DEF client, PartsOver
<1> QED  BY <1>1, <1>2, <1>3, <1>4, <1>5, <1>6 DEF Next, Buttons

\* A committed completion has a whole object to show.
LEMMA OutcomeOfCommit ==
    ASSUME Server, NEW u \in UploadIds, CommitComplete(u)
    PROVE  /\ upload[u] = "active" /\ upload' = [upload EXCEPT ![u] = "completed"]
           /\ \E whole \in [Parts -> Files] : Content' = [Content EXCEPT ![u] = whole]
<1>0. /\ upload \in [UploadIds -> UploadStatus]
      /\ object \in [UploadIds -> PartLists \cup {None}] /\ Coupled
  BY DEF Server, ServerOK
<1>1. /\ upload' = [upload EXCEPT ![u] = "completed"] /\ object' = object
      /\ u \in assembling
  BY DEF CommitComplete
<1>2. upload[u] = "active" /\ object[u] # None /\ \A p \in Parts : object[u][p] # None
  BY <1>0, <1>1 DEF Coupled
<1>3. object[u] \in [Parts -> Files]
  BY <1>0, <1>2 DEF PartLists
<1>4. Content' = [Content EXCEPT ![u] = object[u]]
  BY <1>0, <1>1 DEF Content
<1> QED  BY <1>1, <1>2, <1>3, <1>4

\* What a step that concerns one upload is to those who see its row only.
LEMMA OutcomeOfServer ==
    ASSUME Server, NEW u \in UploadIds, ServerStep(u)
    PROVE  \/ UNCHANGED <<upload, Content>>
           \/ /\ upload[u] = None /\ Active = {}
              /\ upload' = [upload EXCEPT ![u] = "active"] /\ Content' = Content
           \/ /\ upload[u] = "active" /\ upload' = [upload EXCEPT ![u] = "aborted"]
              /\ Content' = Content
           \/ /\ upload[u] = "active" /\ upload' = [upload EXCEPT ![u] = "completed"]
              /\ CommitComplete(u)
              /\ \E whole \in [Parts -> Files] : Content' = [Content EXCEPT ![u] = whole]
<1>0. /\ upload \in [UploadIds -> UploadStatus]
      /\ object \in [UploadIds -> PartLists \cup {None}] /\ Coupled
  BY DEF Server, ServerOK
<1>1. CASE CanInit(u) /\ Init_(u)
  <2>1. CASE u \in Active
    <3>1. upload' = upload
      BY <1>0, <1>1, <2>1 DEF Init_, Active
    <3> QED  BY <1>1, <3>1 DEF Init_, Content
  <2>2. CASE Active = {} /\ upload[u] = None
    <3>1. upload' = [upload EXCEPT ![u] = "active"] /\ object' = object
      BY <1>1 DEF Init_
    <3>2. \A v \in UploadIds : upload'[v] = "completed" <=> upload[v] = "completed"
      BY <1>0, <2>2, <3>1, NoneIsNot, UploaderAssumption
    <3>3. Content' = Content
      BY <3>1, <3>2 DEF Content
    <3> QED  BY <2>2, <3>1, <3>3
  <2> QED  BY <1>1, <2>1, <2>2 DEF CanInit
<1>2. CASE (\E p, f : f \in Files /\ PutPart(u, p, f)) \/ RollBackComplete(u) \/ Expire(u)
           \/ UNCHANGED Rows
  BY <1>2 DEF PutPart, RollBackComplete, Expire, Rows, Content
<1>3. CASE Assemble(u)
  <2>1. upload' = upload /\ upload[u] = "active" /\ object' = [object EXCEPT ![u] = stored[u]]
    BY <1>3 DEF Assemble
  <2>2. Content' = Content
    BY <1>0, <2>1 DEF Content
  <2> QED  BY <2>1, <2>2
<1>4. CASE CommitComplete(u)
  BY <1>4, OutcomeOfCommit
<1>5. CASE AbortUpload(u)
  <2>1. /\ upload' = [upload EXCEPT ![u] = "aborted"] /\ object' = object
        /\ upload[u] = "active"
    BY <1>5 DEF AbortUpload, Abortable
  <2>2. \A v \in UploadIds : upload'[v] = "completed" <=> upload[v] = "completed"
    BY <1>0, <2>1
  <2>3. Content' = Content
    BY <2>1, <2>2 DEF Content
  <2> QED  BY <2>1, <2>3
<1> QED  BY <1>1, <1>2, <1>3, <1>4, <1>5 DEF ServerStep

\* A tab shows "completed" when it hears of its upload, which is, or is being,
\* completed; nothing makes it show anything else afterwards.
LEMMA HeardNext ==
    ASSUME Inv, PartsOver, Next
    PROVE  \/ Heard' = Heard
           \/ \E c \in Clients, u \in UploadIds :
                 /\ Heard[c] = None /\ Heard' = [Heard EXCEPT ![c] = u]
                 /\ \/ upload[u] = "completed" /\ UNCHANGED server
                    \/ CommitComplete(u)
<1> DEFINE Same == Heard' = Heard
           Told1(c, u) == /\ Heard[c] = None /\ Heard' = [Heard EXCEPT ![c] = u]
                          /\ \/ upload[u] = "completed" /\ UNCHANGED server
                             \/ CommitComplete(u)
<1>0. /\ phase \in [Clients -> Phases] /\ id \in [Clients -> UploadIds \cup {None}]
      /\ Ided
  BY DEF Inv, Uploaders, ClientOK
<1>a. ASSUME NEW c \in Clients, phase[c] # "completed", phase'[c] # "completed",
             \A d \in Clients \ {c} : phase'[d] = phase[d] /\ id'[d] = id[d]
      PROVE  Same
  BY <1>a DEF Heard
<1>b. ASSUME UNCHANGED <<phase, id>>  PROVE Same
  BY <1>b DEF Heard
<1>c. ASSUME NEW c \in Clients, phase[c] \in Begun \ {"completed"},
             phase' = [phase EXCEPT ![c] = "completed"], id' = id
      PROVE  /\ id[c] \in UploadIds /\ Heard[c] = None
             /\ Heard' = [Heard EXCEPT ![c] = id[c]]
  <2>1. id[c] \in UploadIds
    BY <1>0, <1>c DEF Ided, Begun
  <2>2. Heard[c] = None /\ Heard' = [Heard EXCEPT ![c] = id[c]]
    BY <1>0, <1>c DEF Heard
  <2> QED  BY <2>1, <2>2
<1>1. ASSUME NEW c \in Clients, Start(c)  PROVE Same
  <2>1. /\ phase[c] # "completed" /\ phase'[c] # "completed"
        /\ \A d \in Clients \ {c} : phase'[d] = phase[d] /\ id'[d] = id[d]
    BY <1>0, <1>1 DEF Start, Submit, Begin, BeginFails, Phase
  <2> QED  BY <1>a, <2>1
<1>2. ASSUME NEW c \in Clients, NEW w \in WorkersOf[c], PartStep(c, w)  PROVE Same
  <2>1. work[c][w].at # "done"
    BY <1>2 DEF PartStep, TakePart, SignedUrl, BatchSigned, BatchFails, TryAgain,
                PartStored, PartFails
  <2>2. phase[c] # "completed"
    BY <2>1 DEF PartsOver
  <2>3. phase' = phase \/ phase' = [phase EXCEPT ![c] = "failed"]
    BY <1>2 DEF PartStep, TakePart, SignedUrl, BatchSigned, BatchFails, TryAgain,
                PartStored, PartFails, Fails
  <2>4. id' = id
    BY <1>2 DEF PartStep, TakePart, SignedUrl, BatchSigned, BatchFails, TryAgain,
                PartStored, PartFails
  <2>5. CASE phase' = phase
    BY <1>b, <2>4, <2>5
  <2>6. CASE phase' = [phase EXCEPT ![c] = "failed"]
    <3>1. phase'[c] # "completed" /\ \A d \in Clients \ {c} : phase'[d] = phase[d]
      BY <1>0, <2>6
    <3> QED  BY <1>a, <2>2, <2>4, <3>1
  <2> QED  BY <2>3, <2>5, <2>6
<1>3. ASSUME NEW c \in Clients, Finish(c)
      PROVE  Same \/ \E u \in UploadIds : Told1(c, u)
  <2>1. CASE AllDone(c) \/ Complete(c) \/ CompletedUnheard(c) \/ CompleteRefused(c)
    <3>1. /\ phase[c] \in {"uploading", "completing", "assembling"} /\ id' = id
          /\ phase'[c] # "completed" /\ \A d \in Clients \ {c} : phase'[d] = phase[d]
      BY <1>0, <2>1 DEF AllDone, Complete, CompletedUnheard, Answered, CompleteRefused,
           ClientIdle, Phase
    <3> QED  BY <1>a, <3>1
  <2>2. CASE Completed(c)
    <3>1. /\ phase[c] = "assembling" /\ id' = id /\ CommitComplete(id[c])
          /\ \/ phase' = [phase EXCEPT ![c] = "completed"]
             \/ phase' = [phase EXCEPT ![c] = "aborting"]
      BY <2>2 DEF Completed, Answered, ClientIdle, Phase
    <3>2. CASE phase' = [phase EXCEPT ![c] = "completed"]
      BY <1>c, <3>1, <3>2 DEF Begun, Phases
    <3>3. CASE phase' = [phase EXCEPT ![c] = "aborting"]
      <4>1. phase'[c] # "completed" /\ \A d \in Clients \ {c} : phase'[d] = phase[d]
        BY <1>0, <3>3
      <4> QED  BY <1>a, <3>1, <4>1
    <3> QED  BY <3>1, <3>2, <3>3
  <2>3. CASE AlreadyCompleted(c)
    <3>1. /\ phase[c] = "completing" /\ id' = id /\ upload[id[c]] = "completed"
          /\ UNCHANGED server /\ phase' = [phase EXCEPT ![c] = "completed"]
      BY <2>3 DEF AlreadyCompleted, ClientIdle, Phase
    <3> QED  BY <1>c, <3>1 DEF Begun, Phases
  <2> QED  BY <1>3, <2>1, <2>2, <2>3 DEF Finish
<1>4. ASSUME NEW c \in Clients, AbortServed(c)
      PROVE  Same \/ \E u \in UploadIds : Told1(c, u)
  <2>1. phase[c] = "aborting" /\ id' = id
    BY <1>4 DEF AbortServed, ClientIdle
  <2>2. CASE phase' = [phase EXCEPT ![c] = "aborted"]
    <3>1. phase'[c] # "completed" /\ \A d \in Clients \ {c} : phase'[d] = phase[d]
      BY <1>0, <2>2
    <3> QED  BY <1>a, <2>1, <3>1
  <2>3. CASE upload[id[c]] = "completed" /\ phase' = [phase EXCEPT ![c] = "completed"]
    <3>1. ~AbortUpload(id[c])
      BY <2>3 DEF AbortUpload, Abortable
    <3>2. UNCHANGED server
      BY <1>4, <3>1 DEF AbortServed
    <3> QED  BY <1>c, <2>1, <2>3, <3>2 DEF Begun, Phases
  <2> QED  BY <1>4, <2>2, <2>3 DEF AbortServed, Phase
<1>5. ASSUME NEW c \in Clients,
             AbortEarly(c) \/ Abort(c) \/ Leave(c) \/ Pause(c) \/ Resume(c)
      PROVE  Same
  <2>1. /\ phase[c] # "completed" /\ phase'[c] # "completed" /\ id' = id
        /\ \A d \in Clients \ {c} : phase'[d] = phase[d]
    BY <1>0, <1>5 DEF AbortEarly, Abort, Leave, Pause, Resume, Busy, WorkersReturn, Phase
  <2> QED  BY <1>a, <2>1
<1>6. ASSUME NEW c \in Clients, Discard(c) \/ AbortTooLate(c)  PROVE Same
  BY <1>b, <1>6 DEF Discard, AbortTooLate, client
<1>7. ASSUME UNCHANGED <<client, record>>  PROVE Same
  BY <1>b, <1>7 DEF client
<1> HIDE DEF Same, Told1
<1>8. Same \/ \E c \in Clients, u \in UploadIds : Told1(c, u)
  BY <1>1, <1>2, <1>3, <1>4, <1>5, <1>6, <1>7 DEF Next, Buttons
<1> QED  BY <1>8 DEF Same, Told1

LEMMA OutcomeNext ==
    ASSUME Inv, PartsOver, [Next]_vars
    PROVE  [Outcome!Next]_(Outcome!outcome)
<1>0. Server
  BY DEF Inv
<1>1. CASE UNCHANGED vars
  <2>1. UNCHANGED <<upload, object, phase, id>>
    BY <1>1 DEF vars, server, client
  <2>2. Content' = Content /\ Heard' = Heard
    BY <2>1 DEF Content, Heard
  <2> QED  BY <2>1, <2>2 DEF Outcome!outcome, Content, Heard
<1>2. CASE Next /\ Heard' = Heard
  <2>1. CASE UNCHANGED server
    <3>1. upload' = upload /\ Content' = Content
      BY <2>1 DEF server, Content
    <3> QED  BY <1>2, <3>1 DEF Outcome!outcome, Content, Heard
  <2>2. ASSUME NEW u \in UploadIds, ServerStep(u)
        PROVE  [Outcome!Next]_(Outcome!outcome)
    <3>1. CASE UNCHANGED <<upload, Content>>
      BY <1>2, <3>1 DEF Outcome!outcome, Content, Heard
    <3>2. CASE /\ upload[u] = None /\ Active = {}
               /\ upload' = [upload EXCEPT ![u] = "active"] /\ Content' = Content
      <4>1. Outcome!Begin(u)
        BY <1>2, <3>2 DEF Outcome!Begin, Outcome!Becomes, Active, Content, Heard
      <4> QED  BY <4>1 DEF Outcome!Next
    <3>3. CASE /\ upload[u] = "active" /\ upload' = [upload EXCEPT ![u] = "aborted"]
               /\ Content' = Content
      <4>1. Outcome!Abort(u)
        BY <1>2, <3>3 DEF Outcome!Abort, Outcome!Becomes, Content, Heard
      <4> QED  BY <4>1 DEF Outcome!Next
    <3>4. CASE /\ upload[u] = "active" /\ upload' = [upload EXCEPT ![u] = "completed"]
               /\ \E whole \in [Parts -> Files] : Content' = [Content EXCEPT ![u] = whole]
      <4>1. Outcome!Complete(u)
        BY <1>2, <3>4 DEF Outcome!Complete, Outcome!Becomes, Content, Heard
      <4> QED  BY <4>1 DEF Outcome!Next
    <3> QED  BY <1>0, <2>2, <3>1, <3>2, <3>3, <3>4, OutcomeOfServer
  <2> QED  BY <1>2, <2>1, <2>2, ServerSteps
<1>3. ASSUME NEW c \in Clients, NEW u \in UploadIds,
             Heard[c] = None, Heard' = [Heard EXCEPT ![c] = u],
             upload[u] = "completed", UNCHANGED server
      PROVE  Outcome!Next
  <2>1. upload' = upload /\ Content' = Content
    BY <1>3 DEF server, Content
  <2>2. Outcome!Tell(c, u)
    BY <1>3, <2>1 DEF Outcome!Tell, Outcome!Hears, Content, Heard
  <2> QED  BY <2>2 DEF Outcome!Next
<1>4. ASSUME NEW c \in Clients, NEW u \in UploadIds,
             Heard[c] = None, Heard' = [Heard EXCEPT ![c] = u], CommitComplete(u)
      PROVE  Outcome!Next
  <2>1. /\ upload[u] = "active" /\ upload' = [upload EXCEPT ![u] = "completed"]
        /\ \E whole \in [Parts -> Files] : Content' = [Content EXCEPT ![u] = whole]
    BY <1>0, <1>4, OutcomeOfCommit
  <2>2. Outcome!Complete(u)
    BY <1>4, <2>1 DEF Outcome!Complete, Outcome!Becomes, Outcome!Hears, Content, Heard
  <2> QED  BY <2>2 DEF Outcome!Next
<1> QED  BY <1>1, <1>2, <1>3, <1>4, HeardNext

LEMMA OutcomeInit == Init => Outcome!Init /\ PartsOver
<1> SUFFICES ASSUME Init  PROVE Outcome!Init /\ PartsOver
  OBVIOUS
<1>1. /\ upload = [u \in UploadIds |-> None] /\ phase = [c \in Clients |-> "idle"]
      /\ id = [c \in Clients |-> None] /\ None # "completed"
  BY UploaderAssumption DEF Init, InitServer
<1> QED  BY <1>1 DEF Outcome!Init, PartsOver

\* For any tabs, parts and failures, and with either storage driver: an upload
\* ends once, whole or aborted, in one step as far as anybody can tell, and who
\* is told of a completion is told the truth.
THEOREM UploadsEndOnce == Spec => ImplementsOutcome
<1>1. Init => Inv /\ PartsOver /\ Outcome!Init
  BY InitInv, OutcomeInit
<1>2. Inv /\ PartsOver /\ [Next]_vars
        => Inv' /\ PartsOver' /\ [Outcome!Next]_(Outcome!outcome)
  <2> SUFFICES ASSUME Inv, PartsOver, [Next]_vars
               PROVE  Inv' /\ PartsOver' /\ [Outcome!Next]_(Outcome!outcome)
    OBVIOUS
  <2>1. PartsOver'
    <3>1. CASE UNCHANGED vars
      BY <3>1 DEF vars, client, PartsOver
    <3> QED  BY <3>1, PartsOverNext
  <2> QED  BY <2>1, InvNext, OutcomeNext
<1> QED  BY <1>1, <1>2, PTL DEF Spec, ImplementsOutcome, Outcome!Spec

-----------------------------------------------------------------------------
(* What the user is told of a cancel.                                       *)

\* As long as nothing fails, whoever has an upload completed hears of it.
Completers ==
    faults = 0 => \A u \in UploadIds : upload[u] = "completed" =>
        \E c \in Clients : CompletedBy(c, u)

\* The same after the step.
CompletedThen(c, u) == id'[c] = u /\ (phase'[c] = "completed" \/ cancelled'[c] = "assembling")

\* Neither an upload nor a cancel is ever taken back.
LEMMA FileStays ==
    ASSUME Inv, Next, NEW d \in Clients
    PROVE  /\ id[d] # None => id'[d] = id[d]
           /\ cancelled[d] # None => cancelled'[d] = cancelled[d]
<1>0. /\ id \in [Clients -> UploadIds \cup {None}] /\ cancelled \in [Clients -> Phases \cup {None}]
      /\ Ided
  BY DEF Inv, Uploaders, ClientOK
<1>1. ASSUME NEW c \in Clients, Start(c)  PROVE
      (id[d] # None => id'[d] = id[d]) /\ cancelled' = cancelled
  BY <1>0, <1>1 DEF Start, Submit, Begin, BeginFails, Ided
<1>2. ASSUME NEW c \in Clients, NEW w \in WorkersOf[c], PartStep(c, w)  PROVE
      UNCHANGED <<id, cancelled>>
  BY <1>2 DEF PartStep, TakePart, SignedUrl, BatchSigned, BatchFails, TryAgain, PartStored,
       PartFails
<1>3. ASSUME NEW c \in Clients, Finish(c) \/ AbortServed(c) \/ Leave(c)  PROVE
      UNCHANGED <<id, cancelled>>
  BY <1>3 DEF Finish, AllDone, Complete, Completed, CompletedUnheard, AlreadyCompleted,
       CompleteRefused, AbortServed, ClientIdle, Leave, WorkersReturn
<1>4. ASSUME NEW c \in Clients, Buttons(c)  PROVE
      id' = id /\ (cancelled[d] # None => cancelled'[d] = cancelled[d])
  BY <1>0, <1>4 DEF Buttons, Pause, Resume, Discard, client, AbortEarly, Abort, AbortTooLate,
       Stopped, WorkersReturn
<1>5. ASSUME UNCHANGED <<client, record>>  PROVE UNCHANGED <<id, cancelled>>
  BY <1>5 DEF client
<1> QED  BY <1>1, <1>2, <1>3, <1>4, <1>5 DEF Next

LEMMA CompletedStays ==
    ASSUME Inv, PartsOver, Next, NEW d \in Clients, NEW u \in UploadIds, CompletedBy(d, u)
    PROVE  CompletedThen(d, u)
<1>1. id[d] = u /\ u # None /\ id'[d] = u
  BY FileStays, NoneIsNot DEF CompletedBy
<1>2. CASE cancelled[d] = "assembling"
  BY <1>1, <1>2, FileStays, NoneIsNot DEF CompletedThen
<1>3. CASE phase[d] = "completed"
  <2>1. Heard[d] = u
    BY <1>1, <1>3 DEF Heard
  <2>2. Heard'[d] = u
    BY <1>1, <2>1, HeardNext DEF Heard
  <2>3. phase'[d] = "completed"
    BY <1>1, <2>2 DEF Heard
  <2> QED  BY <1>1, <2>3 DEF CompletedThen
<1> QED  BY <1>2, <1>3 DEF CompletedBy

\* Without a failure an upload is completed by an uploader that hears of it.
LEMMA WhoCompletes ==
    ASSUME Inv, Next, faults' = faults, NEW u \in UploadIds,
           upload[u] # "completed", upload'[u] = "completed"
    PROVE  \E c \in Clients : Completed(c) /\ id[c] = u
<1>0. /\ upload \in [UploadIds -> UploadStatus] /\ faults \in Nat
      /\ UploadStatus = {None, "active", "completed", "aborted"}
  BY UploaderAssumption DEF Inv, Server, ServerOK, UploadStatus
<1>a. \A v : Init_(v) \/ AbortUpload(v) \/ Assemble(v) \/ RollBackComplete(v) \/ Expire(v)
               => upload'[u] # "completed"
  BY <1>0 DEF Init_, AbortUpload, Assemble, RollBackComplete, Expire
<1>b. upload' # upload /\ ~UNCHANGED server /\ ~Fault
  BY <1>0 DEF server, Fault
<1>1. ASSUME NEW c \in Clients, Start(c) \/ AbortServed(c) \/ Buttons(c) \/ Leave(c)  PROVE FALSE
  BY <1>1, <1>a, <1>b DEF Start, Submit, Begin, BeginFails, AbortServed, Buttons, Pause, Resume,
       Discard, AbortEarly, Abort, AbortTooLate, Leave
<1>2. ASSUME NEW c \in Clients, NEW w \in WorkersOf[c], PartStep(c, w)  PROVE FALSE
  BY <1>2, <1>b DEF PartStep, TakePart, SignedUrl, BatchSigned, BatchFails, TryAgain, PartStored,
       PartFails, PutPart, server
<1>3. ASSUME NEW c \in Clients, Finish(c)  PROVE Completed(c) /\ id[c] = u
  <2>1. Completed(c)
    BY <1>3, <1>a, <1>b DEF Finish, AllDone, Complete, CompletedUnheard, AlreadyCompleted,
         CompleteRefused
  <2> QED  BY <1>0, <2>1 DEF Completed, CommitComplete
<1>4. ASSUME NEW v \in UploadIds, Expire(v)  PROVE FALSE
  BY <1>4, <1>a
<1> QED  BY <1>1, <1>2, <1>3, <1>4 DEF Next

LEMMA FaultsGrow == ASSUME Inv, Next, faults' = 0  PROVE faults = 0
BY ServerSteps, UploaderAssumption DEF server, ServerStep, Inv, Server, ServerOK

LEMMA CompletersNext == ASSUME Inv, PartsOver, Completers, Next  PROVE Completers'
<1> SUFFICES ASSUME faults' = 0, NEW u \in UploadIds, upload'[u] = "completed"
             PROVE  \E c \in Clients : CompletedThen(c, u)
  BY DEF Completers, CompletedBy, CompletedThen
<1>1. faults = 0
  BY FaultsGrow
<1>2. CASE upload[u] = "completed"
  <2>1. PICK c \in Clients : CompletedBy(c, u)
    BY <1>1, <1>2 DEF Completers
  <2> QED  BY <2>1, CompletedStays
<1>3. CASE upload[u] # "completed"
  <2>1. PICK c \in Clients : Completed(c) /\ id[c] = u
    BY <1>1, <1>3, WhoCompletes
  <2>2. id'[c] = u /\ cancelled'[c] = cancelled[c]
    BY <2>1 DEF Completed, ClientIdle
  <2>3. phase'[c] = "completed" \/ cancelled[c] = "assembling"
    BY <2>1 DEF Completed, Answered, Stopped, Phase, Inv, Uploaders, Told, ClientOK
  <2> QED  BY <2>2, <2>3 DEF CompletedThen
<1> QED  BY <1>2, <1>3

\* Who shows "aborted" showed it before, or aborts now.
LEMMA CancelNext == ASSUME Inv, PartsOver, Completers, CancelIsTrue, Next  PROVE CancelIsTrue'
<1> SUFFICES ASSUME NEW d \in Clients, phase'[d] = "aborted",
                    cancelled'[d] \notin {"initializing", "assembling"}, faults' = 0
             PROVE  \/ asset'[id'[d]] = "CANCELLED"
                    \/ \E e \in Clients \ {d} : CompletedThen(e, id'[d])
  BY DEF CancelIsTrue, CompletedBy, CompletedThen
<1>0. /\ ClientOK /\ Told /\ Ided /\ Remembers /\ Coupled /\ Resumable
      /\ upload \in [UploadIds -> UploadStatus] /\ asset \in [UploadIds -> AssetStatus]
  BY DEF Inv, Uploaders, Server, ServerOK
<1>1. faults = 0
  BY FaultsGrow
<1>2. CASE phase[d] = "aborted" /\ cancelled'[d] = cancelled[d] /\ id'[d] = id[d]
  <2>1. id[d] \in UploadIds
    BY <1>0, <1>2 DEF Ided, ClientOK
  <2>2. CASE asset[id[d]] = "CANCELLED"
    <3>1. upload[id[d]] = "aborted"
      BY <1>0, <2>1, <2>2 DEF Coupled
    <3> QED  BY <1>2, <2>1, <2>2, <3>1, Carried
  <2>3. CASE \E e \in Clients \ {d} : CompletedBy(e, id[d])
    BY <1>2, <2>1, <2>3, CompletedStays
  <2> QED  BY <1>1, <1>2, <2>2, <2>3 DEF CancelIsTrue
<1>3. CASE Abort(d)
  <2>1. id[d] \in UploadIds /\ id'[d] = id[d] /\ id[d] \notin assembling
    BY <1>0, <1>3 DEF Abort, Busy, Ided, Begun, Phases, ClientOK, WorkersReturn
  <2>2. upload[id[d]] # None
    BY <1>0, <2>1, NoneIsNot DEF Remembers
  <2>3. CASE AbortUpload(id[d])
    BY <1>0, <2>1, <2>3 DEF AbortUpload, Abortable, Coupled
  <2>4. CASE ~Abortable(id[d]) /\ UNCHANGED server
    <3>1. upload[id[d]] # "active"
      BY <1>0, <1>1, <2>1, <2>4 DEF Abortable, Resumable, Active
    <3>2. upload[id[d]] \in {"completed", "aborted"}
      BY <1>0, <2>1, <2>2, <3>1 DEF UploadStatus
    <3>3. CASE upload[id[d]] = "aborted"
      BY <1>0, <2>1, <2>4, <3>3 DEF server, Coupled
    <3>4. CASE upload[id[d]] = "completed"
      <4>1. PICK e \in Clients : CompletedBy(e, id[d])
        BY <1>1, <2>1, <3>4 DEF Completers
      <4>2. e # d
        BY <1>3, <4>1, NoneIsNot DEF Abort, Busy, Stopped, CompletedBy
      <4> QED  BY <2>1, <4>1, <4>2, CompletedStays
    <3> QED  BY <3>2, <3>3, <3>4
  <2> QED  BY <1>3, <2>3, <2>4 DEF Abort
<1>4. ASSUME NEW c \in Clients, Start(c)  PROVE
      phase[d] = "aborted" /\ cancelled'[d] = cancelled[d] /\ id'[d] = id[d]
  BY <1>0, <1>4 DEF Start, Submit, Begin, BeginFails, Phase, ClientOK
<1>5. ASSUME NEW c \in Clients, NEW w \in WorkersOf[c], PartStep(c, w)  PROVE
      phase[d] = "aborted" /\ cancelled'[d] = cancelled[d] /\ id'[d] = id[d]
  BY <1>0, <1>5 DEF PartStep, TakePart, SignedUrl, BatchSigned, BatchFails, TryAgain,
       PartStored, PartFails, Fails, ClientOK
<1>6. ASSUME NEW c \in Clients, Finish(c)  PROVE
      phase[d] = "aborted" /\ cancelled'[d] = cancelled[d] /\ id'[d] = id[d]
  BY <1>0, <1>6 DEF Finish, AllDone, Complete, Completed, CompletedUnheard, Answered,
       AlreadyCompleted, CompleteRefused, ClientIdle, Phase, ClientOK
<1>7. ASSUME NEW c \in Clients, AbortServed(c)  PROVE
      phase[d] = "aborted" /\ cancelled'[d] = cancelled[d] /\ id'[d] = id[d]
  <2>1. c # d
    BY <1>0, <1>7 DEF AbortServed, ClientIdle, Told
  <2> QED  BY <1>0, <1>7, <2>1 DEF AbortServed, ClientIdle, Phase, ClientOK
<1>8. ASSUME NEW c \in Clients, Buttons(c) \/ Leave(c)  PROVE
      \/ Abort(d)
      \/ phase[d] = "aborted" /\ cancelled'[d] = cancelled[d] /\ id'[d] = id[d]
  BY <1>0, <1>8 DEF Buttons, Pause, Resume, Discard, client, AbortEarly, Abort, AbortTooLate,
       Leave, WorkersReturn, Phase, ClientOK
<1>9. ASSUME NEW u \in UploadIds, Expire(u), UNCHANGED <<client, record>>  PROVE
      phase[d] = "aborted" /\ cancelled'[d] = cancelled[d] /\ id'[d] = id[d]
  BY <1>9 DEF client
<1> QED  BY <1>2, <1>3, <1>4, <1>5, <1>6, <1>7, <1>8, <1>9 DEF Next

\* With any number of tabs and nothing failing: a cancel that is shown has
\* cancelled, unless it came before init was answered, while the object was
\* being assembled, or after another tab had the upload completed.
THEOREM CancelsTruly == Spec => []CancelIsTrue
<1>1. Init => Inv /\ PartsOver /\ Completers /\ CancelIsTrue
  <2>1. Init => Completers /\ CancelIsTrue
    BY UploaderAssumption DEF Init, InitServer, Completers, CancelIsTrue
  <2> QED  BY <2>1, InitInv, OutcomeInit
<1>2. Inv /\ PartsOver /\ Completers /\ CancelIsTrue /\ UNCHANGED vars
        => PartsOver' /\ Completers' /\ CancelIsTrue'
  BY DEF vars, client, server, PartsOver, Completers, CancelIsTrue, CompletedBy
<1>3. Inv /\ PartsOver /\ Completers /\ CancelIsTrue /\ [Next]_vars
        => Inv' /\ PartsOver' /\ Completers' /\ CancelIsTrue'
  BY <1>2, InvNext, PartsOverNext, CompletersNext, CancelNext
<1> QED  BY <1>1, <1>3, PTL DEF Spec

-----------------------------------------------------------------------------
(* The workers of one uploader: batches and parts.                          *)

\* The batch that newcomers wait for, and each one a worker does wait for, has
\* a worker that signs it.
SignOK(c) ==
    /\ signing[c] # None =>
          signing[c] \in WorkersOf[c] /\ work[c][signing[c]].at = "lead"
    /\ \A w \in WorkersOf[c] : work[c][w].at = "wait" =>
          work[c][w].on \in WorkersOf[c] /\ work[c][work[c][w].on].at = "lead"

\* Types, and that workers are those of the uploader.
WorkOK ==
    /\ work \in [Clients -> [Workers -> Jobs]]
    /\ signing \in [Clients -> Workers \cup {None}]
    /\ \A c \in Clients : WorkersOf[c] \subseteq Workers

LEMMA SignOneWorker ==
    ASSUME WorkOK, NEW c \in Clients, SignOK(c), NEW w \in WorkersOf[c], NEW to,
           work' = [work EXCEPT ![c][w] = to], work[c][w].at # "lead",
           to.at = "wait" => to.on \in WorkersOf[c] /\ work[c][to.on].at = "lead",
           signing'[c] # None => \/ signing'[c] = signing[c]
                                 \/ signing'[c] = w /\ to.at = "lead"
    PROVE  SignOK(c)'
<1>1. /\ work'[c][w] = to /\ w \in Workers
      /\ \A v \in WorkersOf[c] \ {w} : work'[c][v] = work[c][v]
  BY DEF WorkOK
<1>2. ASSUME NEW v \in WorkersOf[c], work[c][v].at = "lead"  PROVE work'[c][v].at = "lead"
  BY <1>1, <1>2
<1>3. ASSUME signing'[c] # None
      PROVE  signing'[c] \in WorkersOf[c] /\ work'[c][signing'[c]].at = "lead"
  BY <1>1, <1>2, <1>3 DEF SignOK
<1>4. ASSUME NEW v \in WorkersOf[c], work'[c][v].at = "wait"
      PROVE  work'[c][v].on \in WorkersOf[c] /\ work'[c][work'[c][v].on].at = "lead"
  <2>1. CASE v = w
    BY <1>1, <1>2, <1>4, <2>1
  <2>2. CASE v # w
    BY <1>1, <1>2, <1>4, <2>2 DEF SignOK
  <2> QED  BY <2>1, <2>2
<1> QED  BY <1>3, <1>4 DEF SignOK

\* A batch ends, and everybody who waited for it hears of it.
LEMMA SignBatchEnds ==
    ASSUME WorkOK, NEW c \in Clients, SignOK(c), NEW w \in WorkersOf[c],
           signing'[c] = None,
           \A v \in WorkersOf[c] :
              IF v = w \/ Waiting(c, w, v) THEN work'[c][v].at # "wait"
              ELSE work'[c][v] = work[c][v]
    PROVE  SignOK(c)'
<1>1. ASSUME NEW v \in WorkersOf[c], work'[c][v].at = "wait"
      PROVE  work'[c][v].on \in WorkersOf[c] /\ work'[c][work'[c][v].on].at = "lead"
  <2>1. v # w /\ ~Waiting(c, w, v) /\ work'[c][v] = work[c][v]
    BY <1>1
  <2>2. work[c][v].on \in WorkersOf[c] /\ work[c][work[c][v].on].at = "lead"
    BY <1>1, <2>1 DEF SignOK
  <2>3. work[c][v].on # w /\ ~Waiting(c, w, work[c][v].on)
    BY <1>1, <2>1, <2>2 DEF Waiting
  <2>4. work'[c][work[c][v].on] = work[c][work[c][v].on]
    BY <2>2, <2>3
  <2> QED  BY <2>1, <2>2, <2>4
<1> QED  BY <1>1 DEF SignOK

LEMMA AfterFailureAt ==
    ASSUME NEW me
    PROVE  \/ AfterFailure(me).at = "dead"
           \/ AfterFailure(me).at = "again" /\ AfterFailure(me).part = me.part
BY DEF AfterFailure, Idle

LEMMA SignPart ==
    ASSUME WorkOK, NEW c \in Clients, SignOK(c), NEW w \in WorkersOf[c], PartStep(c, w)
    PROVE  SignOK(c)'
<1>0. w \in Workers
  BY DEF WorkOK
<1>1. CASE TakePart(c, w)
  <2>1. signing' = signing /\ work[c][w].at = "gate"
    BY <1>1 DEF TakePart
  <2>2. CASE Work(c, w, [Idle EXCEPT !.at = "done"])
    <3>1. [Idle EXCEPT !.at = "done"].at = "done"
      BY DEF Idle
    <3> QED  BY <2>1, <2>2, <3>1, SignOneWorker DEF Work
  <2>3. ASSUME NEW p, Work(c, w, [Idle EXCEPT !.at = "sign", !.part = p, !.try = 1])
        PROVE  SignOK(c)'
    <3>1. [Idle EXCEPT !.at = "sign", !.part = p, !.try = 1].at = "sign"
      BY DEF Idle
    <3> QED  BY <2>1, <2>3, <3>1, SignOneWorker DEF Work
  <2> QED  BY <1>1, <2>2, <2>3 DEF TakePart
<1>2. CASE SignedUrl(c, w)
  <2> DEFINE me == work[c][w]
  <2>0. me.at = "sign"
    BY <1>2 DEF SignedUrl
  <2>1. CASE Work(c, w, [me EXCEPT !.at = "put"]) /\ UNCHANGED signing
    <3>1. [me EXCEPT !.at = "put"].at = "put"
      BY <1>0 DEF WorkOK, Jobs
    <3> QED  BY <2>0, <2>1, <3>1, SignOneWorker DEF Work
  <2>2. CASE MustWait(c, w) /\ Work(c, w, [me EXCEPT !.at = "wait", !.on = signing[c]])
             /\ UNCHANGED signing
    <3>1. [me EXCEPT !.at = "wait", !.on = signing[c]].on = signing[c]
      BY <1>0 DEF WorkOK, Jobs
    <3>2. signing[c] \in WorkersOf[c] /\ work[c][signing[c]].at = "lead"
      BY <2>2 DEF MustWait, SignOK
    <3> QED  BY <2>0, <2>2, <3>1, <3>2, SignOneWorker DEF Work
  <2>3. CASE /\ signing' = [signing EXCEPT ![c] = w]
             /\ Work(c, w, [me EXCEPT !.at = "lead",
                                      !.batch = {me.part} \cup (queue[c] \ signed[c])])
    <3>1. [me EXCEPT !.at = "lead", !.batch = {me.part} \cup (queue[c] \ signed[c])].at = "lead"
      BY <1>0 DEF WorkOK, Jobs
    <3>2. signing'[c] = w
      BY <2>3 DEF WorkOK
    <3> QED  BY <2>0, <2>3, <3>1, <3>2, SignOneWorker DEF Work
  <2> QED  BY <1>2, <2>1, <2>2, <2>3 DEF SignedUrl
<1>3. CASE BatchSigned(c, w)
  <2>1. signing'[c] = None
    BY <1>3 DEF BatchSigned, WorkOK
  <2>2. ASSUME NEW v \in WorkersOf[c]
        PROVE  IF v = w \/ Waiting(c, w, v) THEN work'[c][v].at # "wait"
               ELSE work'[c][v] = work[c][v]
    BY <1>3, <2>2 DEF BatchSigned, WorkOK, Jobs
  <2> QED  BY <2>1, <2>2, SignBatchEnds
<1>4. CASE BatchFails(c, w)
  <2>1. signing'[c] = None
    BY <1>4 DEF BatchFails, WorkOK
  <2>2. ASSUME NEW v \in WorkersOf[c]
        PROVE  IF v = w \/ Waiting(c, w, v) THEN work'[c][v].at # "wait"
               ELSE work'[c][v] = work[c][v]
    <3>1. work'[c][v] = IF v = w \/ Waiting(c, w, v) THEN AfterFailure(work[c][v])
                        ELSE work[c][v]
      BY <1>0, <1>4, <2>2 DEF BatchFails, Fails, WorkOK
    <3> QED  BY <3>1, AfterFailureAt
  <2> QED  BY <2>1, <2>2, SignBatchEnds
<1>5. CASE TryAgain(c, w)
  <2>1. /\ signing' = signing /\ work[c][w].at = "again"
        /\ work' = [work EXCEPT ![c][w] = [work[c][w] EXCEPT !.at = "sign"]]
    BY <1>5 DEF TryAgain, Work
  <2>2. [work[c][w] EXCEPT !.at = "sign"].at = "sign"
    BY <1>0 DEF WorkOK, Jobs
  <2> QED  BY <2>1, <2>2, SignOneWorker
<1>6. CASE PartStored(c, w)
  BY <1>6, SignOneWorker DEF PartStored, Work, Idle
<1>7. CASE PartFails(c, w)
  <2>1. /\ signing' = signing /\ work[c][w].at = "put"
        /\ work' = [work EXCEPT ![c][w] = AfterFailure(work[c][w])]
    BY <1>0, <1>7 DEF PartFails, Fails, WorkOK
  <2> QED  BY <2>1, AfterFailureAt, SignOneWorker
<1> QED  BY <1>1, <1>2, <1>3, <1>4, <1>5, <1>6, <1>7 DEF PartStep

\* An uploader that has not begun has nothing in hand.
FreshOK(c) == phase[c] \in {"idle", "initializing"} =>
                  \A w \in WorkersOf[c] : work[c][w] = Idle

\* Every part is counted, queued or in the hands of a worker.
Somewhere(c) ==
    \A p \in Parts :
        \/ known[c][p] # None \/ p \in queue[c]
        \/ \E w \in WorkersOf[c] : work[c][w].at \in Stations /\ work[c][w].part = p

\* As long as it goes on: no part is lost, nobody stops before the queue is
\* empty, nobody has given up.
PartsOK(c) ==
    phase[c] \in {"uploading", "paused"} =>
        /\ Somewhere(c)
        /\ \A w \in WorkersOf[c] : work[c][w].at = "done" => queue[c] = {}
        /\ \A w \in WorkersOf[c] : work[c][w].at # "dead"

WholeOK(c) == phase[c] = "completing" /\ WorkersOf[c] # {} => \A p \in Parts : known[c][p] # None

WorkInv == /\ PartsOver
           /\ \A c \in Clients : SignOK(c) /\ FreshOK(c) /\ PartsOK(c) /\ WholeOK(c)

\* Whoever has a part in hand keeps it.
LEMMA PartsKept ==
    ASSUME NEW c \in Clients, PartsOK(c), phase[c] \in {"uploading", "paused"},
           known'[c] = known[c], queue'[c] = queue[c],
           \A w \in WorkersOf[c] :
              /\ work[c][w].at \in Stations =>
                    work'[c][w].at \in Stations /\ work'[c][w].part = work[c][w].part
              /\ work'[c][w].at = "done" => work[c][w].at = "done"
              /\ work'[c][w].at # "dead"
    PROVE  PartsOK(c)'
<1>1. Somewhere(c)'
  BY DEF PartsOK, Somewhere
<1> QED  BY <1>1 DEF PartsOK

LEMMA FailsKeeps ==
    ASSUME WorkOK, phase \in [Clients -> Phases], NEW c \in Clients, NEW some \in SUBSET Workers,
           Fails(c, some), phase'[c] # "failed", NEW v \in WorkersOf[c],
           v \in some => work[c][v].at \in Stations
    PROVE  /\ work[c][v].at \in Stations =>
                  work'[c][v].at \in Stations /\ work'[c][v].part = work[c][v].part
           /\ work'[c][v].at = "done" => work[c][v].at = "done"
           /\ work'[c][v].at = "dead" => work[c][v].at = "dead"
<1>1. v \in Workers /\ work'[c][v] = IF v \in some THEN AfterFailure(work[c][v]) ELSE work[c][v]
  BY DEF WorkOK, Fails
<1>2. v \in some => work'[c][v].at # "dead"
  BY <1>1 DEF Fails
<1>3. CASE v \in some
  <2>1. work'[c][v].at = "again" /\ work'[c][v].part = work[c][v].part
    BY <1>1, <1>2, <1>3, AfterFailureAt
  <2> QED  BY <2>1 DEF Stations
<1>4. CASE v \notin some
  BY <1>1, <1>4
<1> QED  BY <1>3, <1>4

LEMMA PartsPart ==
    ASSUME Inv, WorkOK, NEW c \in Clients, PartsOK(c), NEW w \in WorkersOf[c], PartStep(c, w)
    PROVE  PartsOK(c)'
<1>0. /\ w \in Workers /\ phase \in [Clients -> Phases]
      /\ queue \in [Clients -> SUBSET Parts] /\ known \in [Clients -> PartLists]
      /\ FileOf \in [Clients -> Files] /\ WorkersOf[c] \subseteq Workers
      /\ work \in [Clients -> [Workers -> Jobs]]
  BY UploaderAssumption DEF WorkOK, Inv, Uploaders, ClientOK
<1>1. phase' = phase \/ phase'[c] = "failed"
  BY <1>0 DEF PartStep, TakePart, SignedUrl, BatchSigned, BatchFails, TryAgain,
              PartStored, PartFails, Fails
<1> SUFFICES ASSUME phase[c] \in {"uploading", "paused"}, phase'[c] # "failed"
             PROVE  PartsOK(c)'
  BY <1>1 DEF PartsOK
<1>2. /\ Somewhere(c)
      /\ \A v \in WorkersOf[c] : work[c][v].at = "done" => queue[c] = {}
      /\ \A v \in WorkersOf[c] : work[c][v].at # "dead"
  BY DEF PartsOK
<1>3. CASE TakePart(c, w)
  <2>0. work[c][w].at = "gate" /\ known' = known
    BY <1>3 DEF TakePart
  <2>1. ASSUME NEW p \in queue[c], queue' = [queue EXCEPT ![c] = @ \ {p}],
               Work(c, w, [Idle EXCEPT !.at = "sign", !.part = p, !.try = 1])
        PROVE  PartsOK(c)'
    <3>1. /\ work'[c][w].at = "sign" /\ work'[c][w].part = p
          /\ \A v \in WorkersOf[c] \ {w} : work'[c][v] = work[c][v]
          /\ queue'[c] = queue[c] \ {p}
      BY <1>0, <2>1 DEF Work, Idle
    <3>2. Somewhere(c)'
      BY <1>2, <2>0, <3>1 DEF Somewhere, Stations
    <3>3. \A v \in WorkersOf[c] : work'[c][v].at # "done" /\ work'[c][v].at # "dead"
      BY <1>2, <2>1, <3>1
    <3> QED  BY <3>2, <3>3 DEF PartsOK
  <2>2. CASE queue[c] = {} /\ Work(c, w, [Idle EXCEPT !.at = "done"]) /\ UNCHANGED queue
    <3>1. /\ work'[c][w].at = "done"
          /\ \A v \in WorkersOf[c] \ {w} : work'[c][v] = work[c][v]
          /\ queue'[c] = {}
      BY <1>0, <2>2 DEF Work, Idle
    <3>2. Somewhere(c)'
      BY <1>2, <2>0, <2>2, <3>1 DEF Somewhere, Stations
    <3> QED  BY <1>2, <3>1, <3>2 DEF PartsOK
  <2>3. CASE queue[c] # {}
    <3>1. (CHOOSE n \in queue[c] : \A m \in queue[c] : n <= m) \in queue[c]
      <4>1. queue[c] \in SUBSET Nat
        BY <1>0, UploaderAssumption
      <4> QED  BY <2>3, <4>1, LeastIsThere
    <3> QED  BY <1>3, <2>1, <2>3, <3>1 DEF TakePart
  <2> QED  BY <1>3, <2>2, <2>3 DEF TakePart
<1>4. CASE PartStored(c, w)
  <2>1. /\ work[c][w].part \in Parts /\ queue' = queue
        /\ known' = [known EXCEPT ![c][work[c][w].part] = FileOf[c]]
        /\ work'[c][w] = Idle /\ \A v \in WorkersOf[c] \ {w} : work'[c][v] = work[c][v]
    BY <1>0, <1>4 DEF PartStored, Work, Inv, Uploaders, Parted, Stations
  <2>2. /\ known'[c][work[c][w].part] # None
        /\ \A p \in Parts : known[c][p] # None => known'[c][p] # None
    BY <1>0, <2>1, NoneIsNot DEF PartLists
  <2>3. Somewhere(c)'
    BY <1>2, <2>1, <2>2 DEF Somewhere
  <2>4. Idle.at = "gate"
    BY DEF Idle
  <2> QED  BY <1>2, <2>1, <2>3, <2>4 DEF PartsOK
<1>5. CASE SignedUrl(c, w) \/ TryAgain(c, w)
  <2> DEFINE me == work[c][w]
  <2>1. /\ known' = known /\ queue' = queue /\ me.at \in Stations /\ me \in Jobs
    BY <1>0, <1>5 DEF SignedUrl, TryAgain, Stations
  <2>2. ASSUME NEW to, Work(c, w, to), to.at \in {"put", "wait", "lead", "sign"},
               to.part = me.part
        PROVE  PartsOK(c)'
    <3>1. work'[c][w] = to /\ \A v \in WorkersOf[c] \ {w} : work'[c][v] = work[c][v]
      BY <1>0, <2>2 DEF Work
    <3>2. to.at \in Stations /\ to.at \notin {"done", "dead"}
      BY <2>2 DEF Stations
    <3> QED  BY <1>2, <2>1, <2>2, <3>1, <3>2, PartsKept
  <2>3. ASSUME NEW on, NEW batch
        PROVE  /\ [me EXCEPT !.at = "put"].part = me.part
               /\ [me EXCEPT !.at = "put"].at = "put"
               /\ [me EXCEPT !.at = "sign"].part = me.part
               /\ [me EXCEPT !.at = "sign"].at = "sign"
               /\ [me EXCEPT !.at = "wait", !.on = on].part = me.part
               /\ [me EXCEPT !.at = "wait", !.on = on].at = "wait"
               /\ [me EXCEPT !.at = "lead", !.batch = batch].part = me.part
               /\ [me EXCEPT !.at = "lead", !.batch = batch].at = "lead"
    BY <2>1 DEF Jobs
  <2>4. CASE SignedUrl(c, w)
    <3>1. CASE Work(c, w, [me EXCEPT !.at = "put"])
      BY <2>2, <2>3, <3>1
    <3>2. CASE Work(c, w, [me EXCEPT !.at = "wait", !.on = signing[c]])
      <4> DEFINE to == [me EXCEPT !.at = "wait", !.on = signing[c]]
      <4>1. to.at = "wait" /\ to.part = me.part
        BY <2>3
      <4>2. Work(c, w, to)
        BY <3>2
      <4> HIDE DEF to
      <4> QED  BY <2>2, <4>1, <4>2
    <3>3. CASE Work(c, w, [me EXCEPT !.at = "lead",
                                     !.batch = {me.part} \cup (queue[c] \ signed[c])])
      <4> DEFINE to == [me EXCEPT !.at = "lead",
                                  !.batch = {me.part} \cup (queue[c] \ signed[c])]
      <4>1. to.at = "lead" /\ to.part = me.part
        BY <2>3
      <4>2. Work(c, w, to)
        BY <3>3
      <4> HIDE DEF to
      <4> QED  BY <2>2, <4>1, <4>2
    <3> QED  BY <2>4, <3>1, <3>2, <3>3 DEF SignedUrl
  <2>5. CASE TryAgain(c, w)
    <3>1. Work(c, w, [me EXCEPT !.at = "sign"])
      BY <2>5 DEF TryAgain
    <3> QED  BY <2>2, <2>3, <3>1
  <2> QED  BY <1>5, <2>4, <2>5
<1>6. CASE BatchSigned(c, w)
  <2>1. known' = known /\ queue' = queue /\ work[c][w].at = "lead"
    BY <1>6 DEF BatchSigned
  <2>2. ASSUME NEW v \in WorkersOf[c]
        PROVE  \/ work'[c][v] = work[c][v]
               \/ /\ work[c][v].at \in Stations /\ work'[c][v].at \in {"put", "sign"}
                  /\ work'[c][v].part = work[c][v].part
    BY <1>0, <1>6 DEF BatchSigned, Waiting, Stations, Jobs
  <2> QED  BY <1>2, <2>1, <2>2, PartsKept DEF Stations
<1>7. CASE BatchFails(c, w)
  <2> DEFINE some == {w} \cup {v \in Workers : Waiting(c, w, v)}
  <2>1. /\ known' = known /\ queue' = queue /\ Fails(c, some) /\ some \in SUBSET Workers
        /\ \A v \in some : work[c][v].at \in Stations
    BY <1>0, <1>7 DEF BatchFails, Waiting, Stations
  <2> HIDE DEF some
  <2> QED  BY <1>0, <1>2, <2>1, FailsKeeps, PartsKept
<1>8. CASE PartFails(c, w)
  <2>1. /\ known' = known /\ queue' = queue /\ Fails(c, {w}) /\ {w} \in SUBSET Workers
        /\ \A v \in {w} : work[c][v].at \in Stations
    BY <1>0, <1>8 DEF PartFails, Stations
  <2> QED  BY <1>0, <1>2, <2>1, FailsKeeps, PartsKept
<1> QED  BY <1>3, <1>4, <1>5, <1>6, <1>7, <1>8 DEF PartStep

LEMMA WorkNext == ASSUME Inv, WorkInv, Next  PROVE WorkInv'
<1>0. /\ WorkOK /\ phase \in [Clients -> Phases] /\ id \in [Clients -> UploadIds \cup {None}]
      /\ known \in [Clients -> PartLists] /\ queue \in [Clients -> SUBSET Parts]
      /\ PartsOver'
  BY UploaderAssumption, PartsOverNext DEF Inv, Uploaders, ClientOK, WorkOK, WorkInv
<1> DEFINE OK(c) == SignOK(c) /\ FreshOK(c) /\ PartsOK(c) /\ WholeOK(c)
<1> SUFFICES ASSUME NEW d \in Clients  PROVE OK(d)'
  BY <1>0 DEF WorkInv
<1>a. SignOK(d) /\ FreshOK(d) /\ PartsOK(d) /\ WholeOK(d)
  BY DEF WorkInv
<1>b. ASSUME phase'[d] = phase[d], id'[d] = id[d], known'[d] = known[d], queue'[d] = queue[d],
             signing'[d] = signing[d], work'[d] = work[d]
      PROVE  OK(d)'
  BY <1>a, <1>b DEF SignOK, FreshOK, PartsOK, Somewhere, WholeOK
<1>1. ASSUME NEW c \in Clients, Start(c)  PROVE OK(d)'
  <2>1. CASE d # c
    BY <1>0, <1>1, <1>b, <2>1 DEF Start, Submit, Begin, BeginFails, Phase
  <2>2. CASE d = c /\ (Submit(c) \/ BeginFails(c))
    BY <1>0, <1>a, <2>2 DEF Submit, BeginFails, Phase, SignOK, FreshOK, PartsOK, WholeOK
  <2>3. CASE d = c /\ Begin(c)
    <3>1. PICK u \in UploadIds :
            /\ phase[c] = "initializing" /\ known' = [known EXCEPT ![c] = Resumed(u)]
            /\ queue' = [queue EXCEPT ![c] = {p \in Parts : Resumed(u)[p] = None}]
            /\ phase' = [phase EXCEPT ![c] = "uploading"]
            /\ UNCHANGED <<signing, work>>
      BY <2>3 DEF Begin, Phase
    <3>2. /\ known'[d] = Resumed(u) /\ phase'[d] = "uploading"
          /\ queue'[d] = {p \in Parts : Resumed(u)[p] = None}
      BY <1>0, <2>3, <3>1
    <3>3. Somewhere(d)'
      BY <3>2 DEF Somewhere
    <3>4. \A w \in WorkersOf[d] : work'[d][w].at = "gate"
      BY <1>a, <2>3, <3>1 DEF FreshOK, Idle
    <3>5. PartsOK(d)'
      BY <3>3, <3>4 DEF PartsOK
    <3> QED  BY <1>a, <3>1, <3>2, <3>5 DEF SignOK, FreshOK, WholeOK
  <2> QED  BY <1>1, <2>1, <2>2, <2>3 DEF Start
<1>2. ASSUME NEW c \in Clients, NEW w \in WorkersOf[c], PartStep(c, w)  PROVE OK(d)'
  <2>1. CASE d # c
    <3>1. /\ phase'[d] = phase[d] /\ id'[d] = id[d] /\ known'[d] = known[d]
          /\ queue'[d] = queue[d] /\ signing'[d] = signing[d] /\ work'[d] = work[d]
      BY <1>0, <1>2, <2>1 DEF PartStep, TakePart, SignedUrl, BatchSigned, BatchFails, TryAgain,
         PartStored, PartFails, Fails, Work, WorkOK
    <3> QED  BY <1>b, <3>1
  <2>2. CASE d = c
    <3>1. id[c] # None /\ work[c][w].at # "done"
      BY <1>2 DEF PartStep, TakePart, SignedUrl, BatchSigned, BatchFails, TryAgain,
         PartStored, PartFails, Running
    <3>2. phase[c] \notin {"idle", "initializing", "completing"}
      BY <2>2, <3>1 DEF WorkInv, PartsOver, Inv, Uploaders, Ided
    <3>3. phase'[c] = phase[c] \/ phase'[c] = "failed"
      BY <1>0, <1>2 DEF PartStep, TakePart, SignedUrl, BatchSigned, BatchFails, TryAgain,
         PartStored, PartFails, Fails
    <3> QED  BY <1>0, <1>2, <1>a, <2>2, <3>2, <3>3, SignPart, PartsPart DEF FreshOK, WholeOK
  <2> QED  BY <2>1, <2>2
<1>3. ASSUME NEW c \in Clients,
             Finish(c) \/ AbortServed(c) \/ Pause(c) \/ Resume(c) \/ Discard(c) \/ AbortTooLate(c)
      PROVE  OK(d)'
  <2>0. UNCHANGED <<id, known, queue, signing, work>>
    BY <1>3 DEF Finish, AllDone, Complete, Completed, CompletedUnheard, AlreadyCompleted,
       CompleteRefused, AbortServed, ClientIdle, Pause, Resume, Discard, AbortTooLate, client
  <2>1. CASE phase'[d] = phase[d]
    BY <1>b, <2>0, <2>1
  <2>2. CASE phase'[d] # phase[d]
    <3>1. d = c
      BY <1>0, <1>3, <2>2 DEF Finish, AllDone, Complete, Completed, CompletedUnheard, Answered,
         AlreadyCompleted, CompleteRefused, AbortServed, Pause, Resume, Discard, AbortTooLate,
         client, Phase
    <3>2. \/ phase'[d] \in (Begun \ {"uploading", "paused", "completing"}) \cup {"failed", "aborted"}
          \/ phase[d] \in {"uploading", "paused"} /\ phase'[d] \in {"uploading", "paused"}
          \/ AllDone(d)
      BY <1>0, <1>3, <2>2, <3>1 DEF Finish, Complete, Completed, CompletedUnheard, Answered,
         AlreadyCompleted, CompleteRefused, AbortServed, Pause, Resume, Discard, AbortTooLate,
         client, Phase, Begun, Phases
    <3>3. SignOK(d)'
      BY <1>a, <2>0 DEF SignOK
    <3>4. CASE phase'[d] \in (Begun \ {"uploading", "paused", "completing"}) \cup {"failed", "aborted"}
      BY <3>3, <3>4 DEF Begun, FreshOK, PartsOK, WholeOK
    <3>5. CASE phase[d] \in {"uploading", "paused"} /\ phase'[d] \in {"uploading", "paused"}
      BY <1>a, <2>0, <3>3, <3>5 DEF FreshOK, PartsOK, Somewhere, WholeOK
    <3>6. CASE AllDone(d)
      <4>1. /\ phase[d] = "uploading" /\ phase'[d] = "completing"
            /\ \A w \in WorkersOf[d] : work[d][w].at = "done"
        BY <1>0, <3>6 DEF AllDone, Phase
      <4>2. \A w \in WorkersOf[d] : work[d][w].at \notin Stations
        BY <4>1 DEF Stations
      <4>3. WorkersOf[d] # {} => \A p \in Parts : known[d][p] # None
        BY <1>a, <4>1, <4>2 DEF PartsOK, Somewhere
      <4> QED  BY <2>0, <3>3, <4>1, <4>3 DEF FreshOK, PartsOK, WholeOK
    <3> QED  BY <3>2, <3>4, <3>5, <3>6
  <2> QED  BY <2>1, <2>2
<1>4. ASSUME NEW c \in Clients, AbortEarly(c) \/ Abort(c) \/ Leave(c)  PROVE OK(d)'
  <2>1. CASE d # c
    BY <1>0, <1>4, <1>b, <2>1 DEF AbortEarly, Abort, Leave, WorkersReturn, Phase, WorkOK
  <2>2. CASE d = c
    <3>1. phase'[d] \in {"aborted", "gone"} /\ signing'[d] = None
          /\ work'[d] = [w \in Workers |-> Idle]
      BY <1>0, <1>4, <2>2 DEF AbortEarly, Abort, Leave, WorkersReturn, Phase, WorkOK
    <3>2. \A w \in WorkersOf[d] : work'[d][w].at # "wait"
      BY <1>0, <3>1 DEF WorkOK, Idle
    <3> QED  BY <3>1, <3>2 DEF SignOK, FreshOK, PartsOK, WholeOK
  <2> QED  BY <2>1, <2>2
<1>5. ASSUME UNCHANGED <<client, record>>  PROVE OK(d)'
  BY <1>b, <1>5 DEF client
<1> HIDE DEF OK
<1> QED  BY <1>1, <1>2, <1>3, <1>4, <1>5 DEF Next, Buttons

LEMMA AlwaysWork == Spec => [](Inv /\ WorkInv)
<1>1. Init => WorkInv
  <2> SUFFICES ASSUME Init  PROVE WorkInv
    OBVIOUS
  <2>1. /\ phase = [c \in Clients |-> "idle"] /\ id = [c \in Clients |-> None]
        /\ signing = [c \in Clients |-> None]
        /\ work = [c \in Clients |-> [w \in Workers |-> Idle]]
        /\ \A c \in Clients : WorkersOf[c] \subseteq Workers
    BY UploaderAssumption DEF Init
  <2>2. \A c \in Clients : \A w \in WorkersOf[c] : work[c][w] = Idle /\ Idle.at = "gate"
    BY <2>1 DEF Idle
  <2> QED  BY <2>1, <2>2 DEF WorkInv, PartsOver, SignOK, FreshOK, PartsOK, WholeOK
<1>2. Inv /\ WorkInv /\ UNCHANGED vars => WorkInv'
  BY DEF vars, client, WorkInv, PartsOver, SignOK, FreshOK, PartsOK, Somewhere, WholeOK
<1>3. Inv /\ WorkInv /\ [Next]_vars => Inv' /\ WorkInv'
  BY <1>2, InvNext, WorkNext
<1> QED  BY <1>1, <1>3, InitInv, PTL DEF Spec

\* For any number of workers, whatever fails: who waits for a batch of urls
\* waits for a worker that is signing one, so its end wakes it (upload.ts:307).
THEOREM NoBatchIsMissed == Spec => []BatchesAreSigned
<1>1. WorkInv => BatchesAreSigned
  BY DEF WorkInv, SignOK, BatchesAreSigned
<1> QED  BY <1>1, AlwaysWork, PTL

\* However the workers share, retry and are paused: a part is counted, queued
\* or in somebody's hands until all of them are counted (upload.ts:262).
THEOREM NoPartIsForgotten == Spec => []CompletesWithEveryPart
<1>1. WorkInv => CompletesWithEveryPart
  BY DEF WorkInv, WholeOK, CompletesWithEveryPart
<1> QED  BY <1>1, AlwaysWork, PTL
==============================================================================
