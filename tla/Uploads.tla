------------------------------- MODULE Uploads -------------------------------
(***************************************************************************)
(* Resumable multipart uploads, seen from the API: upload and asset rows   *)
(* in the database, the multipart uploads in the object store.             *)
(*                                                                         *)
(*   apps/api/src/services/uploads.ts      init, complete, abort           *)
(*   apps/api/src/storage/s3.ts, local-fs.ts   the two storage drivers     *)
(*                                                                         *)
(* All files considered have one project, name and size, which is all that *)
(* init looks at; a file is its content.  The etag of a part stands for    *)
(* that content.  The store is not part of the database transaction, so    *)
(* completing is two steps: the object is assembled under a lock on the    *)
(* upload's row, then the transaction commits or rolls back.               *)
(***************************************************************************)
EXTENDS Naturals

CONSTANTS
    UploadIds,   \* uploads that may be created
    Parts,       \* part numbers of the file
    Files,       \* contents of equal name and size
    MaxFaults,   \* bound: rolled back completions, failed requests
    None

VARIABLES
    s3,          \* which storage driver is configured; never changes
    upload,      \* uploads.status, None if there is no such row
    asset,       \* assets.status of the upload's asset
    open,        \* multipart uploads the store knows
    stored,      \* the parts the store holds of each
    object,      \* the objects assembled: part -> file, or None
    assembling,  \* uploads whose row a completing transaction has locked
    faults

server == <<s3, upload, asset, open, stored, object, assembling, faults>>

NoParts == [p \in Parts |-> None]

PartLists == [Parts -> Files \cup {None}]

InitServer ==
    /\ s3 \in BOOLEAN
    /\ upload = [u \in UploadIds |-> None]
    /\ asset = [u \in UploadIds |-> None]
    /\ open = {}
    /\ stored = [u \in UploadIds |-> NoParts]
    /\ object = [u \in UploadIds |-> None]
    /\ assembling = {}
    /\ faults = 0

Fault == faults < MaxFaults /\ faults' = faults + 1

-----------------------------------------------------------------------------
(* POST /uploads.  The project's row is locked, so inits do not overlap. *)

Active == {u \in UploadIds : upload[u] = "active"}

\* Listing the parts of a multipart upload the store no longer knows is an
\* error of S3; the local driver finds no directory and no parts.
Listable(u) == ~s3 \/ u \in open

CanInit(u) == \/ u \in Active /\ Listable(u)
              \/ Active = {} /\ upload[u] = None

Init_(u) ==
    /\ upload' = [upload EXCEPT ![u] = "active"]
    /\ asset' = [asset EXCEPT ![u] = "UPLOADING"]
    /\ open' = IF upload[u] = None THEN open \cup {u} ELSE open
    /\ UNCHANGED <<s3, stored, object, assembling>>

\* POST /uploads/:id/parts: urls are signed as long as the upload is active,
\* whatever the store knows of it.
Signable(u) == upload[u] = "active"

\* A signed PUT of one part; locally a late one creates the directory again.
Storable(u) == ~s3 \/ u \in open

PutPart(u, p, f) ==
    /\ Storable(u)
    /\ stored' = [stored EXCEPT ![u][p] = f]
    /\ open' = open \cup {u}
    /\ UNCHANGED <<s3, upload, asset, object, assembling>>

-----------------------------------------------------------------------------
(* POST /uploads/:id/complete *)

\* A plausible bug: nobody compares the etags.
AcceptedUnseen(u, list) ==
    /\ \A p \in Parts : list[p] # None
    /\ u \in open

\* Every part is listed, with the etag the store has for it.
Acceptable(u, list) ==
    /\ \A p \in Parts : list[p] # None
    /\ u \in open
    /\ list = stored[u]

\* A plausible bug: that the upload is completed already is not noticed.
AssembleAgain(u) ==
    /\ upload[u] \in {"active", "completed"} /\ u \notin assembling
    /\ object' = [object EXCEPT ![u] = stored[u]]
    /\ open' = open \ {u}
    /\ stored' = [stored EXCEPT ![u] = NoParts]
    /\ assembling' = assembling \cup {u}
    /\ UNCHANGED <<s3, upload, asset>>

\* The row is locked, the store turns the parts into the object.
Assemble(u) ==
    /\ upload[u] = "active" /\ u \notin assembling
    /\ object' = [object EXCEPT ![u] = stored[u]]
    /\ open' = open \ {u}
    /\ stored' = [stored EXCEPT ![u] = NoParts]
    /\ assembling' = assembling \cup {u}
    /\ UNCHANGED <<s3, upload, asset>>

\* The transaction commits: the asset's pipeline starts (SourceAssets).
CommitComplete(u) ==
    /\ u \in assembling
    /\ upload' = [upload EXCEPT ![u] = "completed"]
    /\ asset' = [asset EXCEPT ![u] = "VALIDATING"]
    /\ assembling' = assembling \ {u}
    /\ UNCHANGED <<s3, open, stored, object>>

\* It rolls back: the object stays, the upload stays active.
RollBackComplete(u) ==
    /\ u \in assembling
    /\ assembling' = assembling \ {u}
    /\ UNCHANGED <<s3, upload, asset, open, stored, object>>

-----------------------------------------------------------------------------
(* POST /uploads/:id/abort *)

\* A plausible bug: an abort does not wait for the lock on the row.
AbortAtOnce(u) == upload[u] \in {"active", "completed"} /\ (s3 => u \in open \cup assembling)

\* S3 knows no multipart upload it has assembled or expired.
Abortable(u) == upload[u] = "active" /\ u \notin assembling /\ (s3 => u \in open)

\* A plausible bug: the asset is not told.
AbortUploadOnly(u) ==
    /\ Abortable(u)
    /\ upload' = [upload EXCEPT ![u] = "aborted"]
    /\ open' = open \ {u}
    /\ stored' = [stored EXCEPT ![u] = NoParts]
    /\ UNCHANGED <<s3, asset, object, assembling>>

AbortUpload(u) ==
    /\ Abortable(u)
    /\ upload' = [upload EXCEPT ![u] = "aborted"]
    /\ asset' = [asset EXCEPT ![u] = IF @ = "UPLOADING" THEN "CANCELLED" ELSE @]
    /\ open' = open \ {u}
    /\ stored' = [stored EXCEPT ![u] = NoParts]
    /\ UNCHANGED <<s3, object, assembling>>

\* The store's lifecycle rule removes a multipart upload left alone.
Expire(u) ==
    /\ u \in open /\ s3 /\ Fault
    /\ open' = open \ {u}
    /\ stored' = [stored EXCEPT ![u] = NoParts]
    /\ UNCHANGED <<s3, upload, asset, object, assembling>>
==============================================================================
