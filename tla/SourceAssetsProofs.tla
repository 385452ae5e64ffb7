--------------------------- MODULE SourceAssetsProofs ---------------------------
(***************************************************************************)
(* Proofs about SourceAssets, for any number of uploads and attempts: the  *)
(* rows of the queue fit the assets they are of, and no analysis is stored *)
(* twice although it may be executed and refused any number of times.      *)
(***************************************************************************)
EXTENDS SourceAssets, SequenceTheorems, WellFoundedInduction, TLAPS

Rows == [stage : AssetStages, attempt : 1..MaxAttempts]

Types ==
    /\ status \in [Assets -> AllStates \cup {None}]
    /\ row \in [Assets -> Rows \cup {None}]
    /\ validated \subseteq Assets
    /\ transcripts \in Seq(Transcript)

\* Nothing is validated before its upload is completed.
Unvalidated ==
    \A a \in Assets : status[a] \in {None, "UPLOADING"} => a \notin validated

\* A transcript is of an asset that is ready, or whose analysis is being stored.
Stored ==
    \A i \in 1..Len(transcripts) : LET tr == transcripts[i] IN
        /\ tr.committed => status[tr.asset] = "READY_TO_CONFIGURE"
        /\ ~tr.committed =>
              row[tr.asset] # None /\ row[tr.asset].stage = "ANALYZING"

Inv == Types /\ RowMatchesStatus /\ Unvalidated /\ Stored /\ OneTranscriptPerAsset

\* Where a stage of an asset may lead.
LEMMA Table ==
    /\ \A s \in AllStates :
        /\ CanTransition(s, "ANALYZING") => s \in {"VALIDATING", "RETRY_WAIT"}
        /\ CanTransition(s, "READY_TO_CONFIGURE") => s = "ANALYZING"
        /\ CanTransition(s, "RETRY_WAIT") => s \notin {"READY_TO_CONFIGURE", "RETRY_WAIT"}
        /\ CanTransition(s, "FAILED") => s # "READY_TO_CONFIGURE"
    /\ AssetStages \cup {"UPLOADING", "READY_TO_CONFIGURE", "RETRY_WAIT", "FAILED",
                         "CANCELLED"} \subseteq AllStates
BY DEF CanTransition, TRANSITIONS, Interruptions, WorkingStates, AllStates,
       SourceStates, TargetStates, ExceptionStates, AssetStages

LEMMA RemoveOne ==
    ASSUME NEW S, NEW seq \in Seq(S), NEW i \in 1..Len(seq)
    PROVE  /\ RemoveAt(seq, i) \in Seq(S)
           /\ Len(RemoveAt(seq, i)) = Len(seq) - 1
           /\ \A k \in 1..Len(seq) - 1 :
                RemoveAt(seq, i)[k] = IF k < i THEN seq[k] ELSE seq[k + 1]
<1> DEFINE n == Len(seq)  A == SubSeq(seq, 1, i - 1)  B == SubSeq(seq, i + 1, n)
<1>1. n \in Nat /\ i \in 1..n
  OBVIOUS
<1>2. A \in Seq(S) /\ Len(A) = i - 1 /\ \A k \in 1..i - 1 : A[k] = seq[k]
  BY <1>1
<1>3. B \in Seq(S) /\ Len(B) = n - i /\ \A k \in 1..n - i : B[k] = seq[i + k]
  BY <1>1
<1>4. RemoveAt(seq, i) = A \o B
  BY DEF RemoveAt
<1> HIDE DEF n, A, B
<1>5. /\ A \o B \in Seq(S) /\ Len(A \o B) = n - 1
      /\ \A k \in 1..n - 1 : (A \o B)[k] = IF k <= i - 1 THEN A[k] ELSE B[k - (i - 1)]
  <2>1. Len(A) + Len(B) = n - 1
    BY <1>1, <1>2, <1>3
  <2> QED  BY <1>2, <1>3, <2>1, ConcatProperties
<1>6. \A k \in 1..n - 1 : (A \o B)[k] = IF k < i THEN seq[k] ELSE seq[k + 1]
  <2> SUFFICES ASSUME NEW k \in 1..n - 1
               PROVE  (A \o B)[k] = IF k < i THEN seq[k] ELSE seq[k + 1]
    OBVIOUS
  <2>1. CASE k < i
    BY <1>1, <1>2, <1>5, <2>1
  <2>2. CASE ~(k < i)
    <3>1. k - (i - 1) \in 1..n - i /\ i + (k - (i - 1)) = k + 1 /\ ~(k <= i - 1)
      BY <1>1, <2>2
    <3> QED  BY <1>1, <1>3, <1>5, <2>2, <3>1
  <2> QED  BY <2>1, <2>2
<1> QED  BY <1>4, <1>5, <1>6 DEF n

\* What an entry of the table of transcripts is.
LEMMA Entries ==
    ASSUME Types
    PROVE  /\ DOMAIN transcripts = 1..Len(transcripts) /\ Len(transcripts) \in Nat
           /\ \A i \in 1..Len(transcripts) :
                /\ transcripts[i] \in Transcript
                /\ transcripts[i].asset \in Assets /\ transcripts[i].committed \in BOOLEAN
<1>1. transcripts \in Seq(Transcript)
  BY DEF Types
<1>2. \A i \in 1..Len(transcripts) : transcripts[i] \in Transcript
  BY <1>1
<1>3. \A t \in Transcript : t.asset \in Assets /\ t.committed \in BOOLEAN
  BY DEF Transcript
<1> QED  BY <1>1, <1>2, <1>3

LEMMA InitInv == Init => Inv
<1> SUFFICES ASSUME Init  PROVE Inv
  OBVIOUS
<1>1. Types
  BY DEF Init, Types
<1>2. RowMatchesStatus
  BY SourceAssumption, Table DEF Init, RowMatchesStatus
<1>3. Unvalidated
  BY DEF Init, Unvalidated
<1>4. Stored /\ OneTranscriptPerAsset
  BY DEF Init, Stored, OneTranscriptPerAsset
<1> QED  BY <1>1, <1>2, <1>3, <1>4 DEF Inv

-----------------------------------------------------------------------------
(* Uploads and results: one asset's status and row change, no transcript.  *)

\* What a transition of one asset must do to keep the invariant.
LEMMA OneAsset ==
    ASSUME Inv, NEW a \in Assets, NEW st \in AllStates, NEW rw \in Rows \cup {None},
           status' = [status EXCEPT ![a] = st], row' = [row EXCEPT ![a] = rw],
           validated' \subseteq Assets, transcripts' = transcripts,
           \A b \in Assets \ {a} : b \in validated' <=> b \in validated,
           st \in AssetStages => rw = Row(st, 1),
           st = "RETRY_WAIT" => rw # None /\ rw.attempt > 1,
           st \notin AssetStages \cup {"RETRY_WAIT"} => rw = None,
           rw # None => (rw.stage = "ANALYZING" <=> a \in validated'),
           st = "UPLOADING" => a \notin validated',
           status[a] # "READY_TO_CONFIGURE",
           ~Storing(a)
    PROVE  Inv'
<1>1. \A b \in Assets : /\ status'[b] = IF b = a THEN st ELSE status[b]
                        /\ row'[b] = IF b = a THEN rw ELSE row[b]
  BY DEF Inv, Types
<1>2. Types'
  BY DEF Inv, Types
<1>3. RowMatchesStatus'
  BY <1>1 DEF Inv, RowMatchesStatus
<1>4. Unvalidated'
  BY <1>1, SourceAssumption DEF Inv, Unvalidated
<1>5. Stored'
  <2> SUFFICES ASSUME NEW i \in 1..Len(transcripts)
               PROVE  LET tr == transcripts[i] IN
                        /\ tr.committed => status'[tr.asset] = "READY_TO_CONFIGURE"
                        /\ ~tr.committed => /\ row'[tr.asset] # None
                                            /\ row'[tr.asset].stage = "ANALYZING"
    BY DEF Stored
  <2>1. /\ transcripts[i] \in Transcript /\ i \in DOMAIN transcripts
        /\ transcripts[i].asset \in Assets /\ transcripts[i].committed \in BOOLEAN
    BY Entries DEF Inv
  <2>2. transcripts[i].asset # a
    BY <2>1 DEF Inv, Stored, Storing
  <2> QED  BY <1>1, <2>1, <2>2 DEF Inv, Stored
<1>6. OneTranscriptPerAsset'
  BY DEF Inv, OneTranscriptPerAsset
<1> QED  BY <1>2, <1>3, <1>4, <1>5, <1>6 DEF Inv

\* A row is there only while its asset works or waits.
LEMMA RowFacts ==
    ASSUME Inv, NEW a \in Assets
    PROVE  /\ status[a] \in AllStates \cup {None} /\ row[a] \in Rows \cup {None}
           /\ row[a] # None =>
                /\ row[a] \in Rows /\ status[a] \in AssetStages \cup {"RETRY_WAIT"}
                /\ status[a] \in AllStates
           /\ None \notin Rows
           /\ \A stage \in AssetStages, n \in 1..MaxAttempts : Row(stage, n) \in Rows
           /\ \A r \in Rows : r.stage \in AssetStages /\ r.attempt \in 1..MaxAttempts
           /\ 1 \in 1..MaxAttempts
<1>1. status[a] \in AllStates \cup {None} /\ row[a] \in Rows \cup {None}
  BY DEF Inv, Types
<1>2. row[a] # None => row[a] \in Rows /\ status[a] \in AssetStages \cup {"RETRY_WAIT"}
  BY <1>1 DEF Inv, RowMatchesStatus
<1>3. AssetStages \cup {"RETRY_WAIT"} \subseteq AllStates
  BY Table
<1>4. None \notin Rows /\ 1 \in 1..MaxAttempts
  BY SourceAssumption DEF Rows
<1>5. /\ \A stage \in AssetStages, n \in 1..MaxAttempts : Row(stage, n) \in Rows
      /\ \A r \in Rows : r.stage \in AssetStages /\ r.attempt \in 1..MaxAttempts
  BY DEF Rows, Row
<1> QED  BY <1>1, <1>2, <1>3, <1>4, <1>5

\* An upload that has not been completed has neither row nor transcript.
LEMMA UploadFacts ==
    ASSUME Inv, NEW a \in Assets, status[a] \in {None, "UPLOADING"}
    PROVE  row[a] = None /\ a \notin validated /\ ~Storing(a)
<1>1. row[a] = None /\ a \notin validated
  BY SourceAssumption, Table DEF Inv, RowMatchesStatus, Unvalidated, AssetStages
<1>2. ~Storing(a)
  <2> SUFFICES ASSUME NEW i \in DOMAIN transcripts, transcripts[i].asset = a,
                      ~transcripts[i].committed
               PROVE  FALSE
    BY DEF Storing
  <2>1. i \in 1..Len(transcripts)
    BY DEF Inv, Types
  <2> QED  BY <1>1, <2>1 DEF Inv, Stored
<1> QED  BY <1>1, <1>2

LEMMA UploadInv ==
    ASSUME Inv, NEW a \in Assets,
           InitUpload(a) \/ AbortUpload(a) \/ StartAssetPipeline(a)
    PROVE  Inv'
<1>1. status[a] \in {None, "UPLOADING"} /\ status[a] # "READY_TO_CONFIGURE"
  BY SourceAssumption, Table DEF InitUpload, AbortUpload, StartAssetPipeline
<1>2. row[a] = None /\ a \notin validated /\ ~Storing(a)
  BY <1>1, UploadFacts
<1>3. row = [row EXCEPT ![a] = None] /\ validated \subseteq Assets
  BY <1>2 DEF Inv, Types
<1>4. CASE InitUpload(a)
  <2>1. status' = [status EXCEPT ![a] = "UPLOADING"] /\ "UPLOADING" \in AllStates
        /\ UNCHANGED <<row, validated, transcripts>>
    BY <1>4, Table DEF InitUpload, Move
  <2> QED  BY <1>1, <1>2, <1>3, <2>1, OneAsset DEF AssetStages
<1>5. CASE AbortUpload(a)
  <2>1. status' = [status EXCEPT ![a] = "CANCELLED"] /\ "CANCELLED" \in AllStates
        /\ UNCHANGED <<row, validated, transcripts>>
    BY <1>5, Table DEF AbortUpload, Move
  <2> QED  BY <1>1, <1>2, <1>3, <2>1, OneAsset DEF AssetStages
<1>6. CASE StartAssetPipeline(a)
  <2>1. /\ status' = [status EXCEPT ![a] = "VALIDATING"] /\ "VALIDATING" \in AllStates
        /\ row' = [row EXCEPT ![a] = Row("VALIDATING", 1)]
        /\ UNCHANGED <<validated, transcripts>>
    BY <1>6, Table DEF StartAssetPipeline, Move, AssetStages
  <2>2. Row("VALIDATING", 1) \in Rows /\ Row("VALIDATING", 1).stage = "VALIDATING"
    BY RowFacts DEF AssetStages, Row
  <2> QED  BY <1>1, <1>2, <1>3, <2>1, <2>2, OneAsset DEF AssetStages
<1> QED  BY <1>4, <1>5, <1>6

LEMMA WaitsInv == ASSUME Inv, NEW a \in Assets, AssetWaits(a)  PROVE Inv'
<1> DEFINE rw == [row[a] EXCEPT !.attempt = @ + 1]
<1>1. /\ row[a] \in Rows /\ row[a] # None /\ row[a].attempt < MaxAttempts /\ ~Storing(a)
      /\ status[a] # "READY_TO_CONFIGURE"
  BY RowFacts, Table DEF AssetWaits, AssetStages
<1>2. /\ rw \in Rows /\ rw.attempt > 1 /\ rw.stage = row[a].stage
  BY <1>1, SourceAssumption DEF Rows
<1>3. /\ row' = [row EXCEPT ![a] = rw] /\ status' = [status EXCEPT ![a] = "RETRY_WAIT"]
      /\ UNCHANGED <<validated, transcripts>>
  BY DEF AssetWaits, Move, Inv, Types
<1>4. row[a].stage = "ANALYZING" <=> a \in validated
  BY <1>1 DEF Inv, RowMatchesStatus
<1>5. "RETRY_WAIT" \in AllStates /\ validated \subseteq Assets /\ rw # None
  BY <1>2, RowFacts, Table DEF Inv, Types
<1> HIDE DEF rw
<1> QED  BY <1>1, <1>2, <1>3, <1>4, <1>5, OneAsset DEF AssetStages

LEMMA FailsInv == ASSUME Inv, NEW a \in Assets, AssetFails(a)  PROVE Inv'
<1>1. ~Storing(a) /\ status[a] # "READY_TO_CONFIGURE"
  BY RowFacts DEF AssetFails, AssetStages
<1>2. /\ row' = [row EXCEPT ![a] = None] /\ status' = [status EXCEPT ![a] = "FAILED"]
      /\ UNCHANGED <<validated, transcripts>>
  BY DEF AssetFails, Move
<1>3. "FAILED" \in AllStates /\ validated \subseteq Assets
  BY Table DEF Inv, Types
<1> QED  BY <1>1, <1>2, <1>3, OneAsset DEF AssetStages

LEMMA ValidatedInv == ASSUME Inv, NEW a \in Assets, Validated(a)  PROVE Inv'
<1>1. ~Storing(a) /\ status[a] # "READY_TO_CONFIGURE"
  BY RowFacts DEF Validated, Reportable, AssetStages
<1>2. /\ row' = [row EXCEPT ![a] = Row("ANALYZING", 1)]
      /\ status' = [status EXCEPT ![a] = "ANALYZING"]
      /\ validated' = validated \cup {a} /\ transcripts' = transcripts
  BY DEF Validated, Move
<1>3. /\ "ANALYZING" \in AllStates /\ validated' \subseteq Assets
      /\ Row("ANALYZING", 1) \in Rows /\ Row("ANALYZING", 1).stage = "ANALYZING"
  BY <1>2, RowFacts, Table DEF Inv, Types, AssetStages, Row
<1> QED  BY <1>1, <1>2, <1>3, OneAsset DEF AssetStages

-----------------------------------------------------------------------------
(* Analyses. *)

LEMMA BeginsInv == ASSUME Inv, NEW a \in Assets, AnalysisBegins(a)  PROVE Inv'
<1> DEFINE new == [asset |-> a, committed |-> FALSE]
           n == Len(transcripts)
<1>1. /\ row[a] # None /\ row[a].stage = "ANALYZING" /\ ~Storing(a)
      /\ UNCHANGED <<status, row, validated>>
      /\ transcripts' = Append(transcripts, new)
  BY DEF AnalysisBegins, Reportable
<1>2. /\ transcripts \in Seq(Transcript) /\ new \in Transcript /\ n \in Nat
      /\ DOMAIN transcripts = 1..n
  BY DEF Inv, Types, Transcript
<1>3. /\ transcripts' \in Seq(Transcript) /\ Len(transcripts') = n + 1
      /\ DOMAIN transcripts' = 1..n + 1 /\ transcripts'[n + 1] = new
      /\ \A i \in 1..n : transcripts'[i] = transcripts[i]
  BY <1>1, <1>2
<1>4. \A i \in 1..n : transcripts[i].asset # a
  <2> SUFFICES ASSUME NEW i \in 1..n, transcripts[i].asset = a  PROVE FALSE
    OBVIOUS
  <2>1. transcripts[i].committed
    BY <1>1, <1>2 DEF Storing, Transcript
  <2>2. status[a] = "READY_TO_CONFIGURE"
    BY <2>1 DEF Inv, Stored
  <2> QED  BY <1>1, <2>2, RowFacts DEF AssetStages
<1> HIDE DEF n
<1>5. OneTranscriptPerAsset'
  <2> SUFFICES ASSUME NEW i \in 1..n + 1, NEW k \in 1..n + 1,
                      transcripts'[i].asset = transcripts'[k].asset
               PROVE  i = k
    BY <1>3 DEF OneTranscriptPerAsset
  <2>1. CASE i \in 1..n /\ k \in 1..n
    BY <1>2, <1>3, <2>1 DEF Inv, OneTranscriptPerAsset
  <2>2. CASE i = n + 1 /\ k \in 1..n
    BY <1>3, <1>4, <2>2
  <2>3. CASE k = n + 1 /\ i \in 1..n
    BY <1>3, <1>4, <2>3
  <2> QED  BY <1>2, <2>1, <2>2, <2>3
<1>6. Stored'
  <2> SUFFICES ASSUME NEW i \in 1..n + 1
               PROVE  LET tr == transcripts'[i] IN
                        /\ tr.committed => status[tr.asset] = "READY_TO_CONFIGURE"
                        /\ ~tr.committed => /\ row[tr.asset] # None
                                            /\ row[tr.asset].stage = "ANALYZING"
    BY <1>1, <1>3 DEF Stored
  <2>1. CASE i = n + 1
    BY <1>1, <1>3, <2>1
  <2>2. CASE i \in 1..n
    BY <1>3, <2>2 DEF Inv, Stored, n
  <2> QED  BY <1>2, <2>1, <2>2
<1>7. Types' /\ RowMatchesStatus' /\ Unvalidated'
  BY <1>1, <1>3 DEF Inv, Types, RowMatchesStatus, Unvalidated
<1> QED  BY <1>5, <1>6, <1>7 DEF Inv

\* The transcript that is being stored is there.
LEMMA PendingIs ==
    ASSUME Inv, NEW a \in Assets, Storing(a)
    PROVE  /\ Pending(a) \in 1..Len(transcripts)
           /\ transcripts[Pending(a)].asset = a /\ ~transcripts[Pending(a)].committed
BY DEF Storing, Pending, Inv, Types

LEMMA RefusedInv == ASSUME Inv, NEW a \in Assets, AnalysisRefused(a)  PROVE Inv'
<1> DEFINE p == Pending(a)  n == Len(transcripts)
<1>1. p \in 1..n /\ n \in Nat /\ transcripts \in Seq(Transcript)
      /\ DOMAIN transcripts = 1..n
  BY PendingIs DEF AnalysisRefused, Inv, Types
<1>2. transcripts' = RemoveAt(transcripts, p) /\ UNCHANGED <<status, row, validated>>
  BY DEF AnalysisRefused
<1> HIDE DEF p
<1>3. /\ transcripts' \in Seq(Transcript) /\ Len(transcripts') = n - 1
      /\ DOMAIN transcripts' = 1..n - 1
      /\ \A i \in 1..n - 1 :
            transcripts'[i] = IF i < p THEN transcripts[i] ELSE transcripts[i + 1]
  <2>1. transcripts' = RemoveAt(transcripts, p)
    BY <1>2
  <2>2. /\ transcripts' \in Seq(Transcript) /\ Len(transcripts') = n - 1
        /\ \A i \in 1..n - 1 :
              transcripts'[i] = IF i < p THEN transcripts[i] ELSE transcripts[i + 1]
    BY <1>1, <2>1, RemoveOne
  <2> QED  BY <2>2
<1> HIDE DEF n
<1>4. \A i \in 1..n - 1 : i \in 1..n /\ i + 1 \in 1..n
  BY <1>1
<1>5. OneTranscriptPerAsset'
  <2> SUFFICES ASSUME NEW i \in 1..n - 1, NEW k \in 1..n - 1,
                      transcripts'[i].asset = transcripts'[k].asset
               PROVE  i = k
    BY <1>3 DEF OneTranscriptPerAsset
  <2> DEFINE was(j) == IF j < p THEN j ELSE j + 1
  <2>1. was(i) \in 1..n /\ was(k) \in 1..n
    BY <1>4
  <2>2. transcripts'[i] = transcripts[was(i)] /\ transcripts'[k] = transcripts[was(k)]
    BY <1>3
  <2>3. was(i) = was(k)
    BY <1>1, <2>1, <2>2 DEF Inv, OneTranscriptPerAsset
  <2> QED  BY <1>1, <2>3
<1>6. Stored'
  <2> SUFFICES ASSUME NEW i \in 1..n - 1
               PROVE  LET tr == transcripts'[i] IN
                        /\ tr.committed => status[tr.asset] = "READY_TO_CONFIGURE"
                        /\ ~tr.committed => /\ row[tr.asset] # None
                                            /\ row[tr.asset].stage = "ANALYZING"
    BY <1>2, <1>3 DEF Stored
  <2>1. PICK k \in 1..n : transcripts'[i] = transcripts[k]
    BY <1>3, <1>4
  <2> QED  BY <2>1 DEF Inv, Stored, n
<1>7. Types' /\ RowMatchesStatus' /\ Unvalidated'
  BY <1>2, <1>3 DEF Inv, Types, RowMatchesStatus, Unvalidated
<1> QED  BY <1>5, <1>6, <1>7 DEF Inv

LEMMA AnalyzedInv == ASSUME Inv, NEW a \in Assets, Analyzed(a)  PROVE Inv'
<1> DEFINE p == Pending(a)  n == Len(transcripts)
<1>1. /\ p \in 1..n /\ n \in Nat /\ transcripts \in Seq(Transcript)
      /\ DOMAIN transcripts = 1..n /\ transcripts[p].asset = a
  BY PendingIs DEF Analyzed, Inv, Types
<1>2. /\ transcripts' = [transcripts EXCEPT ![p].committed = TRUE]
      /\ status' = [status EXCEPT ![a] = "READY_TO_CONFIGURE"]
      /\ row' = [row EXCEPT ![a] = None] /\ validated' = validated
  BY DEF Analyzed, Move
<1> HIDE DEF p
<1>3. [transcripts[p] EXCEPT !.committed = TRUE] \in Transcript
      /\ [transcripts[p] EXCEPT !.committed = TRUE].asset = a
      /\ [transcripts[p] EXCEPT !.committed = TRUE].committed
  <2>1. transcripts[p] \in Transcript
    BY <1>1, Entries DEF Inv
  <2> QED  BY <1>1, <2>1 DEF Transcript
<1>4. /\ transcripts' \in Seq(Transcript) /\ Len(transcripts') = n
      /\ DOMAIN transcripts' = 1..n /\ transcripts'[p].asset = a
      /\ transcripts'[p].committed
      /\ \A i \in 1..n \ {p} : transcripts'[i] = transcripts[i]
  BY <1>1, <1>2, <1>3
<1> HIDE DEF n
<1>5. \A i \in 1..n : transcripts'[i].asset = transcripts[i].asset
  BY <1>1, <1>4
<1>6. OneTranscriptPerAsset'
  BY <1>1, <1>4, <1>5 DEF Inv, OneTranscriptPerAsset
<1>7. \A b \in Assets : /\ status'[b] = IF b = a THEN "READY_TO_CONFIGURE" ELSE status[b]
                        /\ row'[b] = IF b = a THEN None ELSE row[b]
  BY <1>2 DEF Inv, Types
<1>8. Types' /\ RowMatchesStatus' /\ Unvalidated'
  <2>1. Types'
    BY <1>2, <1>4, Table DEF Inv, Types
  <2>2. RowMatchesStatus'
    BY <1>2, <1>7 DEF Inv, RowMatchesStatus, AssetStages
  <2>3. Unvalidated'
    BY <1>2, <1>7, SourceAssumption, Table DEF Inv, Unvalidated
  <2> QED  BY <2>1, <2>2, <2>3
<1>9. Stored'
  <2> SUFFICES ASSUME NEW i \in 1..n
               PROVE  LET tr == transcripts'[i] IN
                        /\ tr.committed => status'[tr.asset] = "READY_TO_CONFIGURE"
                        /\ ~tr.committed => /\ row'[tr.asset] # None
                                            /\ row'[tr.asset].stage = "ANALYZING"
    BY <1>4 DEF Stored
  <2>1. CASE i = p
    BY <1>4, <1>7, <2>1
  <2>2. CASE i # p
    <3>1. transcripts'[i] = transcripts[i] /\ transcripts[i].asset # a
      BY <1>1, <1>4, <2>2 DEF Inv, OneTranscriptPerAsset
    <3>2. transcripts[i].asset \in Assets
      BY Entries DEF Inv, n
    <3> QED  BY <1>7, <3>1, <3>2 DEF Inv, Stored, n
  <2> QED  BY <2>1, <2>2
<1> QED  BY <1>6, <1>8, <1>9 DEF Inv

LEMMA NextInv == ASSUME Inv, [Next]_vars  PROVE Inv'
<1>1. CASE \E a \in Assets : InitUpload(a) \/ AbortUpload(a) \/ StartAssetPipeline(a)
  BY <1>1, UploadInv
<1>2. CASE \E a \in Assets : AssetResult(a)
  BY <1>2, WaitsInv, FailsInv, ValidatedInv, BeginsInv DEF AssetResult
<1>3. CASE \E a \in Assets : AnalysisEnds(a)
  BY <1>3, RefusedInv, AnalyzedInv DEF AnalysisEnds
<1>4. CASE \/ \E j \in Jobs : CreateJob(j) \/ BuildTargetParams(j)
           \/ UNCHANGED vars
  <2>1. UNCHANGED <<status, validated, row, transcripts>>
    BY <1>4 DEF CreateJob, BuildTargetParams, vars
  <2> QED  BY <2>1 DEF Inv, Types, RowMatchesStatus, Unvalidated, Stored,
                       OneTranscriptPerAsset
<1> QED  BY <1>1, <1>2, <1>3, <1>4 DEF Next

LEMMA AlwaysInv == Spec => []Inv
<1>1. Init => Inv
  BY InitInv
<1>2. Inv /\ [Next]_vars => Inv'
  BY NextInv
<1> QED  BY <1>1, <1>2, PTL DEF Spec

\* For any number of uploads and attempts: the queue's row of an asset is of its
\* stage, an asset at rest has none, and only validated media are analysed.
THEOREM RowsMatch == Spec => []RowMatchesStatus
<1>1. Inv => RowMatchesStatus
  BY DEF Inv
<1> QED  BY AlwaysInv, <1>1, PTL

\* However often an analysis is executed, refused and stored side by side with
\* others, an asset has at most one transcript.
THEOREM StoredOnce == Spec => []OneTranscriptPerAsset
<1>1. Inv => OneTranscriptPerAsset
  BY DEF Inv
<1> QED  BY AlwaysInv, <1>1, PTL
-----------------------------------------------------------------------------
(* The type invariant: what Inv says of it, and the columns it is not about. *)

Reached == {None, "UPLOADING", "VALIDATING", "ANALYZING", "READY_TO_CONFIGURE",
            "RETRY_WAIT", "FAILED", "CANCELLED"}

Columns ==
    /\ status \in [Assets -> Reached]
    /\ source \in Assets \cup {None}
    /\ project \in {"draft", "analyzing", "ready", "processing"}
    /\ \A j \in Jobs : job[j] # None => job[j].asset \in Assets

LEMMA InitColumns == Init => Columns
BY DEF Init, Columns, Reached

LEMMA NextColumns == ASSUME Inv, Columns, [Next]_vars  PROVE Columns'
<1>1. CASE \E a \in Assets : InitUpload(a) \/ AbortUpload(a) \/ StartAssetPipeline(a)
  BY <1>1 DEF InitUpload, AbortUpload, StartAssetPipeline, Move, Columns, Reached
<1>2. CASE \E a \in Assets : AssetResult(a)
  BY <1>2 DEF AssetResult, AssetWaits, AssetFails, Validated, AnalysisBegins, Move,
              Columns, Reached
<1>3. CASE \E a \in Assets : AnalysisEnds(a)
  BY <1>3 DEF AnalysisEnds, AnalysisRefused, Analyzed, Move, Columns, Reached
<1>4. CASE \E j \in Jobs : CreateJob(j)
  <2>1. PICK j \in Jobs : CreateJob(j)
    BY <1>4
  <2>2. source \in Assets
    BY <2>1 DEF CreateJob, Analysed, Inv, Types
  <2>3. /\ UNCHANGED <<status, source>> /\ project' = "processing"
        /\ job' = [job EXCEPT ![j] = [asset |-> source, read |-> {Latest}]]
    BY <2>1 DEF CreateJob
  <2>4. \A k \in Jobs : job'[k] # None => job'[k].asset \in Assets
    BY <2>2, <2>3 DEF Columns
  <2> QED  BY <2>3, <2>4 DEF Columns
<1>5. CASE \E j \in Jobs : BuildTargetParams(j)
  <2>1. PICK j \in Jobs : BuildTargetParams(j)
    BY <1>5
  <2> DEFINE more == job[j].read \cup {Latest}
  <2>2. /\ UNCHANGED <<status, source, project>> /\ job[j] # None
        /\ job' = [job EXCEPT ![j].read = more]
    BY <2>1 DEF BuildTargetParams
  <2> HIDE DEF more
  <2>3. \A k \in Jobs : job'[k] # None => job'[k].asset \in Assets
    BY <2>2 DEF Columns
  <2> QED  BY <2>2, <2>3 DEF Columns
<1>6. CASE UNCHANGED vars
  BY <1>6 DEF vars, Columns
<1> QED  BY <1>1, <1>2, <1>3, <1>4, <1>5, <1>6 DEF Next

\* For any number of uploads and attempts: columns, rows and transcripts keep
\* their types, no attempt is beyond the last, and a job has its asset.
THEOREM TypeCorrect == Spec => []TypeOK
<1>1. Init => Inv /\ Columns
  BY InitInv, InitColumns
<1>2. Inv /\ Columns /\ [Next]_vars => (Inv /\ Columns)'
  BY NextInv, NextColumns
<1>3. Inv /\ Columns => TypeOK
  BY DEF Inv, Types, Rows, Columns, Reached, TypeOK
<1> QED  BY <1>1, <1>2, <1>3, PTL DEF Spec
-----------------------------------------------------------------------------
(* What reads the transcripts.  While no two analyses are stored side by    *)
(* side, an unfinished one is the last of the table, so the newest finished *)
(* one is always that of the project's source.                              *)

ReadyIsValidated ==
    \A a \in Assets : status[a] = "READY_TO_CONFIGURE" => a \in validated

SourceIsStored ==
    source # None => \E i \in Committed : transcripts[i].asset = source

NewestIsSource ==
    ~overlapped =>
        /\ \A i \in 1..Len(transcripts) :
              ~transcripts[i].committed => i = Len(transcripts)
        /\ \A i \in Committed :
              (\A k \in Committed : k <= i) => transcripts[i].asset = source

\* The asset of a job is ready, so it never becomes the source a second time.
JobsAreOfReady ==
    /\ job \in [Jobs -> {None} \cup [asset : Assets, read : SUBSET (Assets \cup {None})]]
    /\ \A j \in Jobs : job[j] # None =>
          status[job[j].asset] = "READY_TO_CONFIGURE"

Usable == /\ ReadyIsValidated   /\ SourceIsStored /\ NewestIsSource
          /\ JobsAreOfReady /\ JobsKeepTheirSource

All == Inv /\ Columns /\ Usable

LEMMA Least ==
    ASSUME NEW T \in SUBSET Nat, T # {}  PROVE \E x \in T : \A y \in T : x <= y
<1> DEFINE R == OpToRel(<, Nat)
<1>1. IsWellFoundedOn(R, Nat)
  BY NatLessThanWellFounded
<1>2. PICK x \in T : \A y \in T : <<y, x>> \notin R
  BY <1>1, WFMin
<1>3. \A y \in T : y < x => <<y, x>> \in R
  BY DEF OpToRel
<1>4. \A y \in T : ~(y < x)
  BY <1>2, <1>3
<1> HIDE DEF R
<1> QED  BY <1>4

\* A table with a finished transcript has a newest one.
LEMMA NewestIsThere ==
    ASSUME Types, Committed # {}
    PROVE  Max(Committed) \in Committed /\ \A k \in Committed : k <= Max(Committed)
<1> DEFINE n == Len(transcripts)
           younger == {m \in 0..n : \E i \in Committed : m = n - i}
<1>1. n \in Nat /\ Committed \subseteq 1..n
  BY Entries DEF Committed
<1> HIDE DEF n
<1>2. \A i \in Committed : n - i \in 0..n
  BY <1>1
<1>3. younger \in SUBSET Nat /\ younger # {}
  <2>1. younger \in SUBSET Nat
    BY <1>1
  <2>2. PICK i : i \in Committed
    OBVIOUS
  <2>3. n - i \in younger
    BY <1>2, <2>2
  <2> QED  BY <2>1, <2>3
<1>4. PICK x \in younger : \A y \in younger : x <= y
  BY <1>3, Least
<1>5. PICK i \in Committed : x = n - i
  BY <1>4
<1>6. \A k \in Committed : k <= i
  <2> SUFFICES ASSUME NEW k \in Committed  PROVE k <= i
    OBVIOUS
  <2>1. n - i <= n - k
    BY <1>2, <1>4, <1>5
  <2> QED  BY <1>1, <2>1
<1>7. i \in Committed /\ \A k \in Committed : i >= k
  BY <1>1, <1>6
<1>8. Max(Committed) \in Committed /\ \A k \in Committed : Max(Committed) >= k
  BY <1>7 DEF Max
<1> QED  BY <1>1, <1>8

\* What a reader gets is an analysis, and that of the source unless some were
\* stored side by side.
LEMMA LatestIs ==
    ASSUME All, Latest # None
    PROVE  ~overlapped => Latest = source
<1>1. Committed # {} /\ Latest = transcripts[Max(Committed)].asset
  BY DEF Latest
<1>2. Max(Committed) \in Committed /\ \A k \in Committed : k <= Max(Committed)
  BY <1>1, NewestIsThere DEF All, Inv
<1> QED  BY <1>1, <1>2 DEF All, Usable, NewestIsSource

LEMMA LatestType == ASSUME Types  PROVE Latest \in Assets \cup {None}
<1>1. CASE Committed = {}
  BY <1>1 DEF Latest
<1>2. CASE Committed # {}
  <2>1. Max(Committed) \in DOMAIN transcripts
    BY <1>2, NewestIsThere DEF Committed
  <2> QED  BY <1>2, <2>1, Entries DEF Latest
<1> QED  BY <1>1, <1>2

LEMMA UsableSources == All => SourcesAreUsable
<1> SUFFICES ASSUME All  PROVE SourcesAreUsable
  OBVIOUS
<1>1. \A i \in DOMAIN transcripts : LET tr == transcripts[i] IN
          /\ tr.asset \in validated
          /\ tr.committed => status[tr.asset] = "READY_TO_CONFIGURE"
  <2> SUFFICES ASSUME NEW i \in DOMAIN transcripts
               PROVE  /\ transcripts[i].asset \in validated
                      /\ transcripts[i].committed =>
                            status[transcripts[i].asset] = "READY_TO_CONFIGURE"
    OBVIOUS
  <2>1. /\ i \in 1..Len(transcripts) /\ transcripts[i].asset \in Assets
        /\ transcripts[i].committed \in BOOLEAN
    BY Entries DEF All, Inv
  <2>2. CASE transcripts[i].committed
    BY <2>1, <2>2 DEF All, Inv, Stored, Usable, ReadyIsValidated
  <2>3. CASE ~transcripts[i].committed
    BY <2>1, <2>3 DEF All, Inv, Stored, RowMatchesStatus
  <2> QED  BY <2>1, <2>2, <2>3
<1>2. ASSUME source # None  PROVE Latest # None /\ status[source] = "READY_TO_CONFIGURE"
  <2>1. PICK i \in Committed : transcripts[i].asset = source
    BY <1>2 DEF All, Usable, SourceIsStored
  <2>2. status[source] = "READY_TO_CONFIGURE"
    BY <1>1, <2>1 DEF Committed
  <2>3. Max(Committed) \in DOMAIN transcripts
    BY <2>1, NewestIsThere DEF All, Inv, Committed
  <2>4. transcripts[Max(Committed)].asset # None
    BY <2>3, Entries, SourceAssumption DEF All, Inv
  <2> QED  BY <2>1, <2>2, <2>4 DEF Latest
<1> QED  BY <1>1, <1>2 DEF SourcesAreUsable
LEMMA InitUsable == Init => Usable
<1> SUFFICES ASSUME Init  PROVE Usable
  OBVIOUS
<1>1. Committed = {} /\ Len(transcripts) = 0
  BY DEF Init, Committed
<1>2. ReadyIsValidated /\ SourceIsStored /\ JobsAreOfReady /\ JobsKeepTheirSource
  BY SourceAssumption, Table
     DEF Init, ReadyIsValidated, SourceIsStored, JobsAreOfReady, JobsKeepTheirSource
<1>3. NewestIsSource
  BY <1>1 DEF NewestIsSource
<1> QED  BY <1>2, <1>3 DEF Usable

\* A step that is not about transcripts and takes no asset from its rest.
LEMMA UsableElsewhere ==
    ASSUME All, UNCHANGED <<transcripts, source, job, overlapped>>,
           validated \subseteq validated',
           \A a \in Assets :
              status'[a] = "READY_TO_CONFIGURE" <=> status[a] = "READY_TO_CONFIGURE"
    PROVE  Usable'
<1>1. Committed' = Committed
  BY DEF Committed
<1>2. ReadyIsValidated'
  BY DEF All, Usable, ReadyIsValidated
<1>3. SourceIsStored' /\ NewestIsSource'
  BY <1>1 DEF All, Usable, SourceIsStored, NewestIsSource
<1>4. JobsAreOfReady' /\ JobsKeepTheirSource'
  BY DEF All, Usable, Columns, JobsAreOfReady, JobsKeepTheirSource
<1> QED  BY <1>2, <1>3, <1>4 DEF Usable

LEMMA AssetUsable ==
    ASSUME All, NEW a \in Assets,
           \/ InitUpload(a) \/ AbortUpload(a) \/ StartAssetPipeline(a)
           \/ AssetWaits(a) \/ AssetFails(a) \/ Validated(a)
    PROVE  Usable'
<1>1. status[a] # "READY_TO_CONFIGURE"
  <2>1. CASE InitUpload(a) \/ AbortUpload(a) \/ StartAssetPipeline(a)
    BY <2>1, SourceAssumption, Table DEF InitUpload, AbortUpload, StartAssetPipeline
  <2>2. CASE AssetWaits(a) \/ AssetFails(a) \/ Validated(a)
    <3>1. row[a] # None
      BY <2>2 DEF AssetWaits, AssetFails, Validated, Reportable
    <3> QED  BY <3>1, RowFacts DEF All, AssetStages
  <2> QED  BY <2>1, <2>2
<1>2. PICK st \in Reached \ {"READY_TO_CONFIGURE"} : status' = [status EXCEPT ![a] = st]
  BY DEF InitUpload, AbortUpload, StartAssetPipeline, AssetWaits, AssetFails, Validated,
         Move, Reached
<1>3. /\ UNCHANGED <<transcripts, source, job, overlapped>>
      /\ validated \subseteq validated'
  BY DEF InitUpload, AbortUpload, StartAssetPipeline, AssetWaits, AssetFails, Validated
<1>4. \A b \in Assets :
        status'[b] = "READY_TO_CONFIGURE" <=> status[b] = "READY_TO_CONFIGURE"
  BY <1>1, <1>2 DEF All, Inv, Types
<1> QED  BY <1>3, <1>4, UsableElsewhere

\* The table gets one more entry, whose transaction is not over.
LEMMA BeginsUsable == ASSUME All, NEW a \in Assets, AnalysisBegins(a)  PROVE Usable'
<1> DEFINE new == [asset |-> a, committed |-> FALSE]
           n == Len(transcripts)
<1>1. /\ UNCHANGED <<status, row, validated, source, job>>
      /\ transcripts' = Append(transcripts, new)
      /\ overlapped' = (overlapped \/ \E b \in Assets : Storing(b))
  BY DEF AnalysisBegins
<1>2. /\ n \in Nat /\ transcripts \in Seq(Transcript) /\ DOMAIN transcripts = 1..n
  BY DEF All, Inv, Types
<1>3. /\ Len(transcripts') = n + 1 /\ DOMAIN transcripts' = 1..n + 1
      /\ transcripts'[n + 1] = new
      /\ \A i \in 1..n : transcripts'[i] = transcripts[i]
  BY <1>1, <1>2
<1>4. \A i \in 1..n : transcripts[i].asset \in Assets
  BY Entries DEF All, Inv
<1> HIDE DEF n
<1>5. Committed' = Committed /\ Committed \subseteq 1..n
  <2>1. Committed' = {i \in 1..n + 1 : transcripts'[i].committed}
    BY <1>3 DEF Committed
  <2>2. ~transcripts'[n + 1].committed
    BY <1>3
  <2>3. Committed = {i \in 1..n : transcripts[i].committed}
    BY <1>2 DEF Committed
  <2> QED  BY <1>2, <1>3, <2>1, <2>2, <2>3
<1>6. ReadyIsValidated' /\ SourceIsStored'
  BY <1>1, <1>3, <1>5 DEF All, Usable, ReadyIsValidated, SourceIsStored
<1>7. JobsAreOfReady' /\ JobsKeepTheirSource'
  BY <1>1 DEF All, Usable, JobsAreOfReady, JobsKeepTheirSource
<1>8. NewestIsSource'
  <2> SUFFICES ASSUME ~overlapped'
               PROVE  /\ \A i \in 1..n + 1 :
                            ~transcripts'[i].committed => i = n + 1
                      /\ \A i \in Committed :
                            (\A k \in Committed : k <= i) =>
                                transcripts'[i].asset = source
    BY <1>1, <1>3, <1>5 DEF NewestIsSource
  <2>1. ~overlapped /\ \A b \in Assets : ~Storing(b)
    BY <1>1
  <2>2. \A i \in 1..n : transcripts[i].committed
    BY <1>2, <1>4, <2>1 DEF Storing
  <2>3. \A i \in 1..n + 1 : ~transcripts'[i].committed => i = n + 1
    BY <1>2, <1>3, <2>2
  <2> QED  BY <1>3, <1>5, <2>1, <2>3 DEF All, Usable, NewestIsSource
<1> QED  BY <1>6, <1>7, <1>8 DEF Usable

\* The entry of a refused analysis was not finished: no reader had seen it.
LEMMA RefusedUsable == ASSUME All, NEW a \in Assets, AnalysisRefused(a)  PROVE Usable'
<1> DEFINE p == Pending(a)  n == Len(transcripts)
           was(j) == IF j < p THEN j ELSE j + 1
<1>1. /\ p \in 1..n /\ n \in Nat /\ transcripts \in Seq(Transcript)
      /\ DOMAIN transcripts = 1..n /\ ~transcripts[p].committed
  BY PendingIs DEF AnalysisRefused, All, Inv, Types
<1>2. /\ transcripts' = RemoveAt(transcripts, p)
      /\ UNCHANGED <<status, row, validated, source, job, overlapped>>
  BY DEF AnalysisRefused
<1> HIDE DEF p
<1>3. /\ transcripts' \in Seq(Transcript) /\ Len(transcripts') = n - 1
      /\ \A i \in 1..n - 1 :
            transcripts'[i] = IF i < p THEN transcripts[i] ELSE transcripts[i + 1]
  BY <1>1, <1>2, RemoveOne
<1>4. DOMAIN transcripts' = 1..n - 1
  BY <1>3
<1> HIDE DEF n
<1>5. /\ \A i \in 1..n - 1 : was(i) \in 1..n /\ transcripts'[i] = transcripts[was(i)]
      /\ \A k \in 1..n : k # p => \E i \in 1..n - 1 : was(i) = k
      /\ \A i, k \in 1..n - 1 : was(i) <= was(k) <=> i <= k
  <2>1. \A i \in 1..n - 1 : was(i) \in 1..n /\ transcripts'[i] = transcripts[was(i)]
    BY <1>1, <1>3
  <2>2. ASSUME NEW k \in 1..n, k # p  PROVE \E i \in 1..n - 1 : was(i) = k
    <3>1. CASE k < p
      <4>1. k \in 1..n - 1 /\ was(k) = k
        BY <1>1, <3>1
      <4> QED  BY <4>1
    <3>2. CASE ~(k < p)
      <4>1. k - 1 \in 1..n - 1 /\ was(k - 1) = k
        BY <1>1, <2>2, <3>2
      <4> QED  BY <4>1
    <3> QED  BY <3>1, <3>2
  <2>3. \A i, k \in 1..n - 1 : was(i) <= was(k) <=> i <= k
    BY <1>1
  <2> QED  BY <2>1, <2>2, <2>3
<1> HIDE DEF was
<1>6. Committed' = {i \in 1..n - 1 : was(i) \in Committed}
  BY <1>1, <1>4, <1>5 DEF Committed
<1>7. Committed \subseteq 1..n /\ p \notin Committed
  BY <1>1 DEF Committed
<1>8. ReadyIsValidated' /\ JobsAreOfReady' /\ JobsKeepTheirSource'
  BY <1>2 DEF All, Usable, ReadyIsValidated, JobsAreOfReady, JobsKeepTheirSource
<1>9. SourceIsStored'
  <2> SUFFICES ASSUME source # None
               PROVE  \E i \in Committed' : transcripts'[i].asset = source
    BY <1>2 DEF SourceIsStored
  <2>1. PICK k \in Committed : transcripts[k].asset = source
    BY DEF All, Usable, SourceIsStored
  <2>2. PICK i \in 1..n - 1 : was(i) = k
    BY <1>5, <1>7, <2>1
  <2> QED  BY <1>5, <1>6, <2>1, <2>2
<1>10. NewestIsSource'
  <2> SUFFICES ASSUME ~overlapped
               PROVE  /\ \A i \in 1..n - 1 :
                            ~transcripts'[i].committed => i = n - 1
                      /\ \A i \in Committed' :
                            (\A k \in Committed' : k <= i) =>
                                transcripts'[i].asset = source
    BY <1>2, <1>3 DEF NewestIsSource
  <2>1. p = n
    BY <1>1 DEF All, Usable, NewestIsSource, n
  <2>2. \A i \in 1..n - 1 : was(i) = i /\ transcripts'[i] = transcripts[i]
    BY <1>1, <1>5, <2>1 DEF was
  <2>3. \A i \in 1..n - 1 : transcripts[i].committed
    <3>1. \A i \in 1..n : ~transcripts[i].committed => i = n
      BY DEF All, Usable, NewestIsSource, n
    <3>2. \A i \in 1..n - 1 : i \in 1..n /\ i # n
      BY <1>1
    <3> QED  BY <3>1, <3>2
  <2>4. Committed' = Committed
    <3>1. Committed \subseteq 1..n - 1
      BY <1>1, <1>7, <2>1
    <3>2. Committed' = {i \in 1..n - 1 : i \in Committed}
      BY <1>6, <2>2
    <3> QED  BY <3>1, <3>2
  <2>5. \A i \in Committed : transcripts'[i] = transcripts[i]
    BY <1>6, <2>2, <2>4
  <2> QED  BY <2>2, <2>3, <2>4, <2>5 DEF All, Usable, NewestIsSource
<1> QED  BY <1>8, <1>9, <1>10 DEF Usable

\* A finished analysis makes its asset the source; no job is of that asset yet.
LEMMA AnalyzedUsable == ASSUME All, NEW a \in Assets, Analyzed(a)  PROVE Usable'
<1> DEFINE p == Pending(a)  n == Len(transcripts)
<1>1. /\ p \in 1..n /\ n \in Nat /\ transcripts \in Seq(Transcript)
      /\ DOMAIN transcripts = 1..n /\ transcripts[p].asset = a /\ ~transcripts[p].committed
  BY PendingIs DEF Analyzed, All, Inv, Types
<1>2. /\ transcripts' = [transcripts EXCEPT ![p].committed = TRUE]
      /\ status' = [status EXCEPT ![a] = "READY_TO_CONFIGURE"]
      /\ source' = a
      /\ UNCHANGED <<validated, job, overlapped>>
  BY DEF Analyzed, Move
<1>3. status[a] # "READY_TO_CONFIGURE" /\ a \in validated
  <2>1. row[a] # None /\ row[a].stage = "ANALYZING"
    BY <1>1 DEF All, Inv, Stored
  <2> QED  BY <2>1, RowFacts DEF All, Inv, RowMatchesStatus, AssetStages
<1> HIDE DEF p
<1>4. /\ [transcripts[p] EXCEPT !.committed = TRUE].asset = a
      /\ [transcripts[p] EXCEPT !.committed = TRUE].committed
  <2>1. transcripts[p] \in Transcript
    BY <1>1
  <2> QED  BY <1>1, <2>1 DEF Transcript
<1>5. /\ Len(transcripts') = n /\ DOMAIN transcripts' = 1..n
      /\ transcripts'[p].asset = a /\ transcripts'[p].committed
      /\ \A i \in 1..n \ {p} : transcripts'[i] = transcripts[i]
  BY <1>1, <1>2, <1>4
<1> HIDE DEF n
<1>6. Committed' = Committed \cup {p} /\ p \in Committed' /\ Committed \subseteq 1..n
  BY <1>1, <1>5 DEF Committed
<1>7. \A b \in Assets : status'[b] = IF b = a THEN "READY_TO_CONFIGURE" ELSE status[b]
  BY <1>2 DEF All, Inv, Types
<1>8. ReadyIsValidated'
  BY <1>2, <1>3, <1>7 DEF All, Usable, ReadyIsValidated
<1>9. SourceIsStored'
  BY <1>2, <1>5, <1>6 DEF SourceIsStored
<1>10. NewestIsSource'
  <2> SUFFICES ASSUME ~overlapped
               PROVE  /\ \A i \in 1..n : ~transcripts'[i].committed => i = n
                      /\ \A i \in Committed' :
                            (\A k \in Committed' : k <= i) =>
                                transcripts'[i].asset = a
    BY <1>2, <1>5 DEF NewestIsSource
  <2>1. p = n /\ \A i \in 1..n : ~transcripts[i].committed => i = n
    BY <1>1 DEF All, Usable, NewestIsSource, n
  <2>2. \A i \in 1..n : ~transcripts'[i].committed => i = n
    BY <1>1, <1>5, <2>1
  <2>3. ASSUME NEW i \in Committed', \A k \in Committed' : k <= i
        PROVE  transcripts'[i].asset = a
    <3>1. i = p
      BY <1>1, <1>6, <2>1, <2>3
    <3> QED  BY <1>5, <3>1
  <2> QED  BY <2>2, <2>3
<1>11. \A j \in Jobs : job[j] # None =>
          /\ job[j].asset \in Assets /\ job[j].asset # a
          /\ status'[job[j].asset] = "READY_TO_CONFIGURE"
  BY <1>3, <1>7 DEF All, Columns, Usable, JobsAreOfReady
<1>12. JobsAreOfReady' /\ JobsKeepTheirSource'
  BY <1>2, <1>11 DEF All, Usable, JobsAreOfReady, JobsKeepTheirSource
<1> QED  BY <1>8, <1>9, <1>10, <1>12 DEF Usable
LEMMA JobUsable ==
    ASSUME All, NEW j \in Jobs, CreateJob(j) \/ BuildTargetParams(j)
    PROVE  Usable'
<1>1. UNCHANGED <<status, validated, row, transcripts, source, overlapped>>
  BY DEF CreateJob, BuildTargetParams
<1>2. Committed' = Committed
  BY <1>1 DEF Committed
<1>3. ReadyIsValidated' /\ SourceIsStored' /\ NewestIsSource'
  BY <1>1, <1>2 DEF All, Usable, ReadyIsValidated, SourceIsStored, NewestIsSource
<1>4. CASE CreateJob(j)
  <2>1. /\ status[source] = "READY_TO_CONFIGURE" /\ Latest # None
        /\ job' = [job EXCEPT ![j] = [asset |-> source, read |-> {Latest}]]
    BY <1>4 DEF CreateJob, Analysed
  <2>2. ~overlapped => Latest = source
    BY <2>1, LatestIs
  <2>3. source \in Assets /\ {Latest} \in SUBSET (Assets \cup {None})
    BY <1>4, LatestType DEF CreateJob, Analysed, All, Inv, Types
  <2>4. JobsAreOfReady' /\ JobsKeepTheirSource'
    BY <1>1, <2>1, <2>2, <2>3 DEF All, Usable, JobsAreOfReady, JobsKeepTheirSource
  <2> QED  BY <1>3, <2>4 DEF Usable
<1>5. CASE BuildTargetParams(j)
  <2> DEFINE more == job[j].read \cup {Latest}
             after == [job[j] EXCEPT !.read = more]
             Kinds == [asset : Assets, read : SUBSET (Assets \cup {None})]
  <2>1. job[j] # None /\ job' = [job EXCEPT ![j] = after]
    BY <1>5 DEF BuildTargetParams
  <2>2. /\ job \in [Jobs -> {None} \cup Kinds] /\ job[j] \in Kinds
        /\ Latest \in Assets \cup {None}
    BY <2>1, LatestType DEF All, Inv, Usable, JobsAreOfReady
  <2>3. ASSUME ~overlapped, source = job[j].asset  PROVE more = {source}
    <3>1. source # None
      BY <2>1, <2>3, SourceAssumption DEF All, Columns
    <3>2. Latest = source
      BY <2>3, <3>1, LatestIs, UsableSources DEF SourcesAreUsable
    <3>3. job[j].read = {source}
      BY <2>1, <2>3 DEF All, Usable, JobsKeepTheirSource
    <3> QED  BY <3>2, <3>3
  <2>4. after \in Kinds /\ after.asset = job[j].asset /\ after.read = more
    BY <2>2
  <2> HIDE DEF more, after
  <2>5. \A k \in Jobs : job'[k] = IF k = j THEN after ELSE job[k]
    BY <2>1, <2>2
  <2>6. JobsAreOfReady' /\ JobsKeepTheirSource'
    BY <1>1, <2>1, <2>2, <2>3, <2>4, <2>5
       DEF All, Usable, JobsAreOfReady, JobsKeepTheirSource
  <2> QED  BY <1>3, <2>6 DEF Usable
<1> QED  BY <1>4, <1>5

LEMMA NextAll == ASSUME All, [Next]_vars  PROVE All'
<1>1. Inv' /\ Columns'
  BY NextInv, NextColumns DEF All
<1>2. CASE \E a \in Assets :
             \/ InitUpload(a) \/ AbortUpload(a) \/ StartAssetPipeline(a)
             \/ AssetWaits(a) \/ AssetFails(a) \/ Validated(a)
  BY <1>1, <1>2, AssetUsable DEF All
<1>3. CASE \E a \in Assets : AnalysisBegins(a)
  BY <1>1, <1>3, BeginsUsable DEF All
<1>4. CASE \E a \in Assets : AnalysisEnds(a)
  BY <1>1, <1>4, RefusedUsable, AnalyzedUsable DEF AnalysisEnds, All
<1>5. CASE \E j \in Jobs : CreateJob(j) \/ BuildTargetParams(j)
  BY <1>1, <1>5, JobUsable DEF All
<1>6. CASE UNCHANGED vars
  <2>1. /\ UNCHANGED <<transcripts, source, job, overlapped, status>>
        /\ validated \subseteq validated'
    BY <1>6 DEF vars
  <2> QED  BY <1>1, <2>1, UsableElsewhere DEF All
<1> QED  BY <1>2, <1>3, <1>4, <1>5, <1>6 DEF Next, AssetResult

LEMMA AlwaysAll == Spec => []All
<1>1. Init => All
  BY InitInv, InitColumns, InitUsable DEF All
<1>2. All /\ [Next]_vars => All'
  BY NextAll
<1> QED  BY <1>1, <1>2, PTL DEF Spec

\* For any number of uploads, attempts and jobs, whatever overlaps or fails: what
\* a stage reads of the project's source and of any transcript is there.
THEOREM AlwaysUsable == Spec => []SourcesAreUsable
<1>1. All => SourcesAreUsable
  BY UsableSources
<1> QED  BY AlwaysAll, <1>1, PTL

\* For any number of jobs and uploads: a job reads the analysis of its own asset
\* unless the project has another source or analyses were stored side by side.
THEOREM KeepsSource == Spec => []JobsKeepTheirSource
<1>1. All => JobsKeepTheirSource
  BY DEF All, Usable
<1> QED  BY AlwaysAll, <1>1, PTL
==============================================================================
