------------------------ MODULE TargetArtefactsProofs ------------------------
(***************************************************************************)
(* Proofs about TargetArtefacts, for any transcript, any number of edits   *)
(* and regenerations: rows and files are well typed, what is packaged has  *)
(* been signed, quality control always leads to a review; and, where every *)
(* speech fits its slot, the mix is current and speaks the text.  At the   *)
(* end, the refinement of TargetLifecycle.                                 *)
(***************************************************************************)
EXTENDS TargetArtefacts, TLAPS

RowTypes ==
    /\ state \in TargetStages \cup {"NEEDS_REVIEW"} \cup TerminalStates
    /\ scope \subseteq Segments /\ scope # {}
    /\ text \in [Segments -> Nat] /\ approved \in [Segments -> Nat]

\* Only a segment whose translation is under way may have none.
Translated ==
    \A s \in Segments :
        \/ text[s] > 0
        \/ s \in scope /\ state = "TRANSLATING"
        \/ state \in TerminalStates

\* Until the gate, some segment of the scope has no approval: a regeneration
\* took it away and only a review can give one.
ScopeUnsigned ==
    state \in TargetStages \ {"PACKAGING"} => \E s \in scope : approved[s] = 0

Signed ==
    /\ state \in {"PACKAGING", "COMPLETE"} =>
          /\ open = {} /\ order = text
          /\ \A s \in Segments : approved[s] = text[s]
    /\ state = "COMPLETE" => delivered.text = order

Inv == RowTypes /\ Translated /\ ScopeUnsigned /\ Signed

LEMMA Stages ==
    /\ TargetStages \cap ({"NEEDS_REVIEW"} \cup TerminalStates) = {}
    /\ "NEEDS_REVIEW" \notin TerminalStates
    /\ "PACKAGING" \in TargetStages /\ "TARGET_QA" \in TargetStages
    /\ "TRANSLATING" \in TargetStages /\ "COMPLETE" \in TerminalStates
    /\ {"FAILED", "CANCELLED"} \subseteq TerminalStates
BY DEF TargetStages, TerminalStates

\* Where the success of a stage before quality control leads.
LEMMA Successors ==
    ASSUME NEW stage \in TargetStages \ {"TARGET_QA", "PACKAGING"}
    PROVE  /\ NextStage(LipSync, stage) \in TargetStages
           /\ NextStage(LipSync, stage) \notin {"TRANSLATING", "PACKAGING"}
BY ArtefactsAssumption DEF TargetStages, NextStage

LEMMA InitInv == Init => Inv
<1> SUFFICES ASSUME Init  PROVE Inv
  OBVIOUS
<1>1. RowTypes
  BY ArtefactsAssumption, Stages DEF Init, RowTypes
<1>2. Translated
  BY DEF Init, Translated
<1>3. ScopeUnsigned
  BY ArtefactsAssumption DEF Init, ScopeUnsigned
<1>4. Signed
  BY DEF Init, Signed
<1> QED  BY <1>1, <1>2, <1>3, <1>4 DEF Inv

\* A stage that touches neither text nor approvals moves on within the scope.
LEMMA StageKeeps ==
    ASSUME Inv, NEW stage \in TargetStages \ {"TRANSLATING", "TARGET_QA", "PACKAGING"},
           Runs(stage), UNCHANGED <<scope, text, approved>>
    PROVE  Inv'
<1>1. /\ state = stage /\ state' \in TargetStages
      /\ state' \notin {"TRANSLATING", "PACKAGING"}
  BY Successors DEF Runs
<1>2. RowTypes'
  BY <1>1 DEF Inv, RowTypes
<1>3. Translated'
  BY <1>1, Stages DEF Inv, Translated
<1>4. ScopeUnsigned'
  BY <1>1 DEF Inv, ScopeUnsigned
<1>5. Signed'
  BY <1>1, Stages DEF Signed
<1> QED  BY <1>2, <1>3, <1>4, <1>5 DEF Inv

LEMMA TranslateInv == ASSUME Inv, Translate  PROVE Inv'
<1>0. Given("TRANSLATING") = scope
  BY DEF Given, ScopedStages
<1>1. /\ state = "TRANSLATING" /\ state' \in TargetStages
      /\ state' \notin {"TRANSLATING", "PACKAGING", "COMPLETE"}
  BY Successors, Stages DEF Translate, Runs
<1>2. scope' = scope /\ scope \subseteq Segments /\ scope # {}
  BY DEF Translate, Inv, RowTypes
<1>3. \A s \in Segments : text'[s] = IF s \in scope THEN text[s] + 1 ELSE text[s]
  BY <1>2, <1>0 DEF Translate, Override
<1>4. \A s \in Segments : approved'[s] = IF s \in scope THEN 0 ELSE approved[s]
  BY <1>2, <1>0 DEF Translate, Cleared, Override
<1>5. text' \in [Segments -> Nat] /\ approved' \in [Segments -> Nat]
  BY <1>2, <1>0 DEF Translate, Cleared, Override, Inv, RowTypes
<1>6. RowTypes'
  BY <1>1, <1>2, <1>5 DEF RowTypes
<1>7. Translated'
  BY <1>1, <1>2, <1>3, Stages DEF Inv, Translated, RowTypes
<1>8. ScopeUnsigned'
  BY <1>2, <1>4 DEF ScopeUnsigned
<1>9. Signed'
  BY <1>1, Stages DEF Signed
<1> QED  BY <1>6, <1>7, <1>8, <1>9 DEF Inv

\* Quality control finds something in the scope unsigned, so the gate holds.
LEMMA QaReviews ==
    ASSUME Inv, TargetQA  PROVE state' = "NEEDS_REVIEW" /\ order' = order
<1>1. PICK s \in scope : approved[s] = 0
  BY Stages DEF Inv, ScopeUnsigned, TargetQA
<1>2. s \in Segments /\ text[s] > 0
  BY <1>1, Stages DEF Inv, RowTypes, Translated, TargetQA
<1>3. approved[s] # text[s]
  BY <1>1, <1>2 DEF Inv, RowTypes
<1> QED  BY <1>2, <1>3 DEF TargetQA, PersistQa, GatePasses

LEMMA TargetQaInv == ASSUME Inv, TargetQA  PROVE Inv'
<1>1. state' = "NEEDS_REVIEW" /\ state = "TARGET_QA"
  BY QaReviews DEF TargetQA
<1>2. scope' = Segments /\ UNCHANGED <<text, approved>>
  BY DEF TargetQA
<1>3. RowTypes'
  BY <1>1, <1>2, ArtefactsAssumption DEF Inv, RowTypes
<1>4. Translated'
  BY <1>1, <1>2, Stages DEF Inv, Translated
<1>5. ScopeUnsigned' /\ Signed'
  BY <1>1, Stages DEF ScopeUnsigned, Signed
<1> QED  BY <1>3, <1>4, <1>5 DEF Inv

LEMMA PackageInv == ASSUME Inv, Package  PROVE Inv'
<1>1. state = "PACKAGING" /\ state' = "COMPLETE"
  BY DEF Package, Runs, NextStage
<1>2. UNCHANGED <<scope, text, approved, open, order>> /\ delivered'.text = order
  BY DEF Package, PersistPackage, rows
<1>3. RowTypes' /\ Translated' /\ ScopeUnsigned'
  BY <1>1, <1>2, Stages DEF Inv, RowTypes, Translated, ScopeUnsigned
<1>4. Signed'
  BY <1>1, <1>2 DEF Inv, Signed
<1> QED  BY <1>3, <1>4 DEF Inv

LEMMA AbandonInv == ASSUME Inv, Abandon  PROVE Inv'
<1>1. state' \in {"FAILED", "CANCELLED"} /\ UNCHANGED <<scope, text, approved>>
  BY DEF Abandon, rows
<1>2. RowTypes' /\ Translated' /\ ScopeUnsigned' /\ Signed'
  BY <1>1, Stages DEF Inv, RowTypes, Translated, ScopeUnsigned, Signed
<1> QED  BY <1>2 DEF Inv

LEMMA Scopes ==
    ASSUME NEW kind \in RegenerateStages, NEW s \in Segments
    PROVE  /\ ScopeOf(kind, s) \subseteq Segments /\ s \in ScopeOf(kind, s)
           /\ RestartState(kind) \in TargetStages \ {"PACKAGING"}
BY DEF ScopeOf, RegenerateStages, RestartState, TargetStages

LEMMA RegenerateInv ==
    ASSUME Inv, NEW kind \in RegenerateStages, NEW s \in Segments,
           Regenerate(kind, s)
    PROVE  Inv'
<1> DEFINE S == ScopeOf(kind, s)
<1>1. S \subseteq Segments /\ s \in S
  BY Scopes
<1>2. /\ state = "NEEDS_REVIEW" /\ scope' = S /\ text' = text
      /\ approved' = Cleared(approved, S, 0) /\ state' = RestartState(kind)
  BY DEF Regenerate
<1>3. state' \in TargetStages \ {"PACKAGING"}
  BY <1>2, Scopes
<1>4. approved'[s] = 0 /\ approved' \in [Segments -> Nat]
  BY <1>1, <1>2 DEF Cleared, Override, Inv, RowTypes
<1>5. RowTypes'
  BY <1>1, <1>2, <1>3, <1>4 DEF Inv, RowTypes
<1>6. Translated'
  BY <1>2, Stages DEF Inv, Translated
<1>7. ScopeUnsigned'
  BY <1>1, <1>2, <1>4 DEF ScopeUnsigned
<1>8. Signed'
  BY <1>3, Stages DEF Signed
<1> QED  BY <1>5, <1>6, <1>7, <1>8 DEF Inv

LEMMA EditInv == ASSUME Inv, NEW s \in Segments, EditTranslation(s)  PROVE Inv'
<1>1. /\ state = "NEEDS_REVIEW" /\ state' = state /\ scope' = scope
      /\ text' = [text EXCEPT ![s] = @ + 1]
      /\ approved' = [approved EXCEPT ![s] = 0]
  BY DEF EditTranslation
<1>2. RowTypes'
  BY <1>1 DEF Inv, RowTypes
<1>3. Translated'
  BY <1>1, Stages DEF Inv, RowTypes, Translated
<1>4. ScopeUnsigned' /\ Signed'
  BY <1>1, Stages DEF ScopeUnsigned, Signed
<1> QED  BY <1>2, <1>3, <1>4 DEF Inv

LEMMA ResolveInv ==
    ASSUME Inv, NEW s \in Segments, ResolveIssue(s)  PROVE Inv'
<1>1. /\ UNCHANGED <<state, scope, text, approved, order, delivered>>
      /\ open # {} /\ open' \subseteq open
  BY DEF ResolveIssue
<1> QED  BY <1>1 DEF Inv, RowTypes, Translated, ScopeUnsigned, Signed

LEMMA ApproveInv == ASSUME Inv, NEW S \in SUBSET Segments, Approve(S)  PROVE Inv'
<1>1. /\ state = "NEEDS_REVIEW" /\ UNCHANGED <<scope, text, open>>
      /\ approved' = Override(approved, S, text)
  BY DEF Approve
<1>2. approved' \in [Segments -> Nat]
  BY <1>1 DEF Override, Inv, RowTypes
<1>3. CASE GatePasses(approved', open)
  <2>1. state' = "PACKAGING" /\ order' = text
    BY <1>3 DEF Approve, StartPackaging
  <2>2. Signed'
    BY <1>1, <1>3, <2>1 DEF Signed, GatePasses
  <2>3. RowTypes' /\ Translated' /\ ScopeUnsigned'
    BY <1>1, <1>2, <2>1, Stages DEF Inv, RowTypes, Translated, ScopeUnsigned
  <2> QED  BY <2>2, <2>3 DEF Inv
<1>4. CASE ~GatePasses(approved', open)
  <2>1. state' = state
    BY <1>4 DEF Approve
  <2>2. RowTypes' /\ Translated' /\ ScopeUnsigned' /\ Signed'
    BY <1>1, <1>2, <2>1, Stages DEF Inv, RowTypes, Translated, ScopeUnsigned,
                                    Signed
  <2> QED  BY <2>2 DEF Inv
<1> QED  BY <1>3, <1>4

LEMMA NextInv == ASSUME Inv, [Next]_vars  PROVE Inv'
<1>1. CASE Synthesize \/ FitSpeech \/ LipSyncVideo \/ Mix \/ Encode
  <2>1. UNCHANGED <<scope, text, approved>>
    BY <1>1 DEF Synthesize, FitSpeech, LipSyncVideo, Mix, Encode, rows
  <2>2. \E stage \in TargetStages \ {"TRANSLATING", "TARGET_QA", "PACKAGING"} :
            Runs(stage)
    BY <1>1 DEF Synthesize, FitSpeech, LipSyncVideo, Mix, Encode, TargetStages
  <2> QED  BY <2>1, <2>2, StageKeeps
<1>2. CASE Translate
  BY <1>2, TranslateInv
<1>3. CASE TargetQA
  BY <1>3, TargetQaInv
<1>4. CASE Package
  BY <1>4, PackageInv
<1>5. CASE Abandon
  BY <1>5, AbandonInv
<1>6. CASE ReviewerStep
  BY <1>6, RegenerateInv, EditInv, ResolveInv, ApproveInv DEF ReviewerStep
<1>7. CASE UNCHANGED vars
  BY <1>7 DEF vars, rows, Inv, RowTypes, Translated, ScopeUnsigned, Signed
<1> QED
  BY <1>1, <1>2, <1>3, <1>4, <1>5, <1>6, <1>7 DEF Next, WorkerStep

LEMMA AlwaysInv == Spec => []Inv
<1>1. Init => Inv
  BY InitInv
<1>2. Inv /\ [Next]_vars => Inv'
  BY NextInv
<1> QED  BY <1>1, <1>2, PTL DEF Spec

\* What is packaged and delivered has been approved, segment by segment, in
\* that very generation, with no issue open (FR-042).
THEOREM SignedOff == Spec => []OnlyApprovedPackaged
<1>1. Inv => OnlyApprovedPackaged
  BY DEF Inv, Signed, OnlyApprovedPackaged
<1> QED  BY AlwaysInv, <1>1, PTL

\* A target goes from quality control to its reviewers, never straight into
\* packaging: readyGate's way through READY is not taken.
THEOREM AlwaysReviewed == Spec => QaLeadsToReview
<1>1. ASSUME Inv, [Next]_vars, state = "TARGET_QA"
      PROVE  state' # "PACKAGING"
  <2>1. CASE TargetQA
    BY <1>1, <2>1, QaReviews
  <2>2. CASE Abandon
    BY <2>2 DEF Abandon
  <2>3. CASE \E s \in Segments : ResolveIssue(s)
    BY <1>1, <2>3 DEF ResolveIssue
  <2>4. CASE UNCHANGED vars
    BY <1>1, <2>4 DEF vars
  <2> QED
    BY <1>1, <2>1, <2>2, <2>3, <2>4 DEF Next, WorkerStep, ReviewerStep, Translate,
         Synthesize, FitSpeech, LipSyncVideo, Mix, Encode, Package, Runs,
         Regenerate, EditTranslation, Approve
<1>2. Inv /\ [Next]_vars => [state = "TARGET_QA" => state' # "PACKAGING"]_vars
  BY <1>1
<1> QED  BY AlwaysInv, <1>2, PTL DEF Spec, QaLeadsToReview

-----------------------------------------------------------------------------
(* Types.  A generation stays below its bound because a translation that   *)
(* is under way has not been counted yet.                                  *)

Bounded ==
    \A s \in Segments :
        /\ text[s] <= 1 + edits + round
        /\ s \in scope /\ state = "TRANSLATING" => text[s] <= edits + round

Renders == PerSegment(Take)

Media == [audio : Renders, video : Renders]

\* From quality control on, there is an encoded file.
Encoded == state \in {"TARGET_QA", "NEEDS_REVIEW", "PACKAGING"} => encode \in Media

Types == TypeOK /\ Bounded /\ Encoded

LEMMA TypesNow ==
    ASSUME Types
    PROVE  /\ speech \in Renders /\ raw \in Renders /\ fitted \in Renders
           /\ picture \in Renders /\ mix \in Renders
           /\ encode \in Media \cup {None}
BY DEF Types, TypeOK, Renders, Media

LEMMA TypesNext ==
    ASSUME /\ state' \in TargetStages \cup {"NEEDS_REVIEW"} \cup TerminalStates
           /\ scope' \subseteq Segments /\ scope' # {}
           /\ edits' \in 0 .. Edits /\ round' \in 0 .. Rounds
           /\ text' \in [Segments -> Generation]
           /\ approved' \in [Segments -> Generation]
           /\ open' \subseteq Segments /\ measured' \in BOOLEAN
           /\ speech' \in Renders /\ raw' \in Renders /\ fitted' \in Renders
           /\ picture' \in Renders /\ mix' \in Renders
           /\ encode' \in Media \cup {None}
           /\ order' \in [Segments -> Generation] \cup {None}
           /\ delivered' \in [text : [Segments -> Generation], media : Media]
                                \cup {None}
    PROVE  TypeOK'
BY DEF TypeOK, Renders, Media

LEMMA TypesInit == Init => Types
<1> SUFFICES ASSUME Init  PROVE Types
  OBVIOUS
<1>1. TypeOK
  BY ArtefactsAssumption, Stages DEF Init, TypeOK, PerSegment, Generation
<1>2. Bounded /\ Encoded
  BY DEF Init, Bounded, Encoded
<1> QED  BY <1>1, <1>2 DEF Types

LEMMA OverrideType ==
    ASSUME NEW R, NEW f \in [Segments -> R], NEW S \in SUBSET Segments, NEW g,
           \A s \in S : g[s] \in R
    PROVE  Override(f, S, g) \in [Segments -> R]
BY DEF Override

LEMMA ClearedType ==
    ASSUME NEW R, NEW f \in [Segments -> R], NEW S \in SUBSET Segments,
           NEW none \in R
    PROVE  Cleared(f, S, none) \in [Segments -> R]
BY DEF Cleared, Override

LEMMA SpeechFilesType ==
    ASSUME Types, NEW S  PROVE SpeechFiles(S) \in Renders
<1>1. raw \in [Segments -> Take \cup {None}] /\ fitted \in [Segments -> Take \cup {None}]
  BY TypesNow DEF Renders, PerSegment
<1> QED  BY <1>1 DEF SpeechFiles, Renders, PerSegment

LEMMA GivenType == ASSUME Types, NEW stage  PROVE Given(stage) \subseteq Segments
BY DEF Given, Types, TypeOK

LEMMA TranslateTypes == ASSUME Inv, Types, Translate  PROVE Types'
<1>0. Given("TRANSLATING") = scope /\ scope \subseteq Segments
  BY DEF Given, ScopedStages, Types, TypeOK
<1>1. /\ state = "TRANSLATING" /\ state' \in TargetStages
      /\ state' \notin {"TRANSLATING", "TARGET_QA", "NEEDS_REVIEW", "PACKAGING"}
  BY Stages DEF Translate, Runs, NextStage, TargetStages
<1>2. \A s \in Segments : text'[s] = IF s \in scope THEN text[s] + 1 ELSE text[s]
  BY <1>0 DEF Translate, Override
<1>3. edits \in Nat /\ round \in Nat /\ edits <= Edits /\ round <= Rounds
      /\ \A s \in Segments : text[s] \in Nat
  BY ArtefactsAssumption DEF Types, TypeOK, Generation
<1>4. \A s \in Segments : text'[s] \in Nat /\ text'[s] <= 1 + edits + round
  BY <1>1, <1>2, <1>3 DEF Types, Bounded
<1>5. text' \in [Segments -> Generation]
  <2>1. \A s \in Segments : text'[s] \in Generation
    BY <1>3, <1>4, ArtefactsAssumption DEF Generation
  <2>2. text' = [s \in Segments |-> text'[s]]
    BY <1>0 DEF Translate, Override
  <2> QED  BY <2>1, <2>2
<1>6. approved' \in [Segments -> Generation]
  <2>1. 0 \in Generation
    BY ArtefactsAssumption DEF Generation
  <2> QED  BY <1>0, <2>1, ClearedType DEF Translate, Types, TypeOK
<1>7. speech' \in Renders
  BY <1>0, TypesNow, ClearedType DEF Translate, Renders, PerSegment
<1>8. UNCHANGED <<scope, edits, round, open, measured, raw, fitted, picture, mix,
                  encode, order, delivered>>
  BY DEF Translate, files
<1>9. TypeOK'
  BY <1>1, <1>5, <1>6, <1>7, <1>8, TypesNow, TypesNext DEF Types, TypeOK, Media, Renders
<1>10. Bounded' /\ Encoded'
  BY <1>1, <1>4, <1>8 DEF Bounded, Encoded
<1> QED  BY <1>9, <1>10 DEF Types

LEMMA SynthesizeTypes == ASSUME Inv, Types, Synthesize  PROVE Types'
<1> DEFINE S == Given("SYNTHESIZING")
<1>1. PICK fits \in [S -> Fits] :
        LET takes == [s \in S |->
                        [text |-> text[s], round |-> round, fits |-> fits[s]]]
        IN  raw' = Override(raw, S, takes) /\ speech' = Override(speech, S, takes)
  BY DEF Synthesize
<1> DEFINE takes == [s \in S |->
                        [text |-> text[s], round |-> round, fits |-> fits[s]]]
<1>2. /\ state = "SYNTHESIZING" /\ state' \in TargetStages
      /\ state' \notin {"TRANSLATING", "TARGET_QA", "NEEDS_REVIEW", "PACKAGING"}
  BY Stages DEF Synthesize, Runs, NextStage, TargetStages
<1>3. \A s \in S : takes[s] \in Take \cup {None}
  <2> SUFFICES ASSUME NEW s \in S  PROVE takes[s] \in Take
    OBVIOUS
  <2>1. s \in Segments
    BY GivenType
  <2>2. text[s] \in Generation /\ text[s] > 0 /\ round \in 0 .. Rounds
    BY <1>2, <2>1 DEF Types, TypeOK, Inv, Translated, TerminalStates
  <2>3. text[s] \in 1 .. 1 + Edits + Rounds
    BY <2>2 DEF Generation
  <2>4. fits[s] \in Fits
    BY <1>1
  <2> QED  BY <2>2, <2>3, <2>4 DEF Take
<1>4. S \in SUBSET Segments
  BY GivenType
<1>5. raw' \in Renders /\ speech' \in Renders
  <2>1. raw \in [Segments -> Take \cup {None}] /\ speech \in [Segments -> Take \cup {None}]
    BY TypesNow DEF Renders, PerSegment
  <2>2. Override(raw, S, takes) \in [Segments -> Take \cup {None}]
    BY <2>1, <1>3, <1>4, OverrideType
  <2>3. Override(speech, S, takes) \in [Segments -> Take \cup {None}]
    BY <2>1, <1>3, <1>4, OverrideType
  <2> QED  BY <1>1, <2>2, <2>3 DEF Renders, PerSegment
<1>6. UNCHANGED <<scope, edits, round, text, approved, open, measured, fitted,
                  picture, mix, encode, order, delivered>>
  BY DEF Synthesize
<1>7. TypeOK'
  BY <1>2, <1>5, <1>6, TypesNow, TypesNext DEF Types, TypeOK, Media, Renders
<1>8. Bounded' /\ Encoded'
  BY <1>2, <1>6 DEF Bounded, Encoded, Types
<1> QED  BY <1>7, <1>8 DEF Types

\* The stages after speech: rows stay, one file changes.
LEMMA FileStageTypes ==
    ASSUME Inv, Types, FitSpeech \/ LipSyncVideo \/ Mix \/ Encode
    PROVE  Types'
<1>1. PICK stage \in {"TIMING", "LIP_SYNCING", "MIXING", "ENCODING"} : Runs(stage)
  BY DEF FitSpeech, LipSyncVideo, Mix, Encode
<1>2. /\ state = stage /\ state' \in TargetStages
      /\ state' \notin {"TRANSLATING", "NEEDS_REVIEW", "PACKAGING"}
      /\ state' = "TARGET_QA" => stage = "ENCODING"
  BY <1>1, Stages DEF Runs, NextStage, TargetStages
<1>3. UNCHANGED <<scope, edits, round, text, approved, open, measured, speech, raw,
                  order, delivered>>
  BY DEF FitSpeech, LipSyncVideo, Mix, Encode, rows
<1>4. fitted' \in Renders
  <2>1. CASE FitSpeech
    <3>1. fitted \in [Segments -> Take \cup {None}] /\ raw \in [Segments -> Take \cup {None}]
      BY TypesNow DEF Renders, PerSegment
    <3> QED  BY <2>1, <3>1, GivenType, OverrideType DEF FitSpeech, Renders, PerSegment
  <2>2. CASE ~FitSpeech
    BY <2>2, TypesNow DEF LipSyncVideo, Mix, Encode
  <2> QED  BY <2>1, <2>2
<1>5. picture' \in Renders
  BY TypesNow, SpeechFilesType DEF FitSpeech, LipSyncVideo, Mix, Encode
<1>6. mix' \in Renders
  BY TypesNow, SpeechFilesType DEF FitSpeech, LipSyncVideo, Mix, Encode
<1>7. encode' \in Media \cup {None}
  BY TypesNow DEF FitSpeech, LipSyncVideo, Mix, Encode, Media
<1>8. state' = "TARGET_QA" => encode' \in Media
  <2>1. state' = "TARGET_QA" => Encode
    BY <1>2 DEF FitSpeech, LipSyncVideo, Mix, Runs
  <2>2. Encode => encode' \in Media
    BY TypesNow DEF Encode, Media
  <2> QED  BY <2>1, <2>2
<1>9. TypeOK'
  BY <1>2, <1>3, <1>4, <1>5, <1>6, <1>7, TypesNow, TypesNext
     DEF Types, TypeOK, Media, Renders
<1>10. Bounded' /\ Encoded'
  BY <1>2, <1>3, <1>8 DEF Bounded, Encoded, Types
<1> QED  BY <1>9, <1>10 DEF Types

LEMMA TargetQaTypes == ASSUME Inv, Types, TargetQA  PROVE Types'
<1>1. state = "TARGET_QA" /\ state' = "NEEDS_REVIEW" /\ order' = order
  BY QaReviews DEF TargetQA
<1>2. /\ scope' = Segments /\ open' \subseteq Segments /\ measured' \in BOOLEAN
      /\ UNCHANGED <<edits, round, text, approved, speech, raw, fitted, picture, mix,
                     encode, delivered>>
  BY DEF TargetQA, PersistQa, files, Types, TypeOK
<1>3. TypeOK'
  BY <1>1, <1>2, TypesNow, TypesNext, ArtefactsAssumption
     DEF Types, TypeOK, Media, Renders
<1>4. Bounded' /\ Encoded'
  BY <1>1, <1>2 DEF Bounded, Encoded, Types
<1> QED  BY <1>3, <1>4 DEF Types

LEMMA PackageTypes == ASSUME Inv, Types, Package  PROVE Types'
<1>1. state = "PACKAGING" /\ state' = "COMPLETE"
  BY DEF Package, Runs, NextStage
<1>2. /\ delivered' = [text |-> order, media |-> encode]
      /\ UNCHANGED <<scope, edits, round, text, approved, open, measured, speech, raw,
                     fitted, picture, mix, encode, order>>
  BY DEF Package, PersistPackage, rows, files
<1>3. order \in [Segments -> Generation]
  BY <1>1 DEF Inv, Signed, Types, TypeOK
<1>4. encode \in Media
  BY <1>1, TypesNow DEF Types, Encoded
<1>5. delivered' \in [text : [Segments -> Generation], media : Media]
  BY <1>2, <1>3, <1>4
<1>6. TypeOK'
  BY <1>1, <1>2, <1>5, TypesNow, TypesNext, Stages DEF Types, TypeOK, Media, Renders
<1>7. Bounded' /\ Encoded'
  BY <1>1, <1>2 DEF Bounded, Encoded, Types
<1> QED  BY <1>6, <1>7 DEF Types

LEMMA AbandonTypes == ASSUME Types, Abandon  PROVE Types'
<1>1. state' \in {"FAILED", "CANCELLED"}
  BY DEF Abandon
<1>2. UNCHANGED <<scope, edits, round, text, approved, open, measured, speech, raw,
                  fitted, picture, mix, encode, order, delivered>>
  BY DEF Abandon, rows, files
<1>3. TypeOK'
  BY <1>1, <1>2, TypesNow, TypesNext, Stages DEF Types, TypeOK, Media, Renders
<1>4. Bounded' /\ Encoded'
  BY <1>1, <1>2 DEF Bounded, Encoded, Types
<1> QED  BY <1>3, <1>4 DEF Types

LEMMA RegenerateTypes ==
    ASSUME Types, NEW kind \in RegenerateStages, NEW s \in Segments,
           Regenerate(kind, s)
    PROVE  Types'
<1> DEFINE S == ScopeOf(kind, s)
<1>1. S \subseteq Segments /\ S # {} /\ state' \in TargetStages
  BY Scopes DEF Regenerate
<1>2. /\ state' \notin {"TARGET_QA", "NEEDS_REVIEW", "PACKAGING"}
      /\ scope' = S /\ open' \subseteq open /\ round' = round + 1 /\ round < Rounds
      /\ UNCHANGED <<edits, text, measured, raw, fitted, picture, mix, encode, order,
                     delivered>>
  BY DEF Regenerate, files, RegenerateStages, RestartState
<1>3. round' \in 0 .. Rounds
  BY <1>2, ArtefactsAssumption DEF Types, TypeOK
<1>4. approved' \in [Segments -> Generation]
  <2>1. 0 \in Generation
    BY ArtefactsAssumption DEF Generation
  <2> QED  BY <1>1, <2>1, ClearedType DEF Regenerate, Types, TypeOK
<1>5. speech' \in Renders
  BY <1>1, TypesNow, ClearedType DEF Regenerate, Renders, PerSegment
<1>6. TypeOK'
  BY <1>1, <1>2, <1>3, <1>4, <1>5, TypesNow, TypesNext DEF Types, TypeOK, Media, Renders
<1>7. Bounded'
  <2>1. /\ edits \in Nat /\ round \in Nat
        /\ \A u \in Segments : text[u] \in Nat /\ text[u] <= 1 + edits + round
    BY ArtefactsAssumption DEF Types, TypeOK, Generation, Bounded
  <2> QED  BY <1>2, <2>1 DEF Bounded
<1>8. Encoded'
  BY <1>2 DEF Encoded
<1> QED  BY <1>6, <1>7, <1>8 DEF Types

LEMMA EditTypes == ASSUME Types, NEW s \in Segments, EditTranslation(s)  PROVE Types'
<1>1. /\ state = "NEEDS_REVIEW" /\ state' = state /\ edits < Edits /\ edits' = edits + 1
      /\ UNCHANGED <<scope, round, open, measured, raw, fitted, picture, mix, encode,
                     order, delivered>>
  BY DEF EditTranslation, files
<1>2. /\ edits \in Nat /\ round \in Nat /\ round <= Rounds
      /\ \A u \in Segments : text[u] \in Nat /\ text[u] <= 1 + edits + round
  BY ArtefactsAssumption DEF Types, TypeOK, Generation, Bounded
<1>3. \A u \in Segments : text'[u] \in Nat /\ text'[u] <= 1 + edits' + round
  BY <1>1, <1>2 DEF EditTranslation, Types, TypeOK
<1>4. edits' \in 0 .. Edits /\ text' \in [Segments -> Generation]
  <2>1. edits' \in 0 .. Edits
    BY <1>1, <1>2, ArtefactsAssumption
  <2>2. \A u \in Segments : text'[u] \in Generation
    BY <1>2, <1>3, <2>1, ArtefactsAssumption DEF Generation
  <2>3. text' = [u \in Segments |-> text'[u]]
    BY DEF EditTranslation, Types, TypeOK
  <2> QED  BY <2>1, <2>2, <2>3
<1>5. approved' \in [Segments -> Generation]
  BY ArtefactsAssumption DEF EditTranslation, Types, TypeOK, Generation
<1>6. speech' \in Renders
  BY TypesNow DEF EditTranslation, Renders, PerSegment
<1>7. TypeOK'
  BY <1>1, <1>4, <1>5, <1>6, TypesNow, TypesNext DEF Types, TypeOK, Media, Renders
<1>8. Bounded' /\ Encoded'
  BY <1>1, <1>3 DEF Bounded, Encoded, Types
<1> QED  BY <1>7, <1>8 DEF Types

LEMMA ResolveTypes == ASSUME Types, NEW s \in Segments, ResolveIssue(s)  PROVE Types'
<1>1. /\ open' \subseteq open
      /\ UNCHANGED <<state, scope, edits, round, text, approved, measured, speech, raw,
                     fitted, picture, mix, encode, order, delivered>>
  BY DEF ResolveIssue, files
<1> QED  BY <1>1 DEF Types, TypeOK, Bounded, Encoded

LEMMA ApproveTypes == ASSUME Types, NEW S \in SUBSET Segments, Approve(S)  PROVE Types'
<1>1. /\ state = "NEEDS_REVIEW" /\ state' \in {"NEEDS_REVIEW", "PACKAGING"}
      /\ order' \in {order, text}
      /\ UNCHANGED <<scope, edits, round, text, open, measured, speech, raw, fitted,
                     picture, mix, encode, delivered>>
  BY DEF Approve, StartPackaging, files
<1>2. approved' \in [Segments -> Generation]
  BY OverrideType DEF Approve, Types, TypeOK
<1>3. TypeOK'
  BY <1>1, <1>2, TypesNow, TypesNext, Stages DEF Types, TypeOK, Media, Renders
<1>4. Bounded' /\ Encoded'
  BY <1>1 DEF Bounded, Encoded, Types
<1> QED  BY <1>3, <1>4 DEF Types

LEMMA TypesStep == ASSUME Inv, Types, [Next]_vars  PROVE Types'
<1>1. CASE Translate
  BY <1>1, TranslateTypes
<1>2. CASE Synthesize
  BY <1>2, SynthesizeTypes
<1>3. CASE FitSpeech \/ LipSyncVideo \/ Mix \/ Encode
  BY <1>3, FileStageTypes
<1>4. CASE TargetQA
  BY <1>4, TargetQaTypes
<1>5. CASE Package
  BY <1>5, PackageTypes
<1>6. CASE Abandon
  BY <1>6, AbandonTypes
<1>7. CASE ReviewerStep
  BY <1>7, RegenerateTypes, EditTypes, ResolveTypes, ApproveTypes DEF ReviewerStep
<1>8. CASE UNCHANGED vars
  BY <1>8 DEF vars, rows, files, Types, TypeOK, Bounded, Encoded
<1> QED
  BY <1>1, <1>2, <1>3, <1>4, <1>5, <1>6, <1>7, <1>8 DEF Next, WorkerStep

\* Rows and files only ever hold what the code can write: no generation is
\* made twice or skipped, and what is delivered is always there.
THEOREM TypeCorrect == Spec => []TypeOK
<1>1. Init => Inv /\ Types
  BY InitInv, TypesInit
<1>2. Inv /\ Types /\ [Next]_vars => Inv' /\ Types'
  BY NextInv, TypesStep
<1>3. Types => TypeOK
  BY DEF Types
<1> QED  BY <1>1, <1>2, <1>3, PTL DEF Spec

-----------------------------------------------------------------------------
(* The speech in the mix.  A fresh render is always in the raw file, and   *)
(* in the fitted one if it fits; the fitted file and the mix may lag       *)
(* behind only until TIMING has seen the scope, and MIXING the whole       *)
(* target.  A fitted file in front of a render that does not fit is of an  *)
(* earlier round: a round speaks a segment once, before TIMING.            *)

RawIsSpoken == \A s \in Segments : speech[s] # None => raw[s] = speech[s]

FittedIsSpoken ==
    \A s \in Segments : speech[s] # None /\ speech[s].fits =>
        \/ fitted[s] = speech[s]
        \/ s \in scope /\ state \in {"TRANSLATING", "SYNTHESIZING", "TIMING"}
        \/ state \in {"FAILED", "CANCELLED"}

FittedIsOlder ==
    \A s \in Segments :
        /\ raw[s] # None => raw[s].round <= round
        /\ fitted[s] # None => /\ fitted[s].fits /\ fitted[s].round <= round
                               /\ state \in {"TRANSLATING", "SYNTHESIZING"} =>
                                     fitted[s].round < round
                               /\ speech[s] # None /\ ~speech[s].fits =>
                                     fitted[s].round < speech[s].round

Mixed ==
    state \in {"ENCODING", "TARGET_QA", "NEEDS_REVIEW", "PACKAGING", "COMPLETE"} =>
        \A s \in Segments : speech[s] # None =>
            mix[s] = speech[s] \/ LeftOver(s, mix[s])

\* A fresh render speaks the current text; what is not being made again has
\* one, unless somebody has edited.
Spoken ==
    \A s \in Segments :
        /\ speech[s] # None => speech[s].text = text[s]
        /\ speech[s] = None =>
              \/ edits > 0
              \/ s \in scope /\ state \in {"TRANSLATING", "SYNTHESIZING"}
              \/ state \in {"FAILED", "CANCELLED"}

EncodeIsMix ==
    /\ state \in {"TARGET_QA", "NEEDS_REVIEW", "PACKAGING"} => encode.audio = mix
    /\ state = "COMPLETE" =>
          delivered.media.audio = mix /\ delivered.text = text

Files == RawIsSpoken /\ FittedIsSpoken /\ FittedIsOlder
Heard == Files /\ Mixed /\ Spoken /\ EncodeIsMix

LEMMA HeardInit == Init => Heard
BY DEF Init, Heard, Files, RawIsSpoken, FittedIsSpoken, FittedIsOlder, Mixed,
       Spoken, EncodeIsMix

\* A step that leaves renders and files alone and goes forward keeps them apart.
LEMMA FilesKept ==
    ASSUME Heard, UNCHANGED <<scope, round, speech, raw, fitted>>,
           state' \in {"TRANSLATING", "SYNTHESIZING"} => state' = state,
           state' = "TIMING" => state \in {"SYNTHESIZING", "TIMING"},
           state \in {"FAILED", "CANCELLED"} => state' \in {"FAILED", "CANCELLED"},
           state = "TIMING" => state' \in {"TIMING", "FAILED", "CANCELLED"},
           state \in {"TRANSLATING", "SYNTHESIZING"} =>
               state' \in {"TRANSLATING", "SYNTHESIZING", "TIMING", "FAILED",
                           "CANCELLED"}
    PROVE  Files'
BY DEF Heard, Files, RawIsSpoken, FittedIsSpoken, FittedIsOlder

\* Rounds are numbers.
LEMMA RoundTypes ==
    ASSUME Types
    PROVE  /\ round \in Nat /\ edits \in Nat
           /\ \A s \in Segments :
                /\ speech[s] # None => speech[s].round \in Nat /\ speech[s].fits \in BOOLEAN
                /\ raw[s] # None => raw[s].round \in Nat /\ raw[s].fits \in BOOLEAN
                /\ fitted[s] # None => fitted[s].round \in Nat /\ fitted[s].fits \in BOOLEAN
<1>1. \A f \in {speech, raw, fitted} : f \in PerSegment(Take)
  BY DEF Types, TypeOK
<1>2. \A f \in PerSegment(Take), s \in Segments : f[s] # None =>
        f[s].round \in Nat /\ f[s].fits \in BOOLEAN
  BY ArtefactsAssumption DEF PerSegment, Take
<1>3. round \in Nat /\ edits \in Nat
  BY ArtefactsAssumption DEF Types, TypeOK
<1> QED  BY <1>1, <1>2, <1>3

LEMMA TranslateHeard == ASSUME Types, Heard, Translate  PROVE Heard'
<1>1. Given("TRANSLATING") = scope /\ scope \subseteq Segments
  BY DEF Given, ScopedStages, Types, TypeOK
<1>2. /\ state = "TRANSLATING" /\ state' = "SYNTHESIZING"
      /\ UNCHANGED <<scope, edits, round, raw, fitted>>
  BY DEF Translate, Runs, NextStage, files
<1>3. \A s \in Segments : speech'[s] = IF s \in scope THEN None ELSE speech[s]
  BY <1>1 DEF Translate, Cleared, Override
<1>4. \A s \in Segments : s \notin scope => text'[s] = text[s]
  BY <1>1 DEF Translate, Override
<1>5. Files'
  BY <1>2, <1>3 DEF Heard, Files, RawIsSpoken, FittedIsSpoken, FittedIsOlder
<1>6. Mixed' /\ EncodeIsMix'
  BY <1>2 DEF Mixed, EncodeIsMix
<1>7. Spoken'
  BY <1>2, <1>3, <1>4 DEF Heard, Spoken
<1> QED  BY <1>5, <1>6, <1>7 DEF Heard

LEMMA SynthesizeHeard == ASSUME Inv, Types, Heard, Synthesize  PROVE Heard'
<1> DEFINE S == Given("SYNTHESIZING")
<1>1. PICK fits \in [S -> Fits] :
        LET takes == [s \in S |->
                        [text |-> text[s], round |-> round, fits |-> fits[s]]]
        IN  raw' = Override(raw, S, takes) /\ speech' = Override(speech, S, takes)
  BY DEF Synthesize
<1>2. /\ state = "SYNTHESIZING" /\ state' = "TIMING"
      /\ UNCHANGED <<scope, edits, round, text, fitted>>
  BY DEF Synthesize, Runs, NextStage
<1>3. S = scope /\ scope \subseteq Segments
  BY DEF Given, ScopedStages, Types, TypeOK
<1>4. \A s \in scope : /\ raw'[s] = speech'[s] /\ speech'[s].round = round
                       /\ speech'[s].text = text[s] /\ speech'[s] \in Take
  <2> SUFFICES ASSUME NEW s \in scope
               PROVE  /\ raw'[s] = speech'[s] /\ speech'[s].round = round
                      /\ speech'[s].text = text[s] /\ speech'[s] \in Take
    OBVIOUS
  <2>1. s \in Segments
    BY <1>3
  <2>2. /\ raw'[s] = [text |-> text[s], round |-> round, fits |-> fits[s]]
        /\ speech'[s] = [text |-> text[s], round |-> round, fits |-> fits[s]]
    BY <1>1, <1>3, <2>1 DEF Override
  <2>3. text[s] \in Generation /\ text[s] > 0 /\ round \in 0 .. Rounds
    BY <1>2, <2>1 DEF Types, TypeOK, Inv, Translated, TerminalStates
  <2>4. text[s] \in 1 .. 1 + Edits + Rounds /\ fits[s] \in Fits
    BY <1>1, <1>3, <2>3 DEF Generation
  <2> QED  BY <2>2, <2>3, <2>4 DEF Take
<1>5. \A s \in Segments \ scope : speech'[s] = speech[s] /\ raw'[s] = raw[s]
  BY <1>1, <1>3 DEF Override
<1>6. Files'
  <2>1. RawIsSpoken' /\ FittedIsSpoken'
    BY <1>2, <1>4, <1>5 DEF Heard, Files, RawIsSpoken, FittedIsSpoken
  <2>2. FittedIsOlder'
    <3> SUFFICES ASSUME NEW s \in Segments
                 PROVE  /\ raw'[s] # None => raw'[s].round <= round
                        /\ fitted[s] # None =>
                             /\ fitted[s].fits /\ fitted[s].round <= round
                             /\ speech'[s] # None /\ ~speech'[s].fits =>
                                   fitted[s].round < speech'[s].round
      BY <1>2 DEF FittedIsOlder
    <3>1. /\ raw[s] # None => raw[s].round <= round
          /\ fitted[s] # None => /\ fitted[s].fits /\ fitted[s].round <= round
                                 /\ fitted[s].round < round
                                 /\ speech[s] # None /\ ~speech[s].fits =>
                                       fitted[s].round < speech[s].round
      BY <1>2 DEF Heard, Files, FittedIsOlder
    <3>2. CASE s \in scope
      BY <3>1, <3>2, <1>4, RoundTypes
    <3>3. CASE s \notin scope
      BY <3>1, <3>3, <1>5
    <3> QED  BY <3>2, <3>3
  <2> QED  BY <2>1, <2>2 DEF Files
<1>7. Mixed' /\ EncodeIsMix'
  BY <1>2 DEF Mixed, EncodeIsMix
<1>8. Spoken'
  BY <1>2, <1>4, <1>5, NoneAssumption DEF Heard, Spoken
<1> QED  BY <1>6, <1>7, <1>8 DEF Heard

\* TIMING brings the fitted files of the renders that fit up to date.
LEMMA FitHeard == ASSUME Types, Heard, FitSpeech  PROVE Heard'
<1> DEFINE fitting == {s \in Given("TIMING") : speech[s] # None /\ speech[s].fits}
<1>1. Given("TIMING") = scope /\ scope \subseteq Segments
  BY DEF Given, ScopedStages, Types, TypeOK
<1>2. /\ state = "TIMING" /\ state' \in {"LIP_SYNCING", "MIXING"}
      /\ UNCHANGED <<scope, edits, round, text, speech, raw>>
  BY ArtefactsAssumption DEF FitSpeech, Runs, NextStage, rows
<1>3. \A s \in Segments : fitted'[s] = IF s \in fitting THEN raw[s] ELSE fitted[s]
  BY DEF FitSpeech, Override
<1>4. \A s \in fitting : raw[s] = speech[s] /\ speech[s] # None /\ speech[s].fits
  BY <1>1 DEF Heard, Files, RawIsSpoken
<1>5. RawIsSpoken' /\ FittedIsSpoken'
  BY <1>1, <1>2, <1>3, <1>4 DEF Heard, Files, RawIsSpoken, FittedIsSpoken
<1>6. FittedIsOlder'
  <2> SUFFICES ASSUME NEW s \in Segments
               PROVE  /\ raw[s] # None => raw[s].round <= round
                      /\ fitted'[s] # None =>
                           /\ fitted'[s].fits /\ fitted'[s].round <= round
                           /\ speech[s] # None /\ ~speech[s].fits =>
                                 fitted'[s].round < speech[s].round
    BY <1>2 DEF FittedIsOlder
  <2>1. CASE s \in fitting
    BY <2>1, <1>3, <1>4 DEF Heard, Files, FittedIsOlder
  <2>2. CASE s \notin fitting
    BY <2>2, <1>3 DEF Heard, Files, FittedIsOlder
  <2> QED  BY <2>1, <2>2
<1>7. Mixed' /\ Spoken' /\ EncodeIsMix'
  BY <1>2 DEF Heard, Mixed, Spoken, EncodeIsMix
<1> QED  BY <1>5, <1>6, <1>7 DEF Heard, Files

LEMMA LipSyncHeard == ASSUME Heard, LipSyncVideo  PROVE Heard'
<1>1. /\ state = "LIP_SYNCING" /\ state' = "MIXING"
      /\ UNCHANGED <<scope, edits, round, text, speech, raw, fitted>>
  BY DEF LipSyncVideo, Runs, NextStage, rows
<1>2. Files'
  BY <1>1, FilesKept
<1> QED  BY <1>1, <1>2 DEF Heard, Mixed, Spoken, EncodeIsMix

\* MIXING finds a render that fits in its fitted file; one that does not is in
\* its raw file, or an older one that did fit is found.
LEMMA MixHeard == ASSUME Heard, Mix  PROVE Heard'
<1>1. Given("MIXING") = Segments
  BY DEF Given, ScopedStages
<1>2. /\ state = "MIXING" /\ state' = "ENCODING"
      /\ UNCHANGED <<scope, edits, round, text, speech, raw, fitted>>
  BY DEF Mix, Runs, NextStage, rows
<1>3. ASSUME NEW s \in Segments, speech[s] # None
      PROVE  mix'[s] = speech[s] \/ LeftOver(s, mix'[s])
  <2>1. mix'[s] = IF fitted[s] # None THEN fitted[s] ELSE raw[s]
    BY <1>1, <1>3 DEF Mix, SpeechFiles
  <2>2. raw[s] = speech[s]
    BY <1>3 DEF Heard, Files, RawIsSpoken
  <2>3. CASE speech[s].fits
    BY <2>1, <2>3, <1>2, <1>3 DEF Heard, Files, FittedIsSpoken
  <2>4. CASE ~speech[s].fits
    BY <2>1, <2>2, <2>4, <1>3 DEF Heard, Files, FittedIsOlder, LeftOver
  <2> QED  BY <2>3, <2>4
<1>4. Spoken' /\ EncodeIsMix'
  BY <1>2 DEF Heard, Spoken, EncodeIsMix
<1>5. Mixed'
  BY <1>2, <1>3 DEF Mixed, LeftOver
<1>6. Files'
  BY <1>2, FilesKept
<1> QED  BY <1>4, <1>5, <1>6 DEF Heard

LEMMA EncodeHeard == ASSUME Heard, Encode  PROVE Heard'
<1>1. /\ state = "ENCODING" /\ state' = "TARGET_QA" /\ encode'.audio = mix
      /\ UNCHANGED <<scope, edits, round, text, speech, raw, fitted, mix>>
  BY DEF Encode, Runs, NextStage, rows
<1>2. Files'
  BY <1>1, FilesKept
<1> QED  BY <1>1, <1>2 DEF Heard, Mixed, LeftOver, Spoken, EncodeIsMix

LEMMA TargetQaHeard == ASSUME Inv, Heard, TargetQA  PROVE Heard'
<1>1. /\ state = "TARGET_QA" /\ state' = "NEEDS_REVIEW"
      /\ UNCHANGED <<edits, round, text, speech, raw, fitted, mix, encode>>
  BY QaReviews DEF TargetQA, files
<1>2. Files'
  BY <1>1 DEF Heard, Files, RawIsSpoken, FittedIsSpoken, FittedIsOlder
<1> QED  BY <1>1, <1>2 DEF Heard, Mixed, LeftOver, Spoken, EncodeIsMix

LEMMA PackageHeard == ASSUME Inv, Heard, Package  PROVE Heard'
<1>1. /\ state = "PACKAGING" /\ state' = "COMPLETE"
      /\ delivered'.text = order /\ delivered'.media = encode
      /\ UNCHANGED <<scope, edits, round, text, speech, raw, fitted, mix>>
  BY DEF Package, PersistPackage, Runs, NextStage, rows, files
<1>2. order = text
  BY <1>1 DEF Inv, Signed
<1>3. Files'
  BY <1>1, FilesKept
<1> QED  BY <1>1, <1>2, <1>3 DEF Heard, Mixed, LeftOver, Spoken, EncodeIsMix

LEMMA AbandonHeard == ASSUME Heard, Abandon  PROVE Heard'
<1>1. /\ state' \in {"FAILED", "CANCELLED"}
      /\ UNCHANGED <<scope, edits, round, text, speech, raw, fitted>>
  BY DEF Abandon, rows, files
<1>2. Files'
  BY <1>1 DEF Heard, Files, RawIsSpoken, FittedIsSpoken, FittedIsOlder
<1> QED  BY <1>1, <1>2 DEF Heard, Mixed, Spoken, EncodeIsMix

LEMMA RegenerateHeard ==
    ASSUME Types, Heard, NEW kind \in RegenerateStages, NEW s \in Segments,
           Regenerate(kind, s)
    PROVE  Heard'
<1> DEFINE S == ScopeOf(kind, s)
<1>1. S \subseteq Segments
  BY Scopes
<1>2. /\ state = "NEEDS_REVIEW" /\ scope' = S
      /\ state' = RestartState(kind) /\ round' = round + 1
      /\ UNCHANGED <<edits, text, raw, fitted>>
  BY DEF Regenerate, files
<1>3. state' \in {"TRANSLATING", "SYNTHESIZING", "TIMING", "LIP_SYNCING"}
  BY <1>2 DEF RegenerateStages, RestartState
<1>4. /\ \A u \in Segments : speech'[u] \in {speech[u], None}
      /\ \A u \in Segments \ S : speech'[u] = speech[u]
      /\ kind \in {"timing", "lipsync"} => speech' = speech
  BY <1>1 DEF Regenerate, Cleared, Override
<1>5. Files'
  <2>1. RawIsSpoken' /\ FittedIsSpoken'
    BY <1>2, <1>3, <1>4 DEF Heard, Files, RawIsSpoken, FittedIsSpoken
  <2>2. FittedIsOlder'
    <3> SUFFICES ASSUME NEW u \in Segments
                 PROVE  /\ raw[u] # None => raw[u].round <= round + 1
                        /\ fitted[u] # None =>
                             /\ fitted[u].fits /\ fitted[u].round <= round + 1
                             /\ fitted[u].round < round + 1
                             /\ speech'[u] # None /\ ~speech'[u].fits =>
                                   fitted[u].round < speech'[u].round
      BY <1>2 DEF FittedIsOlder
    <3> QED  BY <1>4, RoundTypes DEF Heard, Files, FittedIsOlder
  <2> QED  BY <2>1, <2>2 DEF Files
<1>6. Mixed' /\ EncodeIsMix'
  BY <1>3 DEF Mixed, EncodeIsMix
<1>7. Spoken'
  <2>1. CASE kind \in {"translation", "voice"}
    BY <1>2, <1>4, <2>1 DEF Heard, Spoken, RestartState
  <2>2. CASE kind \in {"timing", "lipsync"}
    BY <1>2, <1>4, <2>2 DEF Heard, Spoken
  <2> QED  BY <2>1, <2>2 DEF RegenerateStages
<1> QED  BY <1>5, <1>6, <1>7 DEF Heard

LEMMA EditHeard ==
    ASSUME Types, Heard, NEW s \in Segments, EditTranslation(s)  PROVE Heard'
<1>1. /\ state = "NEEDS_REVIEW" /\ state' = state /\ edits' = edits + 1
      /\ UNCHANGED <<scope, round, raw, fitted, mix, encode>>
  BY DEF EditTranslation, files
<1>2. edits' > 0
  BY <1>1, RoundTypes
<1>3. \A u \in Segments :
        \/ speech'[u] = None
        \/ speech'[u] = speech[u] /\ text'[u] = text[u]
  BY TypesNow DEF EditTranslation, Renders, PerSegment
<1>4. Files'
  BY <1>1, <1>3 DEF Heard, Files, RawIsSpoken, FittedIsSpoken, FittedIsOlder
<1>5. Mixed' /\ EncodeIsMix'
  BY <1>1, <1>3 DEF Heard, Mixed, LeftOver, EncodeIsMix
<1>6. Spoken'
  BY <1>2, <1>3 DEF Heard, Spoken
<1> QED  BY <1>4, <1>5, <1>6 DEF Heard

LEMMA ReviewHeard ==
    ASSUME Heard,
           \/ \E s \in Segments : ResolveIssue(s)
           \/ \E S \in SUBSET Segments : Approve(S)
    PROVE  Heard'
<1>1. /\ \/ state' = state
         \/ state = "NEEDS_REVIEW" /\ state' = "PACKAGING"
      /\ UNCHANGED <<scope, edits, round, text, speech, raw, fitted, mix, encode,
                     delivered>>
  BY DEF ResolveIssue, Approve, StartPackaging, files
<1>2. Files'
  BY <1>1 DEF Heard, Files, RawIsSpoken, FittedIsSpoken, FittedIsOlder
<1> QED  BY <1>1, <1>2 DEF Heard, Mixed, LeftOver, Spoken, EncodeIsMix

LEMMA HeardStep ==
    ASSUME Inv, Types, Heard, [Next]_vars  PROVE Heard'
<1>1. CASE Translate
  BY <1>1, TranslateHeard
<1>2. CASE Synthesize
  BY <1>2, SynthesizeHeard
<1>3. CASE FitSpeech
  BY <1>3, FitHeard
<1>4. CASE LipSyncVideo \/ Mix \/ Encode
  BY <1>4, LipSyncHeard, MixHeard, EncodeHeard
<1>5. CASE TargetQA \/ Package \/ Abandon
  BY <1>5, TargetQaHeard, PackageHeard, AbandonHeard
<1>6. CASE ReviewerStep
  BY <1>6, RegenerateHeard, EditHeard, ReviewHeard DEF ReviewerStep
<1>7. CASE UNCHANGED vars
  BY <1>7 DEF vars, rows, files, Heard, Files, RawIsSpoken, FittedIsSpoken,
              FittedIsOlder, Mixed, LeftOver, Spoken, EncodeIsMix
<1> QED  BY <1>1, <1>2, <1>3, <1>4, <1>5, <1>6, <1>7 DEF Next, WorkerStep

LEMMA AlwaysHeard == Spec => [](Inv /\ Types /\ Heard)
<1>1. Init => Inv /\ Types /\ Heard
  BY InitInv, TypesInit, HeardInit
<1>2. Inv /\ Types /\ Heard /\ [Next]_vars => Inv' /\ Types' /\ Heard'
  BY NextInv, TypesStep, HeardStep
<1> QED  BY <1>1, <1>2, PTL DEF Spec

\* Whichever segments are made again in whichever scope, and whatever fits:
\* the mix has exactly the fresh renders, but for one that does not fit and
\* has an older fitted file before it.
THEOREM MixStaysCurrent == Spec => []MixIsCurrent
<1>1. Inv /\ Types /\ Heard => MixIsCurrent
  BY DEF Heard, Mixed, MixIsCurrent
<1> QED  BY AlwaysHeard, <1>1, PTL

\* What is delivered speaks the text that is delivered with it; where it does
\* not, the text was edited and not spoken since, or an older take was found.
THEOREM DeliversWhatIsSpoken == Spec => []SpokenAsTranslated
<1>1. ASSUME Heard, state = "COMPLETE", NEW s \in Segments
      PROVE  LET heard == delivered.media.audio[s] IN
                /\ speech[s] # None => speech[s].text = delivered.text[s]
                /\ \/ heard # None /\ heard.text = delivered.text[s]
                   \/ speech[s] = None /\ edits > 0
                   \/ LeftOver(s, heard)
  <2>1. delivered.media.audio = mix /\ delivered.text = text
    BY <1>1 DEF Heard, EncodeIsMix
  <2>2. CASE speech[s] = None
    BY <1>1, <2>1, <2>2 DEF Heard, Spoken
  <2>3. CASE speech[s] # None
    BY <1>1, <2>1, <2>3 DEF Heard, Spoken, Mixed
  <2> QED  BY <2>2, <2>3
<1>2. Inv /\ Types /\ Heard => SpokenAsTranslated
  BY <1>1 DEF SpokenAsTranslated
<1> QED  BY AlwaysHeard, <1>2, PTL

\* An approval goes only with the text it was for, or with a regeneration that
\* is about its segment (BR-04).
THEOREM ApprovalsStay == Spec => ApprovalsPersist
<1> DEFINE Kept == \A s \in Segments : approved'[s] # approved[s] /\ approved'[s] = 0 =>
                      text'[s] # text[s] \/ (s \in scope' /\ state' # "NEEDS_REVIEW")
<1>1. ASSUME Inv, [Next]_vars  PROVE Kept
  <2>1. scope \subseteq Segments /\ \A s \in Segments : text[s] \in Nat
    BY <1>1 DEF Inv, RowTypes
  <2>2. CASE Translate
    <3>1. Given("TRANSLATING") = scope
      BY DEF Given, ScopedStages
    <3>2. \A s \in Segments : /\ s \in scope => text'[s] = text[s] + 1
                              /\ s \notin scope => approved'[s] = approved[s]
      BY <2>1, <2>2, <3>1 DEF Translate, Cleared, Override
    <3> QED  BY <2>1, <3>2
  <2>3. CASE \E kind \in RegenerateStages, u \in Segments : Regenerate(kind, u)
    <3>1. PICK kind \in RegenerateStages, u \in Segments : Regenerate(kind, u)
      BY <2>3
    <3>2. \A s \in Segments : s \notin scope' => approved'[s] = approved[s]
      BY <3>1, Scopes DEF Regenerate, Cleared, Override
    <3>3. state' # "NEEDS_REVIEW"
      BY <3>1 DEF Regenerate, RegenerateStages, RestartState
    <3> QED  BY <3>2, <3>3
  <2>4. CASE \E u \in Segments : EditTranslation(u)
    <3>1. PICK u \in Segments : EditTranslation(u)
      BY <2>4
    <3>2. text'[u] = text[u] + 1 /\ \A s \in Segments \ {u} : approved'[s] = approved[s]
      BY <1>1, <3>1 DEF EditTranslation, Inv, RowTypes
    <3> QED  BY <2>1, <3>2
  <2>5. CASE \E S \in SUBSET Segments : Approve(S)
    <3>1. PICK S \in SUBSET Segments : Approve(S)
      BY <2>5
    <3>2. \A s \in Segments : text[s] > 0
      BY <1>1, <3>1, Stages DEF Approve, Inv, Translated
    <3>3. \A s \in Segments : approved'[s] \in {approved[s], text[s]}
      BY <3>1 DEF Approve, Override
    <3> QED  BY <2>1, <3>2, <3>3
  <2>6. CASE UNCHANGED approved
    BY <2>6
  <2>7. \/ Translate \/ UNCHANGED approved
        \/ \E kind \in RegenerateStages, u \in Segments : Regenerate(kind, u)
        \/ \E u \in Segments : EditTranslation(u)
        \/ \E S \in SUBSET Segments : Approve(S)
    BY <1>1 DEF Next, WorkerStep, ReviewerStep, Abandon, Synthesize, FitSpeech,
         LipSyncVideo, Mix, Encode, TargetQA, Package, ResolveIssue, rows, vars
  <2> QED  BY <2>2, <2>3, <2>4, <2>5, <2>6, <2>7
<1>2. Inv /\ [Next]_vars => [Kept]_vars
  BY <1>1
<1> QED  BY AlwaysInv, <1>2, PTL DEF Spec, ApprovalsPersist

-----------------------------------------------------------------------------
(* Refinement of TargetLifecycle. *)

LEMMA Becomes ==
    ASSUME NEW p, NEW s, NEW n, Phase' = p,
           (IF state \in TargetStages THEN state ELSE None)' = s,
           (IF state \in TargetStages THEN 1 ELSE 0)' = n
    PROVE  Lifecycle!Become(It, p, s, n)
BY DEF Lifecycle!Become

\* A target that moves on to a stage, or to rest.
LEMMA BecomesRunning ==
    ASSUME state' \in TargetStages
    PROVE  Lifecycle!Become(It, "running", state', 1)
<1>1. Phase' = "running"
  BY Stages DEF Phase
<1> QED  BY <1>1, Becomes

LEMMA BecomesRest ==
    ASSUME NEW p, Phase' = p, state' \notin TargetStages
    PROVE  Lifecycle!Become(It, p, None, 0)
BY Becomes

\* What the life cycle sees of a target that is at a stage.
LEMMA SeenRunning ==
    ASSUME state \in TargetStages
    PROVE  /\ Lifecycle!Running(It, state)
           /\ [t \in {It} |-> Phase][It] = "running"
<1>1. Phase = "running"
  BY Stages DEF Phase
<1> QED  BY <1>1 DEF Lifecycle!Running

\* The success of a stage before quality control.
LEMMA StagePerforms ==
    ASSUME NEW stage \in TargetStages \ {"TARGET_QA", "PACKAGING"}, Runs(stage)
    PROVE  Lifecycle!Next
<1>1. state = stage /\ state' = NextStage(LipSync, stage) /\ state' \in TargetStages
  BY Successors DEF Runs
<1>2. /\ Lifecycle!Follows(It, state, state')
      /\ state' \in Lifecycle!Stages
  BY <1>1, ArtefactsAssumption DEF TargetStages, NextStage, Lifecycle!Follows,
       Lifecycle!StageOrder, Lifecycle!Stages
<1>3. Lifecycle!Perform(It, state')
  BY <1>1, <1>2, BecomesRunning, SeenRunning DEF Lifecycle!Perform, Lifecycle!Running
<1> QED  BY <1>2, <1>3 DEF Lifecycle!Next

LEMMA WorkerRefines == ASSUME Inv, WorkerStep  PROVE Lifecycle!Next
<1>1. CASE Translate \/ Synthesize \/ FitSpeech \/ LipSyncVideo \/ Mix \/ Encode
  BY <1>1, StagePerforms DEF Translate, Synthesize, FitSpeech, LipSyncVideo, Mix,
       Encode, TargetStages
<1>2. CASE TargetQA
  <2>1. state = "TARGET_QA" /\ state' = "NEEDS_REVIEW"
    BY <1>2, QaReviews DEF TargetQA
  <2>2. Lifecycle!Become(It, "review", None, 0)
    BY <2>1, BecomesRest, Stages DEF Phase
  <2>3. Lifecycle!Running(It, "TARGET_QA")
    BY <2>1, SeenRunning, Stages
  <2> QED  BY <2>2, <2>3 DEF Lifecycle!Judge, Lifecycle!Next
<1>3. CASE Package
  <2>1. state = "PACKAGING" /\ state' = "COMPLETE"
    BY <1>3 DEF Package, Runs, NextStage
  <2>2. Lifecycle!Become(It, "complete", None, 0)
    BY <2>1, BecomesRest, Stages DEF Phase
  <2>3. Lifecycle!Running(It, "PACKAGING")
    BY <2>1, SeenRunning, Stages
  <2> QED  BY <2>2, <2>3 DEF Lifecycle!Deliver, Lifecycle!Next
<1> QED  BY <1>1, <1>2, <1>3 DEF WorkerStep

\* A stage that fails for good fails the target; a cancel finds it running or
\* in review and lets no work go on.
LEMMA AbandonRefines == ASSUME Inv, Abandon  PROVE Lifecycle!Next
<1>1. state \in TargetStages \cup {"NEEDS_REVIEW"} \cup TerminalStates
  BY DEF Inv, RowTypes
<1>2. CASE IsWorking(state) /\ state' = "FAILED"
  <2>1. state \in TargetStages
    BY <1>1, <1>2 DEF IsWorking, WorkingStates, TerminalStates
  <2>2. Lifecycle!Become(It, "failed", None, 0)
    BY <1>2, BecomesRest, Stages DEF Phase
  <2> QED  BY <2>1, <2>2, SeenRunning DEF Lifecycle!Fail, Lifecycle!Next
<1>3. CASE state \notin TerminalStates /\ state' = "CANCELLED"
  <2>1. Phase \in {"running", "review"} /\ Phase' = "cancelled"
    BY <1>1, <1>3, Stages DEF Phase
  <2>2. state' \notin TargetStages
    BY <1>3, Stages
  <2>3. /\ {} \in SUBSET {It} /\ \A t \in {It} : t = It
        /\ [t \in {It} |-> Phase][It] \in {"running", "review"}
    BY <2>1
  <2>4. /\ [t \in {It} |-> Phase]' = [t \in {It} |-> "cancelled"]
        /\ [t \in {It} |-> IF state \in TargetStages THEN state ELSE None]'
             = [t \in {It} |-> None]
        /\ [t \in {It} |-> IF state \in TargetStages THEN 1 ELSE 0]'
             = [t \in {It} |-> 0]
    BY <2>1, <2>2
  <2>5. Lifecycle!Cancel({It})
    BY <2>3, <2>4 DEF Lifecycle!Cancel
  <2> QED  BY <2>5 DEF Lifecycle!Next
<1> QED  BY <1>2, <1>3 DEF Abandon

LEMMA RegenerateRefines ==
    ASSUME NEW kind \in RegenerateStages, NEW s \in Segments, Regenerate(kind, s)
    PROVE  Lifecycle!Next
<1>1. /\ state = "NEEDS_REVIEW" /\ state' = RestartState(kind)
      /\ kind = "lipsync" => LipSync
  BY DEF Regenerate
<1>2. state' \in TargetStages /\ state' \in Lifecycle!Restarts(It)
  BY <1>1, Scopes DEF RegenerateStages, RestartState, Lifecycle!Restarts
<1>3. Phase = "review"
  BY <1>1, Stages DEF Phase
<1>4. Lifecycle!SendBack(It, state')
  BY <1>2, <1>3, BecomesRunning DEF Lifecycle!SendBack
<1>5. state' \in Lifecycle!Stages
  BY <1>2 DEF TargetStages, Lifecycle!Stages
<1> QED  BY <1>4, <1>5 DEF Lifecycle!Next

LEMMA ApproveRefines ==
    ASSUME NEW S \in SUBSET Segments, Approve(S)
    PROVE  [Lifecycle!Next]_(Lifecycle!lifecycle)
<1>1. state = "NEEDS_REVIEW" /\ state' \in {state, "PACKAGING"}
  BY DEF Approve, StartPackaging
<1>2. CASE state' = state
  BY <1>2 DEF Phase, Lifecycle!lifecycle
<1>3. CASE state' = "PACKAGING"
  <2>1. Lifecycle!Become(It, "running", "PACKAGING", 1)
    BY <1>3, BecomesRunning, Stages
  <2>2. Phase = "review"
    BY <1>1, Stages DEF Phase
  <2> QED  BY <2>1, <2>2 DEF Lifecycle!Approve, Lifecycle!Next
<1> QED  BY <1>1, <1>2, <1>3

LEMMA NextRefines ==
    ASSUME Inv, [Next]_vars  PROVE [Lifecycle!Next]_(Lifecycle!lifecycle)
<1>1. CASE WorkerStep \/ Abandon
  BY <1>1, WorkerRefines, AbandonRefines
<1>2. CASE \E kind \in RegenerateStages, s \in Segments : Regenerate(kind, s)
  BY <1>2, RegenerateRefines
<1>3. CASE \E S \in SUBSET Segments : Approve(S)
  BY <1>3, ApproveRefines
<1>4. CASE UNCHANGED state
  BY <1>4 DEF Phase, Lifecycle!lifecycle
<1>5. ASSUME NEW s \in Segments, EditTranslation(s) \/ ResolveIssue(s)
      PROVE  UNCHANGED state
  BY <1>5 DEF EditTranslation, ResolveIssue
<1> QED  BY <1>1, <1>2, <1>3, <1>4, <1>5 DEF Next, ReviewerStep, vars

LEMMA InitRefines == Init => Lifecycle!Init
BY Stages DEF Init, Phase, Lifecycle!Init

\* The artefacts and their reviewers keep to the life cycle of the target,
\* for any transcript, edits and regenerations: the gate and the restarts are
\* steps of it, and no stage is skipped or repeated but by a reviewer.
THEOREM KeepsToLifecycle == Spec => ImplementsLifecycle
BY InitRefines, NextRefines, AlwaysInv, PTL
DEF Spec, ImplementsLifecycle, Lifecycle!Spec
==============================================================================
