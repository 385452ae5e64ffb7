SPECIFICATION Spec
CONSTANTS
    s1 = s1
    s2 = s2
    s3 = s3
    ann = ann
    bob = bob
    Segments = {s1, s2, s3}
    SpeakerOf <- TwoSpeakers
    LipSync = TRUE
    Fits = {TRUE, FALSE}
    Edits = 1
    Rounds = 2
    None = None
CHECK_DEADLOCK FALSE
INVARIANTS
    OnlyApprovedPackaged
    MixIsCurrent
    SpokenAsTranslated
PROPERTIES
    ApprovalsPersist
    QaLeadsToReview
    ImplementsLifecycle
