SPECIFICATION FairSpec
CONSTANTS
    Assets = {a1, a2, a3}
    Jobs = {j1}
    MaxAttempts = 3
    None = None
CHECK_DEADLOCK FALSE
INVARIANTS
    SourcesAreUsable
    OneTranscriptPerAsset
    JobsKeepTheirSource
PROPERTIES
    UploadsAreSettled
