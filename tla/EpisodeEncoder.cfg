SPECIFICATION FairSpec
CONSTANTS
    e1 = e1
    Keys = {k1}
    Episodes = {e1}
    EpisodeOf <- OneId
    MaxExecutions = 2
    Targets <- TwoTargets
    Spoken = {"es", "fr"}
    Translations <- OneText
    ChunkSize = 2
    MaxParts = 2
    MaxUploads = 2
    MaxInvokes = 2
    MaxFaults = 1
    None = None
CHECK_DEADLOCK FALSE
INVARIANTS
    PublishedIsNewest
    AudioIsThere
PROPERTIES
    EncodingEnds
