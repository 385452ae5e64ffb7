SPECIFICATION Spec
CONSTANTS
    Reviewers = {ann}
    Others = {bob}
    OthersAsk = {"approveAll", "regenerate", "save"}
    N = 2
    MaxVersions = 2
    MaxRegens = 1
    MaxRequests = 1
    MaxReads = 1
    MaxFaults = 1
    Critical = {2}
    None = None
CHECK_DEADLOCK FALSE
INVARIANTS
    DraftIsOfTheSelected
PROPERTIES
    ApprovedAsSeen
