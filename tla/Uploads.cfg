SPECIFICATION FairSpec
CONSTANTS
    c1 = c1
    f1 = f1
    f2 = f2
    w1 = w1
    UploadIds = {u1, u2}
    Parts = {1, 2}
    Files = {f1, f2}
    MaxFaults = 1
    Clients = {c1, c2}
    FileOf <- TwoFiles
    WorkersOf <- OneIsPlain
    Workers = {w1, w2}
    Tries = 2
    Restless = {c2}
    None = None
CHECK_DEADLOCK FALSE
INVARIANTS
    ProcessedIsWhole
    ProgressIsStored
    CancelIsTrue
PROPERTIES
    NoForeignParts
    ImplementsOutcome
    UploadEnds
