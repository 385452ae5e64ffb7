SPECIFICATION FairSpec
CONSTANTS
    t1 = t1
    j1 = j1
    Targets = {t1}
    Jobs = {j1}
    JobOf <- OneJob
    LipSync <- WithLips
    Workers = {w1, w2}
    TaskIds = {k1, k2, k3}
    MaxAttempts = 2
    MaxFaults = 1
    None = None
PROPERTIES
    CancelCompletes
    RetriesEnd
