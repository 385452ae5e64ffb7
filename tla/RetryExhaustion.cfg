SPECIFICATION FairSpec
CONSTANTS
    t1 = t1
    j1 = j1
    Targets = {t1}
    Jobs = {j1}
    JobOf <- OneJob
    LipSync <- WithLips
    Workers = {w1, w2}
    TaskIds = {k1, k2}
    MaxAttempts = 3
    MaxFaults = 0
    None = None
PROPERTIES
    RetriesEnd
