SPECIFICATION Spec
CONSTANTS
    t1 = t1
    j1 = j1
    Targets = {t1, t2}
    Jobs = {j1}
    JobOf <- OneJob
    LipSync <- WithLips
    Workers = {w1, w2}
    TaskIds = {k1, k2, k3, k4}
    MaxAttempts = 2
    MaxFaults = 2
    None = None
SYMMETRY Symmetric
INVARIANTS
    OneLiveTask
    QueueMatchesState
PROPERTIES
    OnlyTheOwnerMoves
    ImplementsLifecycle
