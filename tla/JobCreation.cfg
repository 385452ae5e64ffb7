SPECIFICATION Spec
CONSTANTS
    Tiers <- TwoLocales
    Selections <- TwoSelections
    Tabs = {w1, w2}
    w1 = w1
    w2 = w2
    Requests <- ThreeRequests
    Durations = {1, 2}
    Budget = 160
    MaxConcurrent = 2
    Strayers = {w1}
    MaxLost = 1
    None = None
CHECK_DEADLOCK FALSE
INVARIANTS
    OneJobPerKey
    ChargedAsShown
    WithinBudget
    WithinQuota
PROPERTIES
    ImplementsLedger
