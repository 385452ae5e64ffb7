SPECIFICATION FairSpec
CONSTANTS
    Targets = {t1, t2}
    Reviewed = t1
    Screens = {"processing", "review"}
    MaxChanges = 2
    MaxEdits = 1
    MaxFaults = 1
    MaxFetches = 2
    None = None
    Ready = Ready
CHECK_DEADLOCK FALSE
INVARIANTS
    LogHasNoHoles
PROPERTIES
    ScreenCatchesUp
