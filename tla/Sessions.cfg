SPECIFICATION FairSpec
CONSTANTS
    ann = ann
    o1 = o1
    o2 = o2
    Users = {ann}
    Founders <- OneFounder
    Orgs = {o1, o2}
    Tabs = {w1, w2}
    Instances = {i1, i2}
    MaxKeys = 2
    MaxSignIns = 1
    MaxMinutes = 1
    MaxFaults = 1
    None = None
CHECK_DEADLOCK FALSE
INVARIANTS
    ChosenSurvives
PROPERTIES
    NavigationsEnd
