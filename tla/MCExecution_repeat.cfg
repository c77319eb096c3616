SPECIFICATION Spec
CONSTANTS
    f1 = f1
    f2 = f2
    w1 = w1
    w2 = w2
    c0 = c0
    c1 = c1
    c2 = c2
    None = None
    Foreign = Foreign
    Files = {f1}
    Workers = {w1}
    Contents = {c0, c1, c2}
    Baseline = c0
    MaxAttempts = 2
    MaxDiscards = 2
    MaxFaults = 2
    MaxCrashes = 2
    MaxEdits = 1
CHECK_DEADLOCK FALSE
INVARIANTS
    CommittedOnce
PROPERTIES
    ForeignEditsSurvive
