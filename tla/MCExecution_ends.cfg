SPECIFICATION StopSpec
CONSTANTS
    f1 = f1
    f2 = f2
    w1 = w1
    w2 = w2
    c0 = c0
    c1 = c1
    c2 = c2
    None = None
    Foreign = Foreign
    Files = {f1, f2}
    Workers = {w1, w2}
    Contents = {c0, c1}
    Baseline = c0
    MaxAttempts = 1
    MaxDiscards = 1
    MaxFaults = 1
    MaxCrashes = 0
    MaxEdits = 0
CHECK_DEADLOCK FALSE
PROPERTIES
    StopDrains
    OperationsEnd
