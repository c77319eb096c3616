SPECIFICATION Spec
CONSTANTS
    a = a
    b = b
    e1 = e1
    e2 = e2
    None = None
    Provs = {a, b}
    Edits = {e1, e2}
    MaxSent = 4
    MaxTries = 3
    MaxRev = 1
    MaxAsked = 2
    MaxFaults = 2
    MaxCrashes = 1
CHECK_DEADLOCK FALSE
SYMMETRY Symmetry
INVARIANTS
    UsageCounted
