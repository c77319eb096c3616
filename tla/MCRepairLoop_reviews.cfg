SPECIFICATION Spec
CONSTANTS
    a = a
    b = b
    e1 = e1
    e2 = e2
    None = None
    Provs = {a, b}
    Edits = {e1, e2}
    MaxSent = 6
    MaxTries = 1
    MaxRev = 2
    MaxAsked = 1
    MaxFaults = 0
    MaxCrashes = 1
CHECK_DEADLOCK FALSE
SYMMETRY Symmetry
INVARIANTS
    TypeOK
    ReviewedAsAdopted
PROPERTIES
    NoSkipAfterDemand
