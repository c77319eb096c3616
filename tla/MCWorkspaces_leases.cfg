SPECIFICATION Spec
CONSTANTS
    p1 = p1
    p2 = p2
    w1 = w1
    w2 = w2
    r1 = r1
    v1 = v1
    v2 = v2
    None = None
    Procs = {p1, p2}
    Ids = {w1, w2}
    Rules = {r1}
    Revisions = {v1, v2}
    MaxOps = 6
    MaxFaults = 1
    MaxCrashes = 1
CHECK_DEADLOCK FALSE
SYMMETRY Symmetry
INVARIANTS
    TypeOK
    AuthorityHeld
PROPERTIES
    NoForeignOverwrite
    DeletedStays
    RulesFromLatest
