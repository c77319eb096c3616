SPECIFICATION Spec
CONSTANTS
    A = A
    B = B
    f = f
    g = g
    Order <- InOrder
    Uses <- Parts
    Files = {g}
    Contents = {0, 1}
    Blank = 0
    None = None
    MaxIterations = 2
    MaxStarts = 2
    MaxSent = 4
    MaxFaults = 1
    MaxCrashes = 1
CHECK_DEADLOCK FALSE
INVARIANTS
    TypeOK
    LedgerSettled
    AccountedOnce
    CompletedStillBuild
    AdoptedAsApproved
