SPECIFICATION Spec
CONSTANTS
    f1 = f1
    f2 = f2
    Files = {f1}
    MaxRuns = 2
    MaxAttempts = 2
    MaxTurns = 2
    MaxWrites = 2
    MaxFaults = 1
    MaxCrashes = 1
CHECK_DEADLOCK FALSE
INVARIANTS
    EvidenceOfTheRun
    BooksAgree
PROPERTIES
    FinishedKept
