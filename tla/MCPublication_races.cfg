SPECIFICATION Spec
CONSTANTS
    b1 = b1
    b2 = b2
    None = None
    Foreign = Foreign
    Branches = {b1, b2}
    MaxRuns = 2
    MaxRequests = 3
    MaxFaults = 2
    MaxCrashes = 1
    MaxForeign = 2
CHECK_DEADLOCK FALSE
SYMMETRY Symmetry
INVARIANTS
    TypeOK
    JournalAgrees
    OnlyOthersBlock
PROPERTIES
    PublishedAsReviewed
    PreviewSettles
