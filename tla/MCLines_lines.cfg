SPECIFICATION Spec
CONSTANTS
    lineA = lineA
    lineB = lineB
    newline = newline
    Letters = {lineA, lineB}
    NL = newline
    MaxLines = 4
    MaxRow = 3
    MaxBytes = 5
    MaxNew = 2
    CellLimit = 12
CHECK_DEADLOCK FALSE
INVARIANTS
    MappingJustified
    RowsJustified
    RangesExact
