SPECIFICATION MCSpec
CONSTANTS
    Parts = {"management", "query", "freeze", "dataset"}
    Sources = {s1, s2}
    Jobs = {1, 2}
    MaxRows = 1
    MaxEdits = 1
    MaxCrashes = 1
    Overlap = FALSE
    RowBound <- MCRowBound
    MaxArchiveRows = 11
    MaxPagedRows = 4
    MaxFrozenRows = 3
    MaxLabels = 1
    MaxLosses = 1
    MaxRestarts = 1
    PageSize = 1
SYMMETRY Same
INVARIANTS QueryExact
PROPERTIES RestoreSound DatasetSound
CHECK_DEADLOCK FALSE
