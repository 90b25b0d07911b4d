\* rebuild: preflight, staging, publishing (irreversible), cleanup; cancelled
\* without compensation. One runner's registry lacks the type.
SPECIFICATION MCSpec
CONSTANTS
    Parts = {"engine", "shells", "recorder"}
    r1 = r1  r2 = r2  c1 = c1  p1 = p1  p2 = p2
    NPhases = 4
    Irreversible = 3
    CancelPhase = 0
    Runners = {r1, r2}
    Registered = {r1}
    Cancellers = {c1}
    Params = {p1, p2}
    MaxCrashes = 1
    MaxProgress = 0
    MaxRetries = 1
    Shells = {"s1", "s2"}
    Typed <- MCTyped
    MaxContent = 2
    MaxDeaths = 1
    Procs = {i1}
    MaxBatches = 1
    MaxBytes = 1
    MaxItems = 2
    MaxIoFaults = 1
    MaxProcessCrashes = 1
    MaxLeases = 1
    LateSubmit = TRUE
    Reading = FALSE
INVARIANTS CancelNeverOverwritten
PROPERTIES OperationSettles ReplacesWhatWasAgreed OutcomeNotMissed WatchEnds RecorderProgress
CHECK_DEADLOCK FALSE
