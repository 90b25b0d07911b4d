\* The append of the first batch fails halfway, the second batch goes behind it.
SPECIFICATION CollectorSpec
CONSTANTS
    update = update
    commit = commit
    notice = notice
    NoId = NoId
    Observations <- MCObservations
    QueueCount = 2
    BatchSize = 1
    CapacityCells = 2
    PageCells = 1
    Faults = {"torn", "crash"}
    MaxAdmissions = 2
    Wanted = {"enabled"}
    MaxPolicies = 1
    MaxStorageFaults = 2
    MaxStarts = 2
INVARIANT
    PublishedPrefixKept
CHECK_DEADLOCK FALSE
