SPECIFICATION MCSpec
CONSTANTS
    plain = plain
    torn = torn
    hard = hard
    Commits <- MCCommits
    Unparsable <- MCTorn
    Unembeddable <- MCHard
    Published = TRUE
    MaxLog = 3
    MaxEpoch = 2
    MaxRounds = 1
    MaxCrashes = 1
    MaxFaults = 1
    update = update
    commit = commit
    notice = notice
    NoId = NoId
    Observations <- MCContent
    QueueCount = 2
    BatchSize = 1
    CapacityCells = 2
    PageCells = 1
    Faults = {"append", "watermark", "policy", "crash"}
    MaxAdmissions = 3
    Wanted = {"enabled"}
    MaxPolicies = 1
    MaxStorageFaults = 1
    MaxStarts = 2
CHECK_DEADLOCK FALSE
INVARIANTS
    ServedExact
    CheckpointSound
    AdmittedAccounted
PROPERTIES
    CatchesUp
    CheckpointConcludes
