\* clear and restore: preflight, waiting-for-quiesce, staging, publishing
\* (irreversible), reopening (compensation), cleanup.
SPECIFICATION MCSpec
CONSTANTS
    Parts = {"engine", "rebuild", "seam", "recorder", "daemon"}
    r1 = r1  r2 = r2  c1 = c1  p1 = p1  p2 = p2
    NPhases = 6
    Irreversible = 4
    CancelPhase = 5
    Runners = {r1, r2}
    Registered = {r1, r2}
    Cancellers = {c1}
    Params = {p1}
    MaxCrashes = 1
    MaxProgress = 1
    MaxRetries = 1
    SupportedFormats <- MCFormats
    Converters <- MCConverters
    Fingerprints <- MCFingerprints
    Rebuilds = {"o1"}
    Modes = {"auto", "full", "index_only"}
    Restarts = {FALSE, TRUE}
    Reps = {"r1", "r2"}
    FirstRep = "r1"
    OldLayers = {"index"}
    Sidecars = {"empty", "real"}
    PublishSeam = TRUE
    RebuildEpochs = 2
    RebuildClock = 1
    MaxUpsets = 2
    MaxReruns = 1
    Tools = {"t1", "t2", "t3"}
    Pids = {"p1", "p2"}
    ToolCommands = {"start", "stop", "health", "verify"}
    Clients = {"c1"}
    Unreadable = {}
    Readers = {"o1", "o2"}
    MaxRequests = 1
    MaxSeamCrashes = 2
    MaxSeamFaults = 2
    Closing = TRUE
    Procs = {i1, i2}
    MaxBatches = 1
    MaxBytes = 1
    MaxItems = 1
    MaxIoFaults = 1
    MaxProcessCrashes = 1
    MaxLeases = 0
    LateSubmit = FALSE
    Reading = TRUE
SYMMETRY ActorSymmetry
INVARIANTS CancelHonoured StepOwnsRecord NoPhaseSkipped PlansAreSound StoreComplete EvidenceHonest VerifyLeavesNothing SnapshotsAreHonest
PROPERTIES ImplementsContract RebuildSound
CHECK_DEADLOCK FALSE
