SPECIFICATION MCSpec
CONSTANTS
    Parts = {"session", "capture", "delivery", "server", "oracle", "trace"}
    Menus <- MCMenus
    ConfigFiles <- MCConfigs
    Window = 5
    Gamma = 2
    ContextLimit = 0
    Deadline = 2
    FatalFaults = {"db_corrupt"}
    OtherFaults = {"queue_full"}
    MaxSegments = 2
    MaxCommits = 2
    MaxConfirms = 2
    MaxPick = 2
    QueueLimit = 2
    BatchSize = 2
    MaxRetries = 1
    MaxReceipts = 1
    MaxLosses = 1
    MaxSequence = 3
    Requests <- MCRequests
    MaxRequests = 2
    MaxChanges = 3
    ProblemKeys <- MCKeys
    Canonical <- MCCanonical
    Texts <- MCTexts
    Simplified <- MCSimplified
    Directions <- MCDirections
    Cosine <- MCCosine
    Tau = 1
    KEvidence = 2
    Saturation = 2
    Queries <- MCQueries
    MaxFacts = 3
    Shapes <- MCShapes
    Commands = {"status", "annotate", "dismiss"}
    MaxTraced = 3
    MaxEvents = 2
    MaxTornRequests = 2
    MaxLines = 2
    MaxTraces = 1
    MaxApply = 2
    AlarmWindow = 2
    Limit = 2
INVARIANTS RerankSound ArchivedFaithfully AdapterVerified AnswersCurrent TraceHonest
PROPERTIES RecordingTrue OracleExact
CHECK_DEADLOCK FALSE
