SPECIFICATION MCSpec
CONSTANTS
    Parts = {"operations", "store"}
    c1 = c1  r1 = r1  m1 = m1  b1 = b1  b2 = b2  u1 = u1  n1 = n1
    pIn = pIn  pOut = pOut  NoOp = NoOp
    p1 = p1  p2 = p2  f1 = f1
    Ops = {c1, r1, m1, b1, b2, u1, n1}
    Kind <- MCKind
    Mode <- MCMode
    Keeps <- MCKeeps
    From <- MCFrom
    Output <- MCOutput
    Paths <- MCPaths
    StartPath = pIn
    StartWhole = {TRUE, FALSE}
    StartKinds = {"ok", "old", "bad", "none"}
    Reinterprets = FALSE
    MaxOps = 2
    MaxFacts = 2
    MaxCrashes = 1
    MaxRetries = 1
    Procs = {p1, p2}
    Files = {f1}
    SchemaNow = 1
    FormatNow = 1
    Recodes = TRUE
    Steps <- MCSteps
    StartStores <- MCStart
    MaxWall = 1
    MaxStored = 3
    MaxBatch = 2
    MaxIds = 14
    MaxSnapshots = 1
SYMMETRY Same
PROPERTIES ReplacementSafe OwnPublicationKnown FactsKept
CHECK_DEADLOCK FALSE
