SPECIFICATION SeamFairSpec
CONSTANTS
    Clients = {c1, c2}
    Unreadable = {c2}
    Readers = {r1}
    MaxRequests = 1
    MaxSeamCrashes = 1
    MaxSeamFaults = 1
    Closing = TRUE
INVARIANTS EpochProven
PROPERTIES ReplacedInQuiet SeamProgress
CHECK_DEADLOCK FALSE
