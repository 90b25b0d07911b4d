SPECIFICATION Spec
CONSTANTS
    plain = plain
    torn = torn
    hard = hard
    Commits <- MCCommits
    Unparsable <- MCTorn
    Unembeddable <- MCHard
    Published = TRUE
    MaxLog = 1
    MaxEpoch = 3
    MaxRounds = 2
    MaxCrashes = 0
    MaxFaults = 0
CHECK_DEADLOCK FALSE
INVARIANTS
    InvalidateQuiesced
