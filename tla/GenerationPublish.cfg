CONSTANTS
    r1 = r1
    r2 = r2
    Reprs <- TwoReprs
    ConfigRepr = r1
    Hard <- HardFacts
    MaxHlc = 1
    MaxEpoch = 2
    MaxEvents = 2
SPECIFICATION PublishedSpec
CHECK_DEADLOCK FALSE
INVARIANT
    ManifestSound
PROPERTIES
    ImplementsPointer
    CommittedServed
