SPECIFICATION Spec
CONSTANTS
    Missing = Missing
    Partial = Partial
    Torn = Torn
    None = None
    Configs <- SingleCheckpoint
    StepsPerEpoch = 2
    MaxLaunches = 3
    MaxSteps = 7
    TornWrites = FALSE
INVARIANTS
    KeptUntilSaved
CHECK_DEADLOCK FALSE
