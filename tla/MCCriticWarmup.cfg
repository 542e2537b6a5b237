SPECIFICATION Spec
CONSTANTS
    Missing = Missing
    Partial = Partial
    Torn = Torn
    None = None
    Configs <- CriticWarmup
    StepsPerEpoch = 2
    MaxLaunches = 3
    MaxSteps = 7
    TornWrites = FALSE
INVARIANTS
    AwakeToGenerate
CHECK_DEADLOCK FALSE
