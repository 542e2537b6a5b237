SPECIFICATION Spec
CONSTANTS
    Missing = Missing
    Partial = Partial
    Torn = Torn
    None = None
    Configs <- SafeConfigs
    StepsPerEpoch = 2
    MaxLaunches = 3
    MaxSteps = 7
    TornWrites = FALSE
INVARIANTS
    AwakeToGenerate
    MemoryExclusive
    OffPolicyBound
    Recoverable
    ResumeExact
PROPERTIES
    FinalModelSaved
CHECK_DEADLOCK FALSE
