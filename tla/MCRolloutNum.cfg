SPECIFICATION Spec
CONSTANTS
    TotalRolloutSteps = 6
    RequiredSamples = 2
    TriggerSteps = 1
    StalenessNum = 1
    StalenessDen = 2
    ServerSlots = 1
    PendingCapacity = 2
    MayFail = FALSE
    TestFreq = 2
INVARIANTS
    RolloutNum
