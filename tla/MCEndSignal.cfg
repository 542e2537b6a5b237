SPECIFICATION Spec
CONSTANTS
    TotalRolloutSteps = 3
    RequiredSamples = 1
    TriggerSteps = 1
    StalenessNum = 1
    StalenessDen = 1
    ServerSlots = 2
    PendingCapacity = 2
    MayFail = TRUE
    TestFreq = 2
INVARIANTS
    EndSignalNeverLost
