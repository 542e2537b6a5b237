SPECIFICATION Spec
CONSTANTS
    TotalRolloutSteps = 5
    RequiredSamples = 1
    TriggerSteps = 2
    StalenessNum = 1
    StalenessDen = 1
    ServerSlots = 2
    PendingCapacity = 1
    MayFail = TRUE
    TestFreq = 2
INVARIANTS
    EndSignalNeverLost
PROPERTIES
    TrainingEnds
