SPECIFICATION Spec
CONSTANTS
    TotalRolloutSteps = 8
    RequiredSamples = 2
    TriggerSteps = 1
    StalenessNum = 1
    StalenessDen = 2
    ServerSlots = 2
    PendingCapacity = 2
    MayFail = FALSE
    TestFreq = 2
INVARIANTS
    GenerationBudget
    SampleConservation
    ParkedOnlyWhilePaused
    NothingLeftBehind
PROPERTIES
    StaleCarryOver
    ContractSpec
