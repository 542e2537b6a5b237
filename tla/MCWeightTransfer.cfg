SPECIFICATION Spec
CONSTANTS
    Engines <- BothEngines
    Trainers = 2
    Rollouts = 3
    Sizes <- MixedSizes
    BucketSize = 2
    None = None
INVARIANTS
    WeightsIntact
    OfferedIsStable
    CleanFinish
PROPERTIES
    TransferEnds
CHECK_DEADLOCK FALSE
