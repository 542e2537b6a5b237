SPECIFICATION Spec
CONSTANTS
    Engines <- Nixl
    Trainers = 2
    Rollouts = 1
    Sizes <- MixedSizes
    BucketSize = 2
    None = None
INVARIANTS
    GroupBuilt
CHECK_DEADLOCK FALSE
