SPECIFICATION Spec
CONSTANTS
    Missing = Missing
    Partial = Partial
    Torn = Torn
    None = None
    Configs <- OneStepOff
    StepsPerEpoch = 2
    MaxLaunches = 3
    MaxSteps = 7
    TornWrites = FALSE
PROPERTIES
    ResumedJobEnds
CHECK_DEADLOCK FALSE
