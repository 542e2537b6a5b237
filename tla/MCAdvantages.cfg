\* Every choice of forking tokens in two groups, one of them of one response.
SPECIFICATION Spec
CONSTANTS
    Uid <- MCUid
    MaxLength = 4
    Scores = {0, 1}
    Ratios = {0, 40, 75}
    Estimators <- MCEstimators
    Gamma = 2
    Lam = 3
    Value <- MCValue
    Penalty <- MCPenalty
    Energy <- MCEnergy
INVARIANTS
    MaskedTokensInvisible
    GroupCentred
CHECK_DEADLOCK FALSE
