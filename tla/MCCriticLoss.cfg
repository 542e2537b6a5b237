\* The weight of a token in the value loss.
SPECIFICATION Spec
CONSTANTS
    Prompts = 4
    N = 2
    Agents = 2
    Ranks = 2
    GroupSize = 2
    MiniBatch = 2
    Epochs = 2
    max_token_len = 7
    MicroBatchSize = 1
    Lengths <- MCLengths
    Scores <- MCScores
    Settings <- MCSettings
    PromptWindow = 1
    ResponseWindow = 4
    Magnitude = 75
    MinRatio = 10
    MaxRatio = 60
    TotalSteps = 10
    None = None
INVARIANTS
    ValueLossInvariant
