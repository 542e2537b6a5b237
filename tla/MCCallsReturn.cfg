SPECIFICATION Spec
CONSTANTS
    r1 = r1
    r2 = r2
    Requests = {r1, r2}
    ServerCount = 1
    CacheSize = 1
    ResponseLength = 2
    PromptSlack = 1
    MaxVersion = 2
    PartialRolloutOn = TRUE
PROPERTIES
    CallsReturn
