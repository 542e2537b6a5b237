\* Three rows through one reward worker: both kinds of acquire, one permit, two
\* threads, timeouts, errors and abandoned threads beside scores under way.
SPECIFICATION Spec
CONSTANTS
    Rows = 3
    Agents = 1
    Workers = {w1}
    Cost <- MCCost
    Second = 2
    MaxConcurrent = 1
    PoolSize = 2
    Timeout = 1
    GenTimes <- MCGenTimes
    Lag = 1
    ScoreKeys <- MCKeys
    None = None
INVARIANTS
    RateBound
    BurstBound
    PermitsExact
    ExcessIsLate
PROPERTIES
    BatchAnswered
