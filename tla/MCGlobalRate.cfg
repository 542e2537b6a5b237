\* Two reward workers: each has limiters of its own.
SPECIFICATION Spec
CONSTANTS
    Rows = 3
    Agents = 1
    Workers = {w1, w2}
    Cost <- MCCost
    Second = 2
    MaxConcurrent = 1
    PoolSize = 1
    Timeout = 1
    GenTimes = {0}
    Lag = 0
    ScoreKeys <- MCKeys
    None = None
INVARIANTS
    GlobalRate
