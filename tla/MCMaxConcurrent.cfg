\* One permit and two threads: a row is scored while the thread of one that
\* timed out still waits for its answer.
SPECIFICATION Spec
CONSTANTS
    Rows = 2
    Agents = 1
    Workers = {w1}
    Cost <- MCCost
    Second = 2
    MaxConcurrent = 1
    PoolSize = 2
    Timeout = 1
    GenTimes = {0}
    Lag = 0
    ScoreKeys <- MCKeys
    None = None
INVARIANTS
    MaxConcurrentRequests
