\* Retry chain, memory store, no consumer dies: the budget as the code keeps it.
CONSTANTS
    Copies = {c1}
    Keys = {m1}
    KeyOf <- MCOneKey
    Consumers = {k1}
    NoCopy = NoCopy
    MaxAttempts = 2
    Retried = {c1}
    RedisStore = FALSE
    LongTTL = TRUE
    MaxDeaths = 4
    MaxFaults = 0
SPECIFICATION Spec
INVARIANTS
    RunsWithinBudget
CHECK_DEADLOCK FALSE
