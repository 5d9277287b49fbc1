\* Redis store; copies of one id on a queue with a retry chain and on one with
\* a dead-letter queue, and the copy a replay publishes.
CONSTANTS
    Copies = {c1, c2, c3}
    Keys = {m1}
    KeyOf <- MCOneKey
    Consumers = {k1, k2}
    NoCopy = NoCopy
    MaxAttempts = 2
    Retried = {c1}
    RedisStore = TRUE
    LongTTL = TRUE
    MaxDeaths = 2
    MaxFaults = 2
SYMMETRY Symmetry
SPECIFICATION Spec
INVARIANTS
    TypeOK
    OneHandlerPerKey
    RepeatsAreExplained
    NoOrphanMark
    NeverLost
CHECK_DEADLOCK FALSE
