\* SQLite: fail holds the write lock from its first UPDATE.
CONSTANTS
    Events = {e1, e2}
    Workers = {w1, w2, w3}
    NoEvent = NoEvent
    MaxAttempts = 2
    StaleAfter = 1
    BackoffBase = 1
    AtomicFail = TRUE
    MaxClaims = 4
SPECIFICATION FairSpec
INVARIANTS
    TypeOK
    EffectOnce
    WithinBudget
PROPERTIES
    EveryEventIsClosed
