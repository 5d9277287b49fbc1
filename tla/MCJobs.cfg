\* One row, two workers, two sweepers, a budget of two attempts.
CONSTANTS
    Jobs = {j1}
    Workers = {w1, w2}
    Sweepers = {s1, s2}
    NoJob = NoJob
    MaxAttempts <- MCBudget
    StaleAfter = 1
    OlderThan = 1
    Limit = 1
    Full = 2
    MaxMessages = 2
SPECIFICATION FairSpec
INVARIANTS
    TypeOK
    AttemptsWithinBudget
    OneOutcome
PROPERTIES
    ImplementsLifecycle
    EveryJobIsClosed
