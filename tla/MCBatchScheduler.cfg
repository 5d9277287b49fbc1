\* Three calls, batches of two, two cancellations of the worker.
CONSTANTS
    Calls = {c1, c2, c3}
    MaxBatch = 2
    MaxCancels = 2
SPECIFICATION FairSpec
INVARIANTS
    TypeOK
    OwnResult
    NoStrandedCaller
PROPERTIES
    EveryCallEnds
CHECK_DEADLOCK FALSE
