\* Two relays over three events, batches of two, an interrupted drain.
CONSTANTS
    Events = {e1, e2, e3}
    Relays = {r1, r2}
    MaxAttempts = 2
    BatchSize = 2
    BackoffBase = 1
    MaxInterrupts = 1
SPECIFICATION FairSpec
INVARIANTS
    TypeOK
    NoLostNoPhantom
    DuplicatesAreExplained
PROPERTIES
    EveryEventSettles
CHECK_DEADLOCK FALSE
