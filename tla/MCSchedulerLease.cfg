\* Polls may be so late that the lease is lost; every call may raise.
CONSTANTS
    Replicas = {r1, r2, r3}
    NoOwner = NoOwner
    TTL = 3
    MaxStall = 2
    RenewErrors = 1
    AcquireErrors = 1
    MaxStops = 1
SPECIFICATION LeaseFairSpec
INVARIANTS
    LeaseTypeOK
    LoopHoldsLease
PROPERTIES
    PollerTakesOver
