\* Four requests, every kind of end, cancellations and an expiring response.
CONSTANTS
    Requests = {r1, r2, r3, r4}
    OddRequest = r4
    BodyA = BodyA
    BodyB = BodyB
    Bodies = {BodyA, BodyB}
    BodyOf <- MCBodyOf
    None = None
    Outcomes = {"ok", "server_error", "stream", "raises"}
    CacheServerErrors = FALSE
    MayExpire = TRUE
    MayFail = TRUE
SPECIFICATION FairSpec
INVARIANTS
    TypeOK
    NoLockLeak
    HandlerRunsOnce
PROPERTIES
    EveryRequestAnswered
CHECK_DEADLOCK FALSE
