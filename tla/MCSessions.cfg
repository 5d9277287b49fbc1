\* Two sessions of a user, two concurrent requests, one call cut short.
CONSTANTS
    Ids = {s1, s2}
    Clients = {p1, p2}
    TTL = 2
    None = None
    MaxCrashes = 1
SYMMETRY Sym
SPECIFICATION Spec
INVARIANTS
    TypeOK
    RevokedStaysRevoked
    RevokeAllReaches
CHECK_DEADLOCK FALSE
