\* PostgreSQL alone: two orders, two settlers, two withdrawals sharing correlation ids.
CONSTANTS
    o1 = o1
    o2 = o2
    Orders = {o1, o2}
    Settlers = {s1, s2}
    Withdrawers = {w1, w2}
    Correlations = {c1, c2}
    Price <- MCPrice
    Hold <- MCHold
    Amounts = {1, 2}
    Engines = {"postgres"}
    NoOne = NoOne
    NoRef = NoRef
    MaxEntries = 5
    MaxTime = 1
SYMMETRY Sym
SPECIFICATION Spec
INVARIANT HoldNeverDrained
CHECK_DEADLOCK FALSE
