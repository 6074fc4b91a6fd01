\* Two subscriptions, three requests, two of them at a time, three periods.
SPECIFICATION Spec
CONSTANTS
    None = None
    Requests = {r1, r2, r3}
    Subs = {s1, s2}
    Workers = 2
    LastPeriod = 3
SYMMETRY Symmetry
INVARIANTS
    AccessGranted
    RowsLagBehind
    CopiesNeedOverlap
    
PROPERTIES
    OldestDecides
CHECK_DEADLOCK FALSE
