\* Two requests at a time, a row of the office's, and one turn of the year.
SPECIFICATION Spec
CONSTANTS
    None = None
    Requests = {r1, r2, r3}
    Extras = {x1}
    Workers = 2
    LastYear = 2
SYMMETRY Symmetry
INVARIANTS
    TypeOK
    SharedByOverlapOnly
    GapsArePaidFor
PROPERTIES
    NumbersGrow
CHECK_DEADLOCK FALSE
