\* A page kept open, beside a publication and everyone who writes the row.
SPECIFICATION Spec
CONSTANTS
    Stories  = {s1, s2}
    Pages    = {p1}
    Mailings = {m1}
    Grace    = 1
    Month    = 3
    Period   = 1
    LastTime = 4
    None     = None
SYMMETRY Symmetry
INVARIANTS
    FullTextWasDue
PROPERTIES
    EntitledAreMailed
    EarlyChoiceFromOldPage
CHECK_DEADLOCK FALSE
