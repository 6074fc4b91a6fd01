\* A declined form, then one whose new card is refused too.
SPECIFICATION Spec
CONSTANTS
    None = None
    Requests = {r1, r2}
    Emails = {ana}
    Countries = {ES, GB}
    Workers = 1
SYMMETRY Symmetry
INVARIANTS
    NowHasACreditCard
CHECK_DEADLOCK FALSE
