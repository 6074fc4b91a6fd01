\* Two people, two subscriptions, two pages or handlers at a time.
SPECIFICATION Spec
CONSTANTS
    None = None
    Requests = {r1, r2}
    Emails = {e1, e2}
    Subs = {s1, s2}
    Accounts = {a1, a2}
    MaxSeats = 2
SYMMETRY Symmetry
INVARIANTS
    SeatsRespected
    SeatsArePaid
    PayersAreBosses
CHECK_DEADLOCK FALSE
