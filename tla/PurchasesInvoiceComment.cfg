\* One recurring subscription is enough.
SPECIFICATION Spec
CONSTANTS
    None = None
    Requests = {r1, r2}
    Emails = {ana}
    Countries = {ES, GB}
    Workers = 1
SYMMETRY Symmetry
INVARIANTS
    InvoiceIsOfItsSubscription
CHECK_DEADLOCK FALSE
