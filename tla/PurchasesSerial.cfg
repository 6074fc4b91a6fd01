\* Three forms, one at a time: what a failed one leaves behind.
SPECIFICATION Spec
CONSTANTS
    None = None
    Requests = {r1, r2, r3}
    Emails = {ana}
    Countries = {ES, GB}
    Workers = 1
SYMMETRY Symmetry
INVARIANTS
    RowNamesPayer
    OrphansOnlyByFailure
    MailedUsersAreSetUp
PROPERTIES
    PaidAccessKept
CHECK_DEADLOCK FALSE
