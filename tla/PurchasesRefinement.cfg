\* Two forms at a time, from an empty database, on a server that keeps going.
SPECIFICATION FairSpec
CONSTANTS
    None = None
    Requests = {r1, r2}
    Emails = {ana}
    Countries = {ES, GB}
    Workers = 2
INVARIANTS
    TypeOK
    
    
    
    
PROPERTIES
    
    RequestsEnd
CHECK_DEADLOCK FALSE
