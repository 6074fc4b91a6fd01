SPECIFICATION Spec
CONSTANTS
    r1 = r1
    r2 = r2
    f1 = f1
    f2 = f2
    a1 = a1
    a2 = a2
    i1 = i1
    Requests = {r1, r2}
    Feeds = {f1, f2}
    Urls = {a1, a2}
    Items = {i1}
    None = None
SYMMETRY Symmetry
INVARIANTS
    TypeOK
    HubKnowsAddress
    
    EntriesOnce
    EntriesGoWithFeed
CHECK_DEADLOCK FALSE
