SPECIFICATION FairSpec
CONSTANTS
    r1 = r1
    r2 = r2
    r3 = r3
    t1 = t1
    t2 = t2
    t3 = t3
    t4 = t4
    Requests = {r1, r2}
    Tokens = {t1, t2, t3, t4}
    MaxAttempts = 2
INVARIANTS
    TypeOK
    
    

    
