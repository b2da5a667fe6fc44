SPECIFICATION FairSpec
CONSTANTS
    Request = {r1, r2}
    None = None
    Start = 1
    Inc = 2
    MaxGot = 2
    MaxDocs = 5
INVARIANTS
    TypeOK
    LockedViewIsFresh
PROPERTIES
    Implements
    RequestsEnd
