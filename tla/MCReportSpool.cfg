SPECIFICATION FairSpec
CONSTANTS
    c1 = c1
    c2 = c2
    c3 = c3
    u1 = u1
    u2 = u2
    None = None
    Client = {c1, c2, c3}
    User = {u1, u2}
    UserOf <- ThreeClients
    MaxReports = 2
INVARIANTS
    TypeOK
    OwnReport
    TakenOnce
    WholeReport
    WorkerFindsEntry
PROPERTY
    TakenInTheEnd
