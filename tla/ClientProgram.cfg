SPECIFICATION FairSpec
CONSTANTS
    g1 = g1
    g2 = g2
    n1 = n1
    n2 = n2
    None = None
    All = All
    Callers = {g1, g2}
    Namespaces = {n1, n2}
    MaxWrites = 2
    MaxBreaks = 1
INVARIANTS
    TypeOK
    OwnVersion
    OneBudget
    MirrorsServer
    OneIndexer
PROPERTIES
    CatchesUp
CHECK_DEADLOCK FALSE
