SPECIFICATION Spec
CONSTANTS
    m1 = m1
    m2 = m2
    a1 = a1
    a2 = a2
    Applications = {a1}
    Managers = {m1, m2}
    Replicas <- MCReplicas
    MaxEdits = 2
    Evictable = {a1}
    LeaderElect = FALSE
    MayCreatePods = TRUE
    MaxFaults = 1
SYMMETRY MCSymmetry
INVARIANTS
    TypeOK
    NoLostUpdate
    OneVersion
    PodsWereAsked
PROPERTIES
    AddsPodsOnly
CHECK_DEADLOCK FALSE
