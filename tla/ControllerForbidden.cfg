SPECIFICATION FairSpec
CONSTANTS
    m1 = m1
    m2 = m2
    a1 = a1
    a2 = a2
    Applications = {a1}
    Managers = {m1}
    Replicas <- MCTwoReplicas
    MaxEdits = 1
    Evictable = {}
    LeaderElect = TRUE
    MayCreatePods = FALSE
    MaxFaults = 0
PROPERTIES
    MovesCloser
CHECK_DEADLOCK FALSE
