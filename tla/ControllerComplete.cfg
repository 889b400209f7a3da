SPECIFICATION FairSpec
CONSTANTS
    m1 = m1
    m2 = m2
    a1 = a1
    a2 = a2
    Applications = {a1}
    Managers = {m1, m2}
    Replicas <- MCTwoReplicas
    MaxEdits = 2
    Evictable = {}
    LeaderElect = FALSE
    MayCreatePods = TRUE
    MaxFaults = 0
PROPERTIES
    StartedRunCompletes
CHECK_DEADLOCK FALSE
