SPECIFICATION FairSpec
CONSTANTS
    m1 = m1
    m2 = m2
    a1 = a1
    a2 = a2
    Applications = {a1}
    Managers = {m1, m2}
    Replicas <- MCNoneOrOne
    MaxEdits = 2
    Evictable = {}
    LeaderElect = TRUE
    MayCreatePods = FALSE
    MaxFaults = 2
PROPERTIES
    EditsArePickedUp
CHECK_DEADLOCK FALSE
