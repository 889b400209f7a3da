SPECIFICATION FairSpec
CONSTANTS
    MaxRotations = 2
    MaxFaults = 1
INVARIANTS
    TypeOK
    OwnOptions
PROPERTIES
    RotationReachesServers
    ComesUp
CHECK_DEADLOCK FALSE
