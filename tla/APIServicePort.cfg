SPECIFICATION Spec
CONSTANTS
    s1 = s1
    t1 = t1
    t2 = t2
    b1 = b1
    b2 = b2
    k1 = k1
    k2 = k2
    NoPort = NoPort
    Unset = Unset
    Settings = {s1}
    Targets = {t1, t2}
    Ports = {0, 443}
    Bundles = {b1, b2}
    ConditionLists = {k1, k2}
    MaxDecoded = 1
    MaxEdited = 1
    MaxObjects = 3
SYMMETRY MCSymmetry
INVARIANT
    PortDefaults443
