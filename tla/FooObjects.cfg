SPECIFICATION Spec
CONSTANTS
    n1 = n1
    nginx = nginx
    NoImage = NoImage
    BusyBox = BusyBox
    g1 = g1
    p1 = p1
    NoPhase = NoPhase
    k1 = k1
    k2 = k2
    Unset = Unset
    Names = {n1}
    Images = {NoImage, BusyBox}
    Configs = {g1}
    Phases = {NoPhase, p1}
    ConditionLists = {k1, k2}
    MaxCreated = 1
    MaxEdited = 3
    MaxFoos = 3
SYMMETRY MCSymmetry
INVARIANTS
    TypeOK
    Isolated
    ConversionsAgree
PROPERTIES
    OneFamilyChanges
