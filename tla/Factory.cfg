SPECIFICATION FairSpec
CONSTANTS
    c1 = c1
    c2 = c2
    t1 = t1
    t2 = t2
    s1 = s1
    None = None
    Callers = {c1, c2}
    Types = {t1, t2}
    Channels = {s1}
INVARIANTS
    TypeOK
    NoneAfterShutdown
    OneInformer
    SyncAnswers
PROPERTIES
    NoAddAfterShutdown
    KeepsLifecycle
    CallsReturn
