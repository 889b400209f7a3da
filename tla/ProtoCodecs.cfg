SPECIFICATION FairSpec
CONSTANTS
    Nil = Nil
    Word <- MCWord
    Word32 <- MCWord32
    Externals <- MCExternals
    Inputs <- MCInputs
INVARIANTS
    TypeOK
    InBounds
    ReadsBack
    SkipsUnknown
    SizeExact
PROPERTIES
    Returns
