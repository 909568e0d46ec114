SPECIFICATION Spec
CONSTANTS
    k1 = k1
    k2 = k2
    k3 = k3
    k4 = k4
    NoKey = NoKey
    Keys <- MCKeys
    HashOf <- MCHashOf
    Vals = {1, 2}
    NoVal = 0
    Pad = 1
    MaxLog = 3
    MayFail = TRUE
INVARIANTS
    TypeOK
    WasteIsExact
    IndexIsSound
    ChainsAreComplete
PROPERTY
    ImplementsMap
