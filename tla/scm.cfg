SPECIFICATION Spec
CONSTANTS
    Size = 10
    SizeInfo = 3
    AddrInfo = 2
    Lens = {1, 2}
    Word = 11
    MaxUsed = 10
    MaxKills = 1
INVARIANTS
    TypeOK
    ChunksTile
    LiveIsKept
    UtilizedUntilReuse
