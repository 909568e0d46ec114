SPECIFICATION FairSpec
CONSTANTS
    BlkSz <- MCBlkSz
    WCacheBlocks = 2
    RCacheBlocks = 2
    DeviceBlocks = 2
    MaxOff = 10
    AppendLens <- MCAppendLens
    ReadLens <- MCReadLens
    MaxSpurious = 1
    Faults = {"pread", "pwrite"}
    MayClose = TRUE
INVARIANTS
    TypeOK
    NoBlockLost
    ReadReturnsAppended
PROPERTIES
    ImplementsFifo
    AppendReturns
    QueuedReachesDevice
    CloseReturnsUnlessRacing
CHECK_DEADLOCK FALSE
