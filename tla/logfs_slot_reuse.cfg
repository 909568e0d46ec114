SPECIFICATION Spec
CONSTANTS
    BlkSz <- MCBlkSz
    WCacheBlocks = 1
    RCacheBlocks = 1
    DeviceBlocks = 4
    MaxOff = 8
    AppendLens = {2, 4}
    ReadLens = {2}
    MaxSpurious = 0
    Faults = {}
    MayClose = FALSE
INVARIANT
    ReadIsRight
CHECK_DEADLOCK FALSE
