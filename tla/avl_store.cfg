SPECIFICATION Spec
CONSTANTS
    Words <- MCWords
    MaxCount <- MCMaxCount
    WordLen <- MCWordLen
    NodeLen = 5
    StateLen = 3
    Wrap = 64
    MaxStrings = 4
    MaxKills = 1
INVARIANTS
    TypeOK
    HeapIsExact
    LeaksAreHarmless
PROPERTIES
    KilledCallsKeepWords
    ImplementsAvl
CHECK_DEADLOCK FALSE
