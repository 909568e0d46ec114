SPECIFICATION Spec
CONSTANTS
    Words <- MCWords
    MaxCount <- MCMaxCount
    MaxLevels = 6
INVARIANTS
    TypeOK
    ListIsExact
    IsBalanced
PROPERTY
    ImplementsBag
