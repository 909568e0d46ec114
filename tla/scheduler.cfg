SPECIFICATION FairSpec
CONSTANTS
    MaxJobs = 4
    MaxWork = 2
    MaxRounds = 2
    Creators = {"main", "run"}
    Alarms <- HarmlessAlarms
    Trims = FALSE
INVARIANTS
    TypeOK
    ListIsExact
    PrevIsPredecessor
    NoUndefined
PROPERTIES
    NoOvertaking
    ExecuteReturns
CHECK_DEADLOCK FALSE
