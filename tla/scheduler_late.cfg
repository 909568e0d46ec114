SPECIFICATION FairSpec
CONSTANTS
    MaxJobs = 3
    MaxWork = 1
    MaxRounds = 1
    Creators = {"main"}
    Alarms = {"run", "l116"}
    Trims = FALSE
PROPERTY
    ExecuteReturns
CHECK_DEADLOCK FALSE
