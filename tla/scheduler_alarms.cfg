SPECIFICATION Spec
CONSTANTS
    MaxJobs = 3
    MaxWork = 2
    MaxRounds = 2
    Creators = {"main"}
    Alarms <- AllAlarms
    Trims = TRUE
INVARIANTS
    ReturnsAfterAll
CHECK_DEADLOCK FALSE
