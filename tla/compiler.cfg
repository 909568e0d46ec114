SPECIFICATION Spec
CONSTANTS
    Arguments <- MCArguments
    OldCode <- MCOldCode
INVARIANTS
    TypeOK
    ParsesAsWritten
    AnswerIsRight
    LeavesNoFile
CHECK_DEADLOCK FALSE
