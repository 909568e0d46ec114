SPECIFICATION Spec
CONSTANTS
    Words <- MCWords
    MaxCount <- MCMaxCount
    WordLen <- MCWordLen
    NodeLen = 5
    StateLen = 3
    Wrap = 64
    MaxStrings = 3
    MaxKills = 0
INVARIANT
    OpensAgain
CHECK_DEADLOCK FALSE
