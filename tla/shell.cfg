SPECIFICATION Spec
CONSTANTS
    H = 3
    N = 3
    Chars <- MCChars
    Blank = " "
    Faces <- MCFaces
    Argc <- MCArgc
    Quit = "quit"
INVARIANTS
    TypeOK
    RecallIsFaithful
    SettingsAreKept
PROPERTY
    ImplementsEditor
CHECK_DEADLOCK FALSE
