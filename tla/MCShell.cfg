SPECIFICATION Spec
CONSTANTS
    Letters <- MCLetters
    Digits <- MCDigits
    MaxVars = 6
    MaxAliases = 2
    MaxNest = 2
    MaxFrees = 3
    MaxBuiltins = 27
    Registrations <- MCRegistrations
    InitVars <- MCInitVars
    Files <- MCFiles
    Dirs <- MCDirs
    Lines <- MCLines
INVARIANTS
    TablesSound
    RunsInOrder
    ShortCircuits
    AssignmentsKept
    EchoFaithful
CHECK_DEADLOCK FALSE
