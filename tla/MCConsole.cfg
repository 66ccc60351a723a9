SPECIFICATION Spec
CONSTANTS
    Keys = {"a", "BS", "NL", "Tab"}
    Letters = {"a"}
    Symbols = {}
    BufSize = 3
    InputMax = 3
    MaxHistory = 1
    MaxPresses = 4
INVARIANTS
    BuffersSound
    PollUndisturbed
PROPERTIES
    ImplementsFifo
    KeysAreRead
