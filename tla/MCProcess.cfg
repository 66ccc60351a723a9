SPECIFICATION Spec
CONSTANTS
    MaxProcs = 4
    NumPages = 9
    StackPages = 2
    Holes = {4}
INVARIANTS
    QueueSound
    StacksOwned
    WaitBounded
PROPERTIES
    ImplementsRoundRobin
CHECK_DEADLOCK FALSE
