SPECIFICATION Spec
CONSTANTS
    Procs = {p1, p2, p3}
    Kernel = Kernel
INVARIANTS
    AcksSound
PROPERTIES
    IdleIsTicked
