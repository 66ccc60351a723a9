SPECIFICATION Spec
CONSTANTS
    Procs = {p1, p2}
    Kernel = Kernel
PROPERTY
    ReadyRuns
