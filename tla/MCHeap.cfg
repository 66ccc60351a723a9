SPECIFICATION Spec
CONSTANTS
    Page = 24
    Header = 2
    MinBlock = 2
    Align = 2
    ObjectSizes = {6}
    MaxPages = 3
    Sizes = {5, 7, 12, 23}
INVARIANTS
    HeapSound
    AreasAccountedFor
PROPERTIES
    MemoryApart
CHECK_DEADLOCK FALSE
