SPECIFICATION Spec
CONSTANTS
    PageSize = 2
    MaxPhysPages = 14
    MemStart = 4
    BitmapBase = 9
    BitmapBytes = 2
    MemMap <- MCMemMap
INVARIANTS
    TypeOK
    HeldPagesSafe
    Accounting
    FreeCountCovers
