SPECIFICATION PointerSpec
CONSTANTS
    Bytes = {9, 56, 3, 244}
    Width = 8
    Height = 6
    MaxPackets = 3
INVARIANTS
    PointerSound
PROPERTIES
    CursorCatchesUp
