SPECIFICATION Spec
CONSTANTS
    Fanout = 16
    BootTables <- MCBootTables
    Memories <- MCMemories
    HeapPages = {256, 257}
    ImagePages <- MCImagePages
    Garbage = 6
    HeaderSize = 2
    DescSize = 1
    Images <- MCImages
INVARIANTS
    TablesSound
    PagesAccounted
    ImageFaithful
PROPERTIES
    ImplementsAddressSpace
CHECK_DEADLOCK FALSE
