SPECIFICATION Spec
CONSTANTS
    Names = {"f"}
    MaxDepth = 3
    MaxOpen = 2
    Word = 4
    MaxSize = 2
    Chunks <- MCChunks
    RamfsFiles = {"f"}
INVARIANTS
    TreeSound
    DescriptorsInFile
PROPERTIES
    NothingLost
