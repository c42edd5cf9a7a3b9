SPECIFICATION Spec
CONSTANTS
    RootRecs = 2
    EbRecs = 3
    Blocks <- ExtentBlocks
    NBlocks = 4
    Clusters = 5
    Volumes <- EmptyVolume
    MayCrash = FALSE
    MaxCalls = 2
PROPERTIES
    WrittenIsRead
CHECK_DEADLOCK FALSE
