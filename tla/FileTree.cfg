SPECIFICATION Spec
CONSTANTS
    RootRecs = 2
    EbRecs = 3
    Blocks <- ExtentBlocks
    NBlocks = 4
    Clusters = 6
    Volumes <- AllVolumes
    MayCrash = TRUE
    MaxCalls = 3
INVARIANTS
    NoAlarm
    TreeSound
    Accounted
    TornKeepsFile
PROPERTIES
    Implements
CHECK_DEADLOCK FALSE
