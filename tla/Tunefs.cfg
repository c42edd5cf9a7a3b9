CONSTANTS
    Cpg = 8
    ChainCount = 2
    BackupAt = {13, 21}
    MaxSlots = 3
    MoreSlots = 4
    SubGroup = {1, 2, 3, 4, 5}
    LastEntry = {"inode_alloc", "truncate_log"}
    Device = 30
    File = {1, 2}
    Dir = {3, 4}
    Entry = {"a", "b", "c", "d"}
    Here = "here"
    There = "there"
    Session <- MCSession
    Volume <- MCVolume
    Stack = {"classic", "pcmk"}
SPECIFICATION Spec
INVARIANTS
    UnmarkedIsSound
    OfflineIsExclusive
    CompletedIsComplete
    NothingLost
CHECK_DEADLOCK FALSE
