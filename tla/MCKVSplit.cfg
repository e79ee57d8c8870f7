\* A leaf for each key: the calls after the first split.
SPECIFICATION Spec
CONSTANTS
    v1 = v1
    v2 = v2
    Keys = {1, 2}
    Missing = ""
    SyncModes = {0, 1, 2}
    VBytes <- LargeBytes
    TreeInsert <- BInsert
    TreeDelete <- BDelete
    TreeContents <- BContents
    OSPages = 4
    FREE_LIST_CAP = 9
    Loads <- NoCrash
INVARIANTS
    ReadsAllowed
