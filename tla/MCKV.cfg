\* Two keys in one leaf, all sync modes: two crashes at any step and no I/O
\* error, or two I/O errors at any step of a call and one crash.
SPECIFICATION Spec
CONSTANTS
    v1 = v1
    v2 = v2
    Keys = {1, 2}
    Missing = ""
    SyncModes = {0, 1, 2}
    VBytes <- SmallBytes
    TreeInsert <- BInsert
    TreeDelete <- BDelete
    TreeContents <- BContents
    OSPages = 4
    FREE_LIST_CAP = 9
    Loads <- CrashesOrErrors
INVARIANTS
    CrashSafe
    
    FailStop
    CommitOrder

    
