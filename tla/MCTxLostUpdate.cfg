\* Two serializable read-modify-write transactions on one key.
SPECIFICATION ObsSpec
CONSTANTS
    t1 = t1
    t2 = t2
    v1 = v1
    Txs <- TwoTxs
    Keys = {1}
    Vals <- OneVal
    Isolations = {3}
    MaxEntries = 2
    MaxReads = 1
    LateUse = FALSE
PROPERTIES
    NoLostUpdate
CHECK_DEADLOCK FALSE
