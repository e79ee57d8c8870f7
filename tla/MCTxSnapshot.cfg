\* Reads of a snapshot-isolated transaction while another one commits.
SPECIFICATION Spec
CONSTANTS
    t1 = t1
    t2 = t2
    t3 = t3
    v1 = v1
    v2 = v2
    Txs <- TwoTxs
    Keys = {1, 2}
    Vals <- OneVal
    Isolations = {2}
    MaxEntries = 2
    MaxReads = 1
    LateUse = FALSE
INVARIANTS
    SnapshotReads
CHECK_DEADLOCK FALSE
