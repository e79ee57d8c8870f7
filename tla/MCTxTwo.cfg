\* Two transactions on two keys: partial commits, failures, late use.
SPECIFICATION FairSpec
CONSTANTS
    t1 = t1
    t2 = t2
    t3 = t3
    v1 = v1
    v2 = v2
    Txs <- TwoTxs
    Keys = {1, 2}
    Vals <- OneVal
    Isolations = {0}
    MaxEntries = 2
    MaxReads = 0
    LateUse = TRUE
PROPERTIES
    CommitComplete
    CommitReturns
