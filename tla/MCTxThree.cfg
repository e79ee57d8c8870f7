\* Three transactions on one key: begin, commit and trim orders.
SPECIFICATION Spec
CONSTANTS
    t1 = t1
    t2 = t2
    t3 = t3
    v1 = v1
    v2 = v2
    Txs <- ThreeTxs
    Keys = {1}
    Vals <- OneVal
    Isolations = {3}
    MaxEntries = 2
    MaxReads = 1
    LateUse = FALSE
SYMMETRY TxSymmetry
INVARIANTS
    TypeOK
    OngoingExact
    MinVerBelowOngoing
    ConflictWindow
PROPERTIES
    MinVerMonotone
    AdmittedUnread
CHECK_DEADLOCK FALSE
