\* Two sessions, two tables and two indexes in two files, with a store error and
\* the end of the process at any step.
SPECIFICATION Spec
CHECK_DEADLOCK FALSE
CONSTANTS
    s1 = s1
    s2 = s2
    IntBytes = 2
    Keys <- RawKeys
    Vals <- RawVals
    NoVal = NoVal
    Strategy = "hash"
    Files = 2
    Hash <- ByteHash
    RangeOf <- NoRange
    Sessions <- TwoSessions
    HashTable <- TableHash
    HashIndex <- IndexHash
    Schemas <- AllTables
    NewIndexes <- BothIndexes
    RowIds <- AllRowIds
    RowVals <- AllRowVals
    Bounds <- SomeBounds
    Loads <- RelLoads
INVARIANTS
    
    NoGhostEntry
    ScanOrder
PROPERTIES
    RowsAreMap
    StoreIsMap
    
