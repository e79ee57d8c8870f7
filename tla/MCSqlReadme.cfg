\* UPDATE and DELETE as the documentation lists them.
SPECIFICATION SqlSpec
CHECK_DEADLOCK FALSE
CONSTANTS
    s1 = s1
    s2 = s2
    IntBytes = 2
    MaxInt = 32767
    Keys <- NoSet
    Vals <- NoSet
    NoVal = NoVal
    Strategy = "single"
    Files = 1
    Hash <- NoHash
    RangeOf <- NoHash
    Sessions <- BothSessions
    HashTable <- TableHash
    HashIndex <- IndexHash
    Schemas <- NoSet
    NewIndexes <- NoSet
    RowIds <- NoSet
    RowVals <- NoSet
    Bounds <- NoSet
    Spelling <- NameBytes
    Written <- NoSet
    Loads <- ReadmeLoad
INVARIANTS
    StatementsReturn
