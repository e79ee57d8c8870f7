\* Both modes, with both time limits; a panic ends the server.
SPECIFICATION Spec
CONSTANTS
    s1 = s1
    s2 = s2
    s3 = s3
    Sessions <- ThreeSessions
    NoSession = NoSession
    MinConns = 1
    MaxConns = 2
    Modes = {0, 1}
    Ages = {"idle", "expired"}
    MaxCreated = 4
SYMMETRY SessionSymmetry
INVARIANTS
    Exclusive
    RefusesOnlyWhenFull
    CleanHandover
PROPERTIES
    PanicsOnlyExpired
CHECK_DEADLOCK FALSE
