\* Two instances retired by the main goroutine and two groups.
SPECIFICATION FairSpec
CONSTANTS
    i1 = i1
    i2 = i2
    g1 = g1
    g2 = g2
    Inst = {i1, i2}
    Group = {g1, g2}
    main = main
    none = none
CHECK_DEADLOCK FALSE
INVARIANTS
    FlushAgrees
    NoRetirementLost
    OwedIsSaved
PROPERTIES
    RetirementsWritten
