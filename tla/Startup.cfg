SPECIFICATION FairSpec
CONSTANTS
    Procs = {p1, p2}
    NoPid = NoPid
    Ids = {i1, i2}
    NoId = NoId
    ShortLens = {0, 5}
    MaxStarts = 3
    MaxFaults = 2
    MaxOps = 1
INVARIANT TypeOK
INVARIANT Exclusive
INVARIANT IdAgreement
PROPERTY IdNeverChanges
PROPERTY Recovers
CHECK_DEADLOCK FALSE
