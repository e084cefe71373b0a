SPECIFICATION FairSpec
CONSTANTS
    Versions <- ThreeVersions
    First = 999
    FaultKinds = {"check", "transport", "early", "late", "setver", "crash", "corrupt", "fwrite", "short", "rollback"}
    MaxFaults = 3
    MaxReleases = 4
INVARIANT TypeOK
PROPERTY RecordNeverGoesBack
PROPERTY AsksOnlyBootable
PROPERTY UpdateArrives
PROPERTY Settles
CHECK_DEADLOCK FALSE
