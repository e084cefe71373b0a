SPECIFICATION Spec
CONSTANTS
    Versions <- TwoVersions
    First = 999
    FaultKinds = {"corrupt"}
    MaxFaults = 1
    MaxReleases = 1
INVARIANT InstallsOnlyVerified
