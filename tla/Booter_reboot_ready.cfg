SPECIFICATION FairSpec
CONSTANTS
    NApps = 2
    SmartdiskIdx = 0
    UpdaterIdx = 1
    Pids = {p1, p2}
    NoPid = NoPid
    ForkErr = ForkErr
    Ghost = FALSE
    OpSignals = {}
    FaultKinds = {"death"}
    MaxOps = 0
    MaxFaults = 1
    MaxUpdates = 0
PROPERTY DeadAppsRestart
