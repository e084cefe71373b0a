SPECIFICATION FairSpec
CONSTANTS
    NApps = 3
    SmartdiskIdx = 0
    UpdaterIdx = 1
    Pids = {p1, p2}
    NoPid = NoPid
    ForkErr = ForkErr
    Ghost = FALSE
    OpSignals = {"EXIT", "CONT"}
    FaultKinds = {"death", "fork", "exec"}
    MaxOps = 1
    MaxFaults = 2
    MaxUpdates = 1
PROPERTY ShutdownCompletes
PROPERTY RestartComesBack
PROPERTY ScannedAppsRestart
