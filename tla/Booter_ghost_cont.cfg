SPECIFICATION FairSpec
CONSTANTS
    NApps = 2
    SmartdiskIdx = 0
    UpdaterIdx = 1
    Pids = {p1, p2}
    NoPid = NoPid
    ForkErr = ForkErr
    Ghost = TRUE
    OpSignals = {}
    FaultKinds = {}
    MaxOps = 0
    MaxFaults = 0
    MaxUpdates = 0
PROPERTY UdiskContinues
