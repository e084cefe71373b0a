SPECIFICATION Spec
CONSTANTS
    NApps = 2
    SmartdiskIdx = 0
    UpdaterIdx = 1
    Pids = {p1, p2, p3}
    NoPid = NoPid
    ForkErr = ForkErr
    Ghost = TRUE
    OpSignals = {"CONT", "RESTART"}
    FaultKinds = {"death", "kill", "fork", "reuse", "io"}
    MaxOps = 1
    MaxFaults = 1
    MaxUpdates = 0
SYMMETRY PidSymmetry
INVARIANT TypeOK
INVARIANT SlotsTrackChildren
PROPERTY Supervises
INVARIANT GhostGate
CHECK_DEADLOCK FALSE
