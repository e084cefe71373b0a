SPECIFICATION FairSpec
CONSTANTS
    tb = tb
    tl = tl
    tu = tu
    tx = tx
    NoTask = NoTask
    Tasks <- MCTasks
    Signed <- MCSigned
    Engine <- MCEngine
    Mask <- MCMask
    MaxBusy = 2
    Limits = {2, 3}
    Chunks = {1, 2}
    Signals = {"STOP", "CONT", "EXIT"}
    FaultKinds = {"pull", "fork", "crash", "script", "request", "http", "refuse"}
    MaxFaults = 1
    MaxSignals = 1
    MaxCalls = 0
PROPERTY TaskReported
PROPERTY ZombiesReaped
CHECK_DEADLOCK FALSE
