SPECIFICATION Spec
CONSTANTS
    tb = tb
    tl = tl
    tu = tu
    tx = tx
    NoTask = NoTask
    Tasks <- MCTasks
    Signed <- MCSigned
    Engine <- MCEngine
    Mask <- MCMask
    MaxBusy = 2
    Limits = {2, 3}
    Chunks = {1, 2}
    Signals = {"STOP", "CONT", "EXIT"}
    FaultKinds = {"refuse"}
    MaxFaults = 1
    MaxSignals = 0
    MaxCalls = 0
INVARIANT SyncReturnsOutcome
CHECK_DEADLOCK FALSE
