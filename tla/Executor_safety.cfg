SPECIFICATION Spec
CONSTANTS
    tb = tb
    tl = tl
    tu = tu
    tx = tx
    NoTask = NoTask
    Tasks <- MCTasks
    Signed <- MCSigned
    Engine <- MCEngine
    Mask <- MCMask
    MaxBusy = 2
    Limits = {1, 3}
    Chunks = {2}
    Signals = {"STOP", "CONT"}
    FaultKinds = {"pull", "fork"}
    MaxFaults = 1
    MaxSignals = 2
    MaxCalls = 3
INVARIANT TypeOK
INVARIANT BusyBacksOff
INVARIANT OneTaskAfterStop
PROPERTY LimitHolds
CHECK_DEADLOCK FALSE
