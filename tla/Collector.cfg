SPECIFICATION FairSpec
CONSTANTS
    a = a
    b = b
    NUL = NUL
    Bytes <- MCBytes
    Chunks <- MCChunks
    eth = eth
    wlan = wlan
    Interfaces = {eth, wlan}
    Rx0 = 3
    Cpu0 <- MCCpu0
    Wrap = 4
    Opacity = 2
    MaxBody = 2
    Ghost = TRUE
    Signals = {"STOP", "CONT", "EXIT"}
    FaultKinds = {"init", "stat", "net", "curl", "alloc", "request"}
    MaxFaults = 1
    MaxTicks = 2
    MaxChanges = 1
    MaxSignals = 2
INVARIANT TypeOK
INVARIANT OwnAnswer
INVARIANT RateIsTraffic
INVARIANT LoadIsShare
INVARIANT EmptyWhenDestroyed
PROPERTY BufferIsText
PROPERTY KeepsReporting
PROPERTY OrphanEnds
CHECK_DEADLOCK FALSE
