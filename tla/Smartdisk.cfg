SPECIFICATION FairSpec
CONSTANTS
    sata = sata
    nvme = nvme
    d1 = d1
    d2 = d2
    w1 = w1
    w2 = w2
    i1 = i1
    i2 = i2
    Zero = Zero
    NoDisk = NoDisk
    Keys <- MCKeys
    Hash <- MCHash
    Factor = 85
    MaxInt = 127
    Bays = {sata, nvme}
    Disks = {d1, d2}
    Numbered = {nvme}
    Mute = {nvme}
    Wwn <- MCWwn
    DiskId <- MCDiskId
    Fs <- MCFs
    Bays0 <- MCBays
    Layout0 <- MCLayout
    Blocks <- MCBlocks
    NParts = 1
    Offset = 4
    Wrap = 64
    MapLength = 2
    AutoPartition = TRUE
    FaultKinds = {"opendir", "open", "identity", "size", "fdisk", "lsblk", "mkdir", "mount"}
    MaxFaults = 1
    MaxMoves = 2
INVARIANT TypeOK
INVARIANT MapCountsList
INVARIANT PlanFits
INVARIANT TargetsDistinct
INVARIANT EmptyWhenDestroyed
PROPERTY MapIsAMap
PROPERTY ChosenIsBlank
PROPERTY MountsOnlyUnmounted
PROPERTY EventuallyMounted
CHECK_DEADLOCK FALSE
