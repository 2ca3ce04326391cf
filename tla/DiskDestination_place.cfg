SPECIFICATION FairSpec
CONSTANTS
    r1 = r1
    r2 = r2
    d1 = d1
    d2 = d2
    None = None
    System = System
    HasTag = TRUE
    Disks <- TwoDisks
    PowerOffs <- TwoDisks
    Ejectables <- FirstDisk
    Runs <- OneRun
    Ops <- AllOps
    Faults <- PreparationFaults
    Others <- FriendlyOthers
    Slots = 1
    Timeout = 1
INVARIANTS
    BackupOnDisk
    PlaceInv
    ReleaseInv
PROPERTIES
    EveryMountEnds
