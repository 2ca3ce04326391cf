SPECIFICATION Spec
CONSTANTS
    r1 = r1
    r2 = r2
    d1 = d1
    d2 = d2
    None = None
    System = System
    HasTag = TRUE
    Disks <- TwoDisks
    PowerOffs <- FirstDisk
    Ejectables <- NoDisk
    Runs <- OneRun
    Ops <- BackupOnly
    Faults <- NoFaults
    Others <- NobodyElse
    Slots = 2
    Timeout = 1
INVARIANTS
    ReleasesBackupDisk
