SPECIFICATION Spec
CONSTANTS
    r1 = r1
    r2 = r2
    d1 = d1
    d2 = d2
    None = None
    System = System
    HasTag = TRUE
    Disks <- FirstDisk
    PowerOffs <- FirstDisk
    Ejectables <- NoDisk
    Runs <- TwoRuns
    Ops <- AllOps
    Faults <- AllFaults
    Others <- AllOthers
    Slots = 1
    Timeout = 1
SYMMETRY TwoRunsSymmetry
INVARIANTS
    TypeOK
    ReleaseInv
    NothingLeftMounted
