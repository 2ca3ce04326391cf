SPECIFICATION Spec
CONSTANTS
    r1 = r1
    r2 = r2
    None = None
    Runs <- TwoRuns
    Ops <- BackupOnly
    Faults <- SharedFaults
    RetentionCount = 1
    RetentionTime = 1
    MaxTime = 3
SYMMETRY TwoRunsSymmetry
INVARIANTS
    HonestSuccess
    SessionInv
    LinksBackwards
PROPERTY
    LogImplemented
CHECK_DEADLOCK FALSE
