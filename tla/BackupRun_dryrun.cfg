SPECIFICATION Spec
CONSTANTS
    r1 = r1
    r2 = r2
    None = None
    Runs <- OneRun
    Ops <- AllOps
    Faults <- NoFaults
    RetentionCount = 1
    RetentionTime = 3
    MaxTime = 4
PROPERTIES
    DryRunKeepsBackups
CHECK_DEADLOCK FALSE
