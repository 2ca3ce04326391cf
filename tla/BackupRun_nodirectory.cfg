SPECIFICATION Spec
CONSTANTS
    r1 = r1
    r2 = r2
    None = None
    Runs <- OneRun
    Ops <- BackupOnly
    Faults <- StateFileFaults
    RetentionCount = 2
    RetentionTime = 3
    MaxTime = 4
INVARIANTS
    NoDirectoryNoSuccess
CHECK_DEADLOCK FALSE
