SPECIFICATION FairSpec
CONSTANTS
    r1 = r1
    r2 = r2
    None = None
    Runs <- OneRun
    Ops <- BackupAndCleanup
    Faults <- ReportedFaults
    RetentionCount = 1
    RetentionTime = 1
    MaxTime = 4
INVARIANTS
    SuccessIsComplete
    SurvivalInv
PROPERTIES
    RunEnds
