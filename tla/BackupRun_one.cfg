SPECIFICATION Spec
CONSTANTS
    r1 = r1
    r2 = r2
    None = None
    Runs <- OneRun
    Ops <- AllOps
    Faults <- RemovalWorks
    RetentionCount = 1
    RetentionTime = 2
    MaxTime = 4
INVARIANTS
    TypeOK
    LinksBackwards
    HonestSuccess
    SessionInv
    RetentionBounds
PROPERTIES
    LastSuccessAdvances
