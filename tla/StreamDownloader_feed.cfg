SPECIFICATION FairSpec
CONSTANTS
    None = None
    MaxSegment = 4
    Keyed <- LastKeyed
    Faults <- AllFaults
INVARIANTS
    TypeOK
    NotedLate
PROPERTIES
    FeedImplemented
    StopEnds
    Follows
CHECK_DEADLOCK FALSE
