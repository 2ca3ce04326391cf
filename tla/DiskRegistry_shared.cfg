SPECIFICATION Spec
CONSTANTS
    p1 = p1
    p2 = p2
    d1 = d1
    d2 = d2
    t1 = t1
    t2 = t2
    None = None
    Blank = Blank
    Procs <- TwoProcs
    Disks <- TwoDisks
    Tags <- TwoTags
    TagLists <- ShortLists
    Kinds <- AllKinds
    Faults <- AllFaults
    MaxStarts = 3
SYMMETRY RegistrySymmetry
INVARIANTS
    TypeOK
    SavedIsRead
    TriggerIsAlive
    HooksInName
CHECK_DEADLOCK FALSE
