SPECIFICATION Spec
CONSTANTS
    s1 = s1
    s2 = s2
    t1 = t1
    Sessions <- TwoSessions
    Setups <- ThreeSetups
    Temps <- OneTemp
    Faults <- AllFaults
    MaxCommands = 2
SYMMETRY SessionSymmetry
INVARIANTS
    TypeOK
    KeyLetsIn
    SudoHasPassword
    EndsClean
CHECK_DEADLOCK FALSE
