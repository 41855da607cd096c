SPECIFICATION Spec
CONSTANTS
    o1 = o1
    o2 = o2
    o3 = o3
    Openers <- MCOpeners
    TCR_DISKS = 2
    PROBES = 3
SYMMETRY OpenerSymmetry
INVARIANTS
    TypeOK
    ReferencesExact
    MinorsAccounted
PROPERTY
    FreedForGood
CHECK_DEADLOCK FALSE
