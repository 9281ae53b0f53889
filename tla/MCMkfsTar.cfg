SPECIFICATION Spec
CONSTANTS
    MAX_DINODE_DIRECT = 1
    MAX_INDEXT = 1
    ALLOC_NUM = 2
    NameLen <- MCNameLen
    Tars <- MCTars
    MaxBlks = 40
    MaxRuns = 2
INVARIANTS LegacyTree BlocksAccounted WholeUnlessStopped
CHECK_DEADLOCK FALSE
