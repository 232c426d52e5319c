CONSTANTS
    None = None
    t1 = t1
    t2 = t2
    Tools = {t1, t2}
    Threshold = 2
    MaxBlocks = 2
    Confs <- MCConfs
    Asks <- MCAsks
SYMMETRY Symmetry
SPECIFICATION Spec
INVARIANTS
    NothingUngatedReachesAgent
    MessageIsWhole
    EverythingTold
CHECK_DEADLOCK FALSE
