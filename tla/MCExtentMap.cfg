SPECIFICATION FairSpec
CONSTANTS
    Managers = {"dir", "iex", "dinode"}
    Bulks <- MCBulks
    MAX_DINODE_DIRECT = 1
    MAX_INDEXT = 2
    Dirs = {1, 2}
    MaxBlks = 16
INVARIANTS MapCorrect InodesMapped IndirectsOwned
PROPERTIES InsReturns ObeysBlockLayer
CHECK_DEADLOCK FALSE
