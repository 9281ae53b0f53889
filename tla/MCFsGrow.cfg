SPECIFICATION FairSpec
CONSTANTS
    Managers = {"dir", "iex", "dinode"}
    Bulks <- MCBulks
    MAX_DINODE_DIRECT = 1
    MAX_INDEXT = 1
    NameLen <- MCNameLen
    Archives <- MCArchives
    MaxBlks = 60
INVARIANTS DirBlocksFormed BlocksOwnedOnce
PROPERTIES Terminates ObeysBlockLayer
CHECK_DEADLOCK FALSE
