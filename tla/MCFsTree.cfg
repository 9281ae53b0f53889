SPECIFICATION Spec
CONSTANTS
    Managers = {"dir", "iex", "dinode"}
    Bulks <- MCBulks
    MAX_DINODE_DIRECT = 2
    MAX_INDEXT = 2
    NameLen <- MCNameLen
    Archives <- MCArchives
    MaxBlks = 60
INVARIANTS TreeSoFar MountedIsWhole SuperblockSound ArchiveStays LinkCounts
CHECK_DEADLOCK FALSE
