SPECIFICATION FairMount
CONSTANTS
    Managers = {"dir", "iex", "dinode"}
    Bulks <- MCBulks
    MAX_DINODE_DIRECT = 1
    MAX_INDEXT = 1
    NameLen <- MCNameLen
    Archives <- MCArchives
    MaxBlks = 60
    Procs = {"p", "q"}
    OpenFiles = {"f"}
    Names = {"d", "x"}
    MaxErrs = 1
PROPERTIES CallsReturn
CHECK_DEADLOCK FALSE
