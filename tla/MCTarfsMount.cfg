SPECIFICATION MountSpec
CONSTANTS
    Managers = {"dir", "iex", "dinode"}
    Bulks <- MCBulks
    MAX_DINODE_DIRECT = 1
    MAX_INDEXT = 1
    NameLen <- MCNameLen
    Archives <- MCArchives
    MaxBlks = 60
    Procs = {"p"}
    OpenFiles = {"f"}
    Names = {"d", "x", "y", "z"}
    MaxErrs = 1
INVARIANTS KernelTypeOK DentriesRight AnswersRight ListedOnce BuffersBalanced SlabAccounted OopsExplained
CHECK_DEADLOCK FALSE
