SPECIFICATION Spec
CONSTANTS
    Archives = {t, z}
    Gzipped = {z}
    Members = 1
    Devices = {1, 2}
    Procs = {p1, p2}
    Strays = {0, 8}
    MaxBlks = 8
    MaxRuns = 3
    MaxFaults = 1
SYMMETRY Commands
INVARIANTS ArchiveKept CompletedIsWhole MountedStaysWhole AtRest OwnDevice
CHECK_DEADLOCK FALSE
