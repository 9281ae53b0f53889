SPECIFICATION ClientSpec
CONSTANTS
    Managers = {"dir", "iex", "dinode"}
    Bulks <- MCBulks
    MaxBlks = 9
INVARIANTS TypeOK ChainsIntact
PROPERTIES FreshBlock TarUntouched ImplementsPool
CHECK_DEADLOCK FALSE
