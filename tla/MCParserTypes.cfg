SPECIFICATION Spec
CONSTANTS
    Tars <- MCTars
INVARIANTS OnlySupported
CHECK_DEADLOCK FALSE
