SPECIFICATION Spec
CONSTANTS
    Tars <- MCTars
INVARIANTS SlashesSkipped
CHECK_DEADLOCK FALSE
