SPECIFICATION Spec
CONSTANTS
    Sizes = {0, 1, 2, 5}
    Bulks = {2, 3}
    MaxBlks = 10
INVARIANT CompletedIsWhole
CHECK_DEADLOCK FALSE
