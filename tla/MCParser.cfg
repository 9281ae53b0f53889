SPECIFICATION FairSpec
CONSTANTS
    Tars <- MCTars
INVARIANTS NamesRight MembersInOrder StopsRight
PROPERTIES ParseEnds
CHECK_DEADLOCK FALSE
