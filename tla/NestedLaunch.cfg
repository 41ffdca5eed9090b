SPECIFICATION FairSpec
CONSTANTS
    Fd = {0, 1, 2, 3, 4, 5, 6, 7, 8, 9}
    LifeFd = 7
    SourceFds <- MCSourceFds
    Requests <- MCRequests
INVARIANTS
    Confined
    StatusLast
    SourcesMapped
PROPERTIES
    NothingLeft
CHECK_DEADLOCK FALSE
