SPECIFICATION FairSpec
CONSTANTS
    Pid = {1, 2, 3}
    Root = 1
    Nested = {"nested1"}
    MaxSignals = 1
INVARIANTS
    StatusKept
    TreeEnded
    OrphansOnly
    
PROPERTIES
    StopsWhenAsked
