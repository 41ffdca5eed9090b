SPECIFICATION FairSpec
CONSTANTS
    l1 = l1
    l2 = l2
    Launch = {l1, l2}
    Recovery = Recovery
    None = None
    MaxFaults = 1
INVARIANTS
    PortalServes
    OnePortal
PROPERTIES
    StaleStopped
CHECK_DEADLOCK FALSE
