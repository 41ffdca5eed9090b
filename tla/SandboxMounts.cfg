SPECIFICATION Spec
CONSTANTS
    Plans <- MCPlans
    Staging = 1
    Host = 9
    DocDir <- MCDocDir
    Grants <- MCGrants
    Generated <- MCGenerated
    MaxFaults = 4
INVARIANTS
    Tracked
    
    
    ParentsRestored
