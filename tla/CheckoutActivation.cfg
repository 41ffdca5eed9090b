SPECIFICATION FairSpec
CONSTANTS
    p1 = p1
    p2 = p2
    app = app
    runtime = runtime
    c1 = c1
    c2 = c2
    Process = {p1, p2}
    Dest = {app, runtime}
    Commit = {c1, c2}
    Plans <- MCPlans
    Absent = Absent
    Broken = Broken
    Free = Free
    MaxAborts = 3
INVARIANTS
    TypeOK
    JournalRecoverable
    NoOrphanBackup
    RenameTargetFree
PROPERTIES
    NeverActivatesPartial
    ActivationIsAtomic
    JournalCleared
