SPECIFICATION FairSpec
CONSTANTS
    first = first
    nested = nested
    q1 = q1
    q2 = q2
    Root = {first, nested}
    Parent <- MCParent
    None = None
    Recoverer = {q1, q2}
INVARIANTS
    TypeOK
    LiveLauncherSpared
    OrphansSpared
    MountsRecorded
PROPERTY
    StaleRecovered
