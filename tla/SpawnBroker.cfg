SPECIFICATION FairSpec
CONSTANTS
    c1 = c1
    c2 = c2
    Conn = {c1, c2}
    Fd = {1, 2}
    Sends <- MCSends
    Waker = Waker
    None = None
INVARIANTS
    RetainedOpen
    QuietAfterDrop
PROPERTIES
    ShutdownCompletes
    AcceptedAnswered
