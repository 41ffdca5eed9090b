SPECIFICATION Spec
CONSTANTS
    p1 = p1
    p2 = p2
    p3 = p3
    c1 = c1
    c2 = c2
    app = app
    successor = successor
    platform = platform
    sdk = sdk
    app1 = app1
    app2 = app2
    app2repair = app2repair
    next2 = next2
    platform1 = platform1
    platform2 = platform2
    platform2repair = platform2repair
    sdk2 = sdk2
    Process = {p1, p2}
    Dest = {app1, app2, app2repair, next2, platform1, platform2, platform2repair}
    Commit = {c1, c2}
    App = {app, successor}
    Runtime = {platform}
    AppOf <- MCAppOf
    RefOf <- MCRefOf
    CommitOf <- MCCommitOf
    Ordinary = {app1, app2, next2, platform1, platform2}
    Offers <- MCOffers
    Renames = {}
    Absent = Absent
    Broken = Broken
    Free = Free
    NoRecord = NoRecord
    Commands = {"install", "install_runtime", "update", "update_runtime",
                "uninstall", "run", "list"}
    Overlap = FALSE
    MaxAborts = 2
    MaxCommands = 3
INVARIANTS
    TypeOK
    InstalledIntact
    PinnedIntact
    ReclaimsRetired
SYMMETRY Symmetry
