SPECIFICATION Spec
CONSTANTS
    cli = cli
    panel = panel
    teleproxy = teleproxy
    u1 = u1
    u2 = u2
    CLI <- cli
    Panel <- panel
    Probed <- OneProbed
    Order <- CheckOrder
    Updaters <- OneUpdater
    MayFail = TRUE
    MayCrash = TRUE
    MaxBuild = 2
    MaxRuns = 2
INVARIANTS TypeOK RecordedIsInstalled
PROPERTY ImplementsFiles
CHECK_DEADLOCK FALSE
