SPECIFICATION Spec
CONSTANTS
    h1 = h1
    h2 = h2
    b1 = b1
    none = none
    p1 = p1
    p2 = p2
    r1 = r1
    r2 = r2
    cli = cli
    unset = unset
    Hosts <- TwoHosts
    Backends <- TwoBackends
    Nothing <- none
    StubBackend <- b1
    Services <- BridgeMode
    Paths <- TwoPaths
    Unset <- unset
    Config <- Installed
    PanelDomain <- unset
    Handlers <- OneRequest
    Reconciler <- cli
    MaxActive = 1
    MayFail = TRUE
    MayCrash = TRUE
    MaxPage = 3
    Entries = {1}
    Builtin <- TwoTemplates
    Offered <- Offers
    MaxItem = 2
    MaxSteps = 3
INVARIANT TypeOK
PROPERTIES SavedInForce ReconcileApplies StubAtomic
CHECK_DEADLOCK FALSE
