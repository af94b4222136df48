SPECIFICATION FairSpec
CONSTANTS
    alice = alice
    bob = bob
    r1 = r1
    ticker = ticker
    Users <- TwoUsers
    Starts <- Both
    Requests <- NoRequests
    Ticker <- ticker
    Ops = {}
    MaxActive = 2
    StaleForms = FALSE
    MayFail = TRUE
    MayCrash = TRUE
    MaxRequests = 0
    MaxEvents = 3
PROPERTIES RetriedUntilInSync SuspensionTakesEffect
