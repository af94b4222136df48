SPECIFICATION FairSpec
CONSTANTS
    alice = alice
    bob = bob
    r1 = r1
    ticker = ticker
    Users <- OneUser
    Starts <- Alice
    Requests <- OneRequest
    Ticker <- ticker
    Ops = {"rotate"}
    MaxActive = 2
    StaleForms = FALSE
    MayFail = FALSE
    MayCrash = FALSE
    MaxRequests = 1
    MaxEvents = 1
PROPERTY EventuallyInSync
