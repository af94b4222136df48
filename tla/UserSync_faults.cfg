SPECIFICATION HSpec
CONSTANTS
    alice = alice
    bob = bob
    r1 = r1
    ticker = ticker
    Users <- TwoUsers
    Starts <- AliceOrBoth
    Requests <- OneRequest
    Ticker <- ticker
    Ops = {"toggle", "delete", "rotate", "quota_set", "quota_reset", "suspend_toggle", "rotate_all", "bulk_suspend", "bulk_rotate", "bulk_delete", "create"}
    MaxActive = 2
    StaleForms = FALSE
    MayFail = TRUE
    MayCrash = TRUE
    MaxRequests = 1
    MaxEvents = 1
INVARIANTS TypeOK LiveInSync DiskInSync
PROPERTIES RollbackExact ImplementsReplica
