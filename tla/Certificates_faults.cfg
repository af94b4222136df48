SPECIFICATION FairSpec
CONSTANTS
    Loop = loop
    Requests = {r1}
    Life = 5
    RenewDays = 4
    Faults = {"order", "reload", "handover", "write", "database", "overlap", "old form", "restart", "heal", "half heal"}
    MaxMishaps = 2
    MaxRequests = 2
    MaxDay = 5
INVARIANTS TypeOK NeverExpired OrdersJustified
PROPERTY ReloadRetried
