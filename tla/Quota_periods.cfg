SPECIFICATION QuotaSpec
CONSTANTS
    TicksPerDay = 2
    WeekDays = 2
    Calendar <- ShortMonths
    Limits = {0, 2}
    WarnPct = 50
    Ops = {"set", "reset", "toggle"}
    MayFail = TRUE
    LastTime = 6
    MaxUsage = 2
    MaxRequests = 2
INVARIANT QuotaTypeOK
PROPERTIES PresentPeriodCharged EnforcedByTick
CHECK_DEADLOCK FALSE
