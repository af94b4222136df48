SPECIFICATION Spec
CONSTANTS
    alice = alice
    Users <- OneUser
    HourLen = 2
    DayLen = 2
    Retentions <- TwoRetentions
    Default <- Days4
    Periods = {2, 4}
    Buckets = 2
    MaxEvents = 2
    MaxTime = 4
    MaxBytes = 2
INVARIANTS TypeOK ChargedExactly ShownOnce
CHECK_DEADLOCK FALSE
