SPECIFICATION Spec
CONSTANTS
    Requests = {r1, r2}
    MaxFailures = 2
    Window = 1
    Block = 2
    Wait = 1
    Idle = 1
    Life = 2
    Codes = 2
    Faults = {"database", "commit", "overlap", "restart"}
    MaxMishaps = 2
    MaxRequests = 4
    MaxTime = 4
INVARIANTS TypeOK CodeOnce SessionsEnd Enrolled Throttled
SYMMETRY Symmetry
CHECK_DEADLOCK FALSE
