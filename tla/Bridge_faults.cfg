SPECIFICATION Spec
CONSTANTS
    r1 = r1
    r2 = r2
    MaxNode = 2
    Handlers <- OneRequest
    MaxActive = 1
    MaxRequests = 6
    MaxFaults = 2
    RebootAfter = {0}
INVARIANTS TypeOK 
PROPERTY SwitchesComplete
CHECK_DEADLOCK FALSE
