SPECIFICATION Spec
CONSTANTS
    Acme = {FALSE, TRUE}
    Bridge = {FALSE, TRUE}
    InPlace = {FALSE, TRUE}
    Faults = {"step", "undo", "order", "check", "remove", "kill", "archive", "large", "stop",
              "extract", "start"}
    MaxMishaps = 1
    MaxCommands = 5
    MaxVersions = 2
INVARIANTS TypeOK RollbackClean InstallRepeats RestoreInOrder
CHECK_DEADLOCK FALSE
