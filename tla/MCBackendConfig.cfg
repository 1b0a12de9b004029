SPECIFICATION Spec
CONSTANTS
    Runtimes <- TwoRuntimes
    Ports = {8001}
    Calls = {1}
    MaxFiles = 2
    Backends <- Assignments
    Served <- Asked
INVARIANTS
    ConfigIsCleanedUp
CHECK_DEADLOCK FALSE
