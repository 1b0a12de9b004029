SPECIFICATION Spec
CONSTANTS
    Runtimes <- TwoRuntimes
    Ports = {8001}
    Calls = {1}
    MaxFiles = 2
    Backends <- Assignments
    Served <- Asked
INVARIANTS
    GroupIsTerminated
CHECK_DEADLOCK FALSE
