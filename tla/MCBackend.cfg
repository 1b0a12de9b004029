SPECIFICATION FairSpec
CONSTANTS
    Runtimes <- TwoRuntimes
    Ports = {8001}
    Calls = {1}
    MaxFiles = 2
    Backends <- Assignments
    Served <- Asked
INVARIANTS
    NoProcessEscapes
    NothingLeftBehind
    FilesSettled
    FaultsAreUpstreams
PROPERTIES
    EverythingEnds
CHECK_DEADLOCK FALSE
