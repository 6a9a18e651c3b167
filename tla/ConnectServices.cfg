SPECIFICATION Spec
CONSTANTS
    k1 = k1
    k2 = k2
    cbA = cbA
    cbB = cbB
    Keys = {k1, k2}
    KeepAlive = {k2}
    Callbacks = {cbA}
    Pids = {cbA}
    CallerPid <- OneEach
    None = None
    MaxRecords = 2
    MaxConns = 2
    MaxStart = 0
    Faults = {"clientDies", "serviceDies", "loadFails"}
CHECK_DEADLOCK FALSE
INVARIANTS
    OneConnPerTarget
    NoDangling
    PlacedOnce
