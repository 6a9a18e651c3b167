SPECIFICATION FairSpec
CONSTANTS
    k1 = k1
    k2 = k2
    cbA = cbA
    cbB = cbB
    Keys = {k1}
    KeepAlive = {}
    Callbacks = {cbA, cbB}
    Pids = {cbA, cbB}
    CallerPid <- OneEach
    None = None
    MaxRecords = 1
    MaxConns = 2
    MaxStart = 0
    Faults = {"clientDies", "refuse", "null", "serviceDies", "loadFails", "stop", "freeze", "lateConnect"}
CHECK_DEADLOCK FALSE
PROPERTIES
    GhostsLeave
    EveryWaitEnds
    TerminationEnds
