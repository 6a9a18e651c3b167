SPECIFICATION Spec
CONSTANTS
    k1 = k1
    k2 = k2
    cbA = cbA
    cbB = cbB
    Keys = {k1}
    KeepAlive = {}
    Callbacks = {cbA, cbB}
    Pids = {cbA, cbB}
    CallerPid <- OneEach
    None = None
    MaxRecords = 1
    MaxConns = 2
    MaxStart = 1
    Faults = {"clientDies", "serviceDies", "null", "freeze", "stop", "loadFails"}
SYMMETRY Symmetry
CHECK_DEADLOCK FALSE
INVARIANTS
    TypeOK
    ListsAgree
    CountsAgree
    RecipientsAgree
    NoOrphanService
    ConnectedIsActive
    WaiterIsWatched
    RequestsServed
PROPERTIES
    ConnOnlyForward
