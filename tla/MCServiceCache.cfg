SPECIFICATION Spec
CONSTANTS
    u1 = u1
    u2 = u2
    kA = kA
    kB = kB
    kC = kC
    NoRec = NoRec
    Users = {u1, u2}
    Keys = {kA, kB, kC}
    AppOf <- TwoApps
    MaxRecords = 2
    Environments <- MCEnvironments
    DevCapacity = 1
    ProcCapacity = 1
CHECK_DEADLOCK FALSE
INVARIANTS
    Consistent
    NoLostRecord
    DeathHandled
