SPECIFICATION FairSpec
CONSTANTS
    th1 = th1  th2 = th2
    rec1 = rec1  rec2 = rec2  rec3 = rec3
    hap1 = hap1  native1 = native1
    NoRec = NoRec  NoClient = NoClient  Free = Free
    Threads = {th1, th2}
    Names = {"n", "m"}
    Recs = {rec1, rec2, rec3}
    Clients = {rec1, hap1, native1}
    Hap = {rec1, hap1}
    Binds = {rec1, hap1}
    Environments <- Every
    MaxHeld = 2
INVARIANTS
    Consistent
    LoadingHasWaiter
    Accounted
PROPERTIES
    AcquireReturns
    StrayGivenUp
