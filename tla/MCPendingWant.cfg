SPECIFICATION Spec
CONSTANTS
    th1 = th1  th2 = th2  th3 = th3
    rec1 = rec1  rec2 = rec2
    li1 = li1  li2 = li2  user1 = user1  user2 = user2
    NoUser = NoUser  NoRec = NoRec  NoThread = NoThread
    Threads = {th1, th2, th3}
    Users = {user1, user2}
    Keys = {"given", "open"}
    Recs = {rec1, rec2}
    Listeners = {li1, li2}
    Environments <- MCEnvironments
    MaxSent = 2
    MaxVersion = 2
    UserOf <- KeyUsers
    BundleOf <- KeyBundles
SYMMETRY Symmetry
INVARIANTS
    Consistent
    OneTimeOnce
    LateSendRefused
    NoCircularWait
CHECK_DEADLOCK FALSE
