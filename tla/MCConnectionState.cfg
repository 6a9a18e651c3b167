SPECIFICATION Spec
CONSTANTS
    Pids = {"p1", "p2", "p3"}
    Mortal = {"p1", "p3"}
    Native = {"p3"}
    Conns = {"c1", "c2", "c3", "c4", "c5", "c6"}
    Callers = {"k1", "k2", "k3", "k4"}
    Services = {"s1", "s2"}
    Datas = {"d1"}
    Suspendable = {"c3", "c4", "c5"}
    Repeated = {}
    MaxAcquire = 2
    PidOf <- Owners
    TargetOf <- Hosts
    Environments <- Present
INVARIANTS
    Consistent
    ObserverKnows
