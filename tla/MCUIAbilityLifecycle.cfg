SPECIFICATION FairSpec
CONSTANTS
    s1 = s1  r1 = r1  r2 = r2  w1 = w1  w2 = w2
    Sessions = {s1}
    UIRecords = {r1, r2}
    NewWants = {w1, w2}
    Environments <- MCEnvironments
    NoRecord = NoRecord
    NoWant = NoWant
CHECK_DEADLOCK FALSE
INVARIANTS
    Consistent
    Watched
    GoalReached
    LastWantShown
PROPERTIES
    CloseEnds
