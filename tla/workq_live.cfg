SPECIFICATION FairSpec
CONSTANTS
    t1 = t1
    t2 = t2
    t3 = t3
    w1 = w1
    w2 = w2
    j1 = j1
    j2 = j2
    j3 = j3
    None = None
    Threads = {t1, t2, t3}
    Workqs = {w1}
    Jobs = {j1, j2}
    WorkqOf <- OneWorkq
    TypeOf <- Plain
    Calls <- AppAndHelpers
    BodyCalls = {"activate"}
    AidCounts = {1}
    GenMod = 2
    MaxStack = 1
PROPERTIES
    EventuallyRuns
CHECK_DEADLOCK FALSE
