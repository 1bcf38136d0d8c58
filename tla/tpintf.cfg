SPECIFICATION FairSpec
CONSTANTS
    k1 = k1
    k2 = k2
    k3 = k3
    k4 = k4
    k5 = k5
    k6 = k6
    c1 = c1
    c2 = c2
    u1 = u1
    u2 = u2
    w1 = w1
    w2 = w2
    Comb = {k1, k2, k3, k4, k5, k6}
    Wq = {c1, c2}
    SMux = SMux
    CMux = CMux
    Aid = Aid
    Pool = Pool
    User = {u1, u2}
    Worker = {w1, w2}
    None = None
    MaxWork = 2
    ClientOf <- MCClientOf
    ServiceOf <- MCServiceOf
    Programs <- AllPrograms
INVARIANTS CombinersSound
PROPERTIES MarkedIsRun CallsEnd
CHECK_DEADLOCK FALSE
