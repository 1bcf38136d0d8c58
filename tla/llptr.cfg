SPECIFICATION FairSpec
CONSTANTS
    t1 = t1
    t2 = t2
    t3 = t3
    c1 = c1
    c2 = c2
    o1 = o1
    o2 = o2
    o3 = o3
    Threads = {t1, t2, t3}
    Cells = {c1, c2}
    Objs = {o1, o2, o3}
    HazardCount = 2
    None = None
    Programs <- AllPrograms
INVARIANTS CountsSound
PROPERTIES CallsEnd
CHECK_DEADLOCK FALSE
