SPECIFICATION Spec
CONSTANTS
    e1 = e1
    e2 = e2
    e3 = e3
    t1 = t1
    t2 = t2
    t3 = t3
    Element = {e1, e2}
    Thread = {t1, t2, t3}
    None = None
    MaxCalls = 2
    Position <- OnePosition
    Lists <- OneList
    Programs <- ThreePrograms
INVARIANT UnlinkedIsFree
CHECK_DEADLOCK FALSE
