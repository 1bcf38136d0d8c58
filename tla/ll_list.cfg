SPECIFICATION FairSpec
CONSTANTS
    e1 = e1
    e2 = e2
    e3 = e3
    t1 = t1
    t2 = t2
    t3 = t3
    Element = {e1, e2, e3}
    Thread = {t1, t2}
    None = None
    MaxCalls = 5
    Position <- AllPositions
    Lists <- OneList
    Programs <- AllPrograms
INVARIANTS ElementsSound VisitsPassAll
PROPERTIES KeepsContract CallsReturn
CHECK_DEADLOCK FALSE
