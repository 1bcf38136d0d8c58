SPECIFICATION FairSpec
CONSTANTS
    p = p
    q = q
    l = l
    fa = fa
    m = m
    j = j
    c1 = c1
    c2 = c2
    t1 = t1
    t2 = t2
    w = w
    None = None
    Promises = {p, q}
    Lazies = {l, fa, m}
    Jobs = {j}
    Args <- ArgsDef
    PassPromise = {m}
    SharedSources = {q}
    Callbacks = {c1, c2}
    SharedCallbacks = {c2}
    Getters = {c1, c2}
    On <- OnDef
    Threads = {t1, t2, w}
    Workers = {w}
    Programs <- AllPrograms
    MaxCalls = 5
    NDEBUG = TRUE
INVARIANTS FunctionsSound NothingLeftBehind
PROPERTIES KeepsContract WaitersReturn
CHECK_DEADLOCK FALSE
