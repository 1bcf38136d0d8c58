SPECIFICATION FairSpec
CONSTANTS
    t1 = t1
    h1 = h1
    h2 = h2
    jc = jc
    jp = jp
    jr = jr
    jo = jo
    js = js
    jq = jq
    wa = wa
    wb = wb
    Threads = {t1, h1, h2}
    Helpers = {h1, h2}
    Jobs = {jc, jp, jr, jo, js, jq}
    Workqs = {wa, wb}
    None = None
    AidCount = 2
    GenMod = 2
    WorkqOf <- MCWorkqOf
    TypeOf <- MCTypeOf
    Programs <- CoPrograms
PROPERTY CoroutineEnds
CHECK_DEADLOCK FALSE
