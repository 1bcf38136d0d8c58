SPECIFICATION Spec
CONSTANTS
    w1 = w1
    w2 = w2
    Workers = {w1, w2}
    Owner = owner
    Poster = poster
    NoWorker = none
    Scripts <- DestroyedOrKept
    MaxPosts = 1
    Inside = TRUE
INVARIANTS
    WorkersAccounted
    SleepersAreReachable
    PoolOutlivesWorkers
PROPERTIES
    WorkIsDone
    DestroyReturns
CHECK_DEADLOCK FALSE
