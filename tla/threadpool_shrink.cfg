SPECIFICATION Spec
CONSTANTS
    w1 = w1
    w2 = w2
    Workers = {w1, w2}
    Owner = owner
    Poster = poster
    NoWorker = none
    Scripts <- ShrunkAndKept
    MaxPosts = 1
    Inside = FALSE
PROPERTIES
    WorkIsDone
CHECK_DEADLOCK FALSE
