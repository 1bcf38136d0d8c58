SPECIFICATION FairSpec
CONSTANTS
    Threads = {t1, t2}
    Messages = {m1, m2}
    Functors = {f1, f2}
    Calls = {"enqueue", "dequeue", "throw", "callback", "callback_null",
             "commit", "move"}
    Limits = {1, 2}
    None = None
INVARIANTS
    TypeOK
    NoLostEvent
    MessagesKept
PROPERTIES
    ImplementsContract
    EventuallyCalled
