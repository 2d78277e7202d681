CONSTANTS
    s1 = s1
    s2 = s2
    s3 = s3
    w1 = w1
    w2 = w2
    None = None
    Vacant = Vacant
    Services = {s1, s2, s3}
    Booted = {s1, s3}
    Workers = {w1, w2}
    Weight <- Weights
    Ids = {1, 2}
    Killable = {s2}
    MayAbort = FALSE
    Lap = 1
    Messages <- MessageSet
    DEFAULT_QUEUE_SIZE = 2
    MQ_OVERLOAD = 1
SPECIFICATION Spec
SYMMETRY BootedSymmetry
INVARIANTS
    QueuesScheduled
    ContextsSound
    MessagesKept
