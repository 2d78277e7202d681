CONSTANTS
    s1 = s1
    s2 = s2
    s3 = s3
    w1 = w1
    w2 = w2
    None = None
    Vacant = Vacant
    Services = {s1, s2}
    Booted = {s1}
    Workers = {w1, w2}
    Weight <- Weights
    Ids = {1}
    Killable = {s1, s2}
    MayAbort = TRUE
    Lap = 1
    Messages <- MessageSet
    DEFAULT_QUEUE_SIZE = 2
    MQ_OVERLOAD = 1
SPECIFICATION FairSpec
PROPERTIES
    MessagesArrive
    QueuesFreed
    NodeEnds
