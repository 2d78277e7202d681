CONSTANTS
    Threads = {t1, t2, t3, t4}
    NoThread = NoThread
    MaxDepth = 2
SPECIFICATION FairSpec
INVARIANTS
    MutualExclusion
    WakeupAssertion
    NoLostWakeup
PROPERTIES
    WaitersEnter
