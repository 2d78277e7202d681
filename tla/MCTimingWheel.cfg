CONSTANTS
    TIME_NEAR = 2
    TIME_LEVEL = 2
    Timers = {1, 2}
    Delays <- AllDelays
    MaxLag = 2
SPECIFICATION FairSpec
INVARIANTS
    OnTime
PROPERTIES
    NoneIsEarly
    FirstSetFirst
    TimersFire
