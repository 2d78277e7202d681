CONSTANTS
    Turns <- BidDoublePlay
    Ticks = 2
    Shortest = 1
    Clock = 3
    Second = 1
    MaxQueue = 1
SPECIFICATION FairSpec
INVARIANTS
    TurnHasClock
PROPERTIES
    TurnEnds
    TrusteeshipPlays
