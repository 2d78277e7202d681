CONSTANTS
    u1 = u1
    u2 = u2
    u3 = u3
    r1 = r1
    Users = {u1, u2}
    Robots = {r1}
    PlayerNum = 2
    Kind <- AllPublic
    Objects = {1}
    RoomIds = {1}
    MaxCancels = 2
    MaxOrders = 1
SPECIFICATION FairSpec
PROPERTIES
    MatchingEnds
