CONSTANTS
    u1 = u1
    u2 = u2
    u3 = u3
    r1 = r1
    Users = {u1, u2}
    Robots = {}
    PlayerNum = 2
    Kind <- AllNamed
    Objects = {1, 2}
    RoomIds = {1}
    MaxCancels = 1
    MaxOrders = 1
SPECIFICATION Spec
INVARIANTS
    WaitersAreTicked
