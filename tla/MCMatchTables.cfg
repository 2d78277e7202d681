CONSTANTS
    u1 = u1
    u2 = u2
    u3 = u3
    r1 = r1
    Users = {u1, u2, u3}
    Robots = {r1}
    PlayerNum = 2
    Kind <- AllPublic
    Objects = {1}
    RoomIds = {1, 2}
    MaxCancels = 1
    MaxOrders = 1
SPECIFICATION Spec
INVARIANTS
    SeatedOnce
    AgentsAgree
    ExitFindsRoom
SYMMETRY Alike
