\* One user, two agents, three logins, two connections.
CONSTANTS
    a1 = a1
    a2 = a2
    None = None
    Agents = {a1, a2}
    MaxLogins = 3
    MaxFds = 2
    MaxExtras = 1
SPECIFICATION Spec
SYMMETRY Alike
INVARIANTS
    OneAnswer
    LockoutEnds
    RecordsAgree
