SPECIFICATION StudentsSpec
CONSTANTS
    Pupils = {p1, p2}
    C1 = C1
    C2 = C2
    ClassIds = {C1, C2}
    Maths = Maths
    Junior = Junior
    Senior = Senior
    Subjects = {Maths, Junior, Senior}
    Core = {Maths}
    Capacities = {0, 1}
    Offered <- MCOffered
    Slots = {t1, t2}
    Office = Office
    None = None
    MaxStarted = 4
    MaxSessions = 2
SYMMETRY Symmetry
INVARIANTS
    RoomIsKept
    SeatsAreInClasses
    LoginFollowsStanding
    ScoredIsRegistered
CHECK_DEADLOCK FALSE
