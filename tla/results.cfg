SPECIFICATION Spec
CONSTANTS
    Students = {1, 2}
    Subjects = {math, art}
    Core = {math}
    Written = {art}
    MaxMark = 1
    Classes = {c1, c2}
    Populated = {c1}
    Policies <- MCPolicies
    Starts <- MCStarts
    Movable = {2}
    Returning = {2}
    AllSubjects = AllSubjects
    MaxChanges = 2
INVARIANTS
    ClosedIsComplete
    CanBeReopened
PROPERTIES
    ClosedNeverRewritten
    StayersAreSignedOffAsCompiled
CHECK_DEADLOCK FALSE
