SPECIFICATION StaffingSpec
CONSTANTS
    First = p1
    Staff = {p1, p2, p3}
    Classes = {c1}
    Posts = {x1}
    Slots = {t1, t2}
    None = None
    MaxTransactions = 6
    MaxRows = 2
SYMMETRY Symmetry
INVARIANTS
    OnePrincipal
    PrincipalStays
    DutiesAreInForce
CHECK_DEADLOCK FALSE
