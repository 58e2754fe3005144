SPECIFICATION Spec
CONSTANTS
    Series = {"first", "practice"}
    Kind <- MCKind
    Term <- MCTerm
    Mode <- MCMode
    PerStudent <- MCPerStudent
    Topics = {maths}
    Streams = {all}
    Officers = {o1, o2}
    Quota <- MCQuota
    None = None
    MaxSets = 2
    MaxQuestions = 2
    MaxPapers = 2
SYMMETRY Symmetry
INVARIANTS
    PoolsAreApproved
    NoneOrEnough
    ApprovedIsWhole
PROPERTY
    PublishedHasADay
