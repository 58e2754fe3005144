SPECIFICATION FairSpec
CONSTANTS
    Questions = {q1, q2}
    Theory = {q2}
    MaxVersion = 2
    MaxFailures = 2
    MaxPosts = 2
    MaxReloads = 1
INVARIANTS
    UndisturbedIsKept
    UndisturbedIsSubmitted
PROPERTIES
    StoredMovesForward
    EventuallyStored
CHECK_DEADLOCK FALSE
