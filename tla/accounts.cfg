SPECIFICATION Spec
CONSTANTS
    Requests = {r1, r2}
    Allowed = 2
    CodeCount = 1
    MaxStarted = 5
    MaxSessions = 2
    MaxLinks = 1
    MaxCodes = 3
    MaxDeaths = 1
SYMMETRY Symmetry
INVARIANTS
    LinksWorkOnce
    TwoStepsTaken
    OldPasswordsAreOut
    TwoStepIsProven
    GuessesAreCounted
CHECK_DEADLOCK FALSE
