SPECIFICATION Spec
CONSTANTS
    Students = {s1, s2}
    Sessions = {x1, x2}
    TopLevel = 2
    Classes <- MCClasses
    RuleSets <- MCRuleSets
    DefaultRules <- MCDefaultRules
    Years <- MCYears
    MaxBatches = 2
    MaxChanges = 2
SYMMETRY Symmetry
CHECK_DEADLOCK FALSE
INVARIANTS
    Explainable
    RepeatersStay
PROPERTIES
    NobodyIsLost
    HistoryIsKept
