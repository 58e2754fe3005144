SPECIFICATION Spec
CONSTANTS
    Students = {s1, s2}
    q1 = q1
    q2 = q2
    A = A
    B = B
    Null = Null
    Questions <- MCQuestions
    Objective <- MCObjective
    Options <- MCOptions
    Key <- MCKey
    QuestionCount = 1
    Duration = 1
    Window = {0, 1}
    Extensions = {1}
    Closers = {"candidate", "forced"}
    Clock = {0, 1, 2, 3}
    MaxExtension = 1
    MaxSittings = 2
    MaxIncidents = 1
INVARIANTS
    MarkedAsTheyStand
    ExtensionsAddUp
SYMMETRY Symmetry
CHECK_DEADLOCK FALSE
