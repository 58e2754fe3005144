SPECIFICATION SerialSpec
CONSTANTS
    Students = {s1, s2}
    Instances = {i1, i2}
    q1 = q1
    q2 = q2
    A = A
    B = B
    Null = Null
    Questions <- MCQuestions
    Objective <- MCObjective
    Options <- MCOneOption
    Key <- MCKey
    QuestionCount = 1
    Duration = 0
    Window = {0}
    Extensions = {1}
    Closers = {"candidate", "forced"}
    Clock = {0, 1}
    MaxExtension = 1
    MaxSittings = 2
    MaxIncidents = 1
    MaxFaults = 0
SYMMETRY Symmetry
PROPERTY ImplementsContract
CHECK_DEADLOCK FALSE
