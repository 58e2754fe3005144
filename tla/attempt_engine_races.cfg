SPECIFICATION FairSpec
CONSTANTS
    Students = {s1}
    Instances = {i1, i2}
    q1 = q1
    q2 = q2
    A = A
    B = B
    Null = Null
    Questions <- MCQuestions
    Objective <- MCObjective
    Options <- MCOneOption
    Key <- MCKey
    QuestionCount = 1
    Duration = 0
    Window = {0}
    Extensions = {1}
    Closers = {"candidate"}
    Clock = {0, 1, 3}
    MaxExtension = 1
    MaxSittings = 2
    MaxIncidents = 1
    MaxFaults = 1
INVARIANTS
    OpenIsUnmarked
    AnswersAreOnPaper
PROPERTIES
    SettledIsFinal
    OverdueIsClosed
CHECK_DEADLOCK FALSE
