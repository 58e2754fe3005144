SPECIFICATION MCSpec
CONSTANTS
    o1 = o1
    o2 = o2
    t1 = t1
    t2 = t2
    first = first
    second = second
    Nobody = Nobody
    Officers = {o1, o2}
    Papers = {1, 2, 3}
    Series = {first, second}
    SeriesOf <- MCSeriesOf
    LevelOf <- MCLevelOf
    Staff = {t1, t2}
    Teachers = {t1, t2}
    Day = 6
    Morning = 1
    Afternoon = 3
    Times = {1}
    FirstDays = {0}
    Lengths = {1, 3}
    MaxStarted = 3
    MaxLayouts = 1
    MaxDays = 1
SYMMETRY Symmetry
INVARIANTS
    DriftHasACause
    ClassesSitOnePaper
CHECK_DEADLOCK FALSE
