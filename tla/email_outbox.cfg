SPECIFICATION FairSpec
CONSTANTS
    Mails = {1, 2}
    Large = large
    Small = small
    Schools = {large, small}
    SchoolOf <- MCOneSchool
    Platform = platform
    Drainers = {job, portal}
    Job = job
    Limit = 1
    None = None
    MaxFaults = 1
    MaxClicks = 1
    MaxSuspensions = 1
CHECK_DEADLOCK FALSE
INVARIANTS
    RepeatsHaveACause
PROPERTIES
    ImplementsContract
    QueuedIsSettled
