\* One project, added while cycles run, the loop's cycle and a focus or manual
\* cycle that overlaps it; refresh may be turned off.
CONSTANTS
    p1 = p1
    loop = loop
    c1 = c1
    Projects = {p1}
    InitialLive = {}
    Cycles = {loop, c1}
    Loop = loop
    MaxFetches = 1
    Periods = {0, 1}
    FocusLimit = 1
    MaxAge = 1
    RecheckCycles = 1
    BackoffCap = 1
    MaxStreak = 1
    OldGit = FALSE
SPECIFICATION FairSpec
INVARIANTS
    OneOperationPerProject
    BadgeCoherent
PROPERTIES
    ThrottledApart
    LocksImplementMutex
    TasksEnd
    RemoteRechecked
    OffDrains
