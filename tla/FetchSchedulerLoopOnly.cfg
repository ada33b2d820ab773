\* An old git; two projects that may be removed, the second one added while the loop runs
\* alone.
CONSTANTS
    p1 = p1
    p2 = p2
    loop = loop
    Projects = {p1, p2}
    InitialLive = {p1}
    Cycles = {loop}
    Loop = loop
    MaxFetches = 1
    Periods = {1}
    FocusLimit = 1
    MaxAge = 1
    RecheckCycles = 1
    BackoffCap = 2
    MaxStreak = 1
    OldGit = TRUE
SPECIFICATION FairSpec
PROPERTIES
    ZombiesPruned
    BackoffRespected
