\* Two terminals, one session, one restart.
CONSTANTS
    t1 = t1
    t2 = t2
    s1 = s1
    s2 = s2
    Terminals = {t1, t2}
    Sessions = {s1}
    NoSession = NoSession
    NotWritten = NotWritten
    NotRead = NotRead
    MaxStarts = 2
SPECIFICATION Spec
INVARIANTS
    QuitIsKept
    UnopenedIsKept
    ResumedOnce
CHECK_DEADLOCK FALSE
