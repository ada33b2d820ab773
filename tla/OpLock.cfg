CONSTANTS
    a = a
    b = b
    k1 = k1
    k2 = k2
    outer = outer
    inner = inner
    gone = gone
    rel = rel
    Projects = {a, b}
    Rels = {rel}
    Dirs <- MCDirs
    Existing <- MCExisting
    Below <- MCBelow
    Calls = {k1, k2}
    NoDir = NoDir
SPECIFICATION Spec
SYMMETRY Symmetry
INVARIANTS
    FoldersDistinct
    LockedWhileRunning
PROPERTIES
    LocksImplementMutex
CHECK_DEADLOCK FALSE
