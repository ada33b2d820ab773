CONSTANTS
    x1 = x1
    Others = Others
    Layers = {x1}
    HistoryLimit = 2
SPECIFICATION Spec
INVARIANTS
    MarkedIsSaved
PROPERTIES
    HistoryIsALine
    LaterWritesKept
CHECK_DEADLOCK FALSE
