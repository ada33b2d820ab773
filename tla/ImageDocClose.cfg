CONSTANTS
    x1 = x1
    Others = Others
    Layers = {x1}
    HistoryLimit = 2
SPECIFICATION Spec
PROPERTIES
    ClosingKeepsDocument
CHECK_DEADLOCK FALSE
