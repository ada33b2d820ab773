CONSTANTS
    w1 = w1
    x1 = x1
    Nobody = Nobody
    Windows = {w1}
    Edits = {x1}
    UndoLimit = 1
    MaxRev = 3
    MaxLost = 1
    MaxLoads = 1
    Calls = {"transcribe"}
    AiJobs = {"translate"}
SPECIFICATION Spec
INVARIANTS
    CleanMeansSaved
    NoStrandedEdit
    UndoWithinTranscription
    JobHasAnEnd
PROPERTIES
    NoBlindOverwrite
CHECK_DEADLOCK FALSE
