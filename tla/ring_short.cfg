SPECIFICATION Spec
CONSTANTS
    CHUNK = 8
    HALVES = 5
    FRAME = 5
    FAR = 2
    Requests = {9}
    Gaps <- MCGaps
    Steps <- MCSteps
    WORK = 2
    SEEK_HALVES = 1
    FIX_HALVES = 0
    EJECTS = 1
INVARIANT
    BufferedEnough
CHECK_DEADLOCK FALSE
