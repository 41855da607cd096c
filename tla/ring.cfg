SPECIFICATION FairSpec
CONSTANTS
    CHUNK = 8
    HALVES = 5
    FRAME = 5
    FAR = 2
    Requests = {9}
    Gaps <- MCGaps
    Steps <- MCSteps
    WORK = 1
    SEEK_HALVES = 1
    FIX_HALVES = 0
    EJECTS = 2
INVARIANTS
    TypeOK
    NoOverrun
    SequentialBuffered
    SpaceHonest
    CountFaithful
PROPERTIES
    QueueImplemented
    ReadReturns
    ForceStopEndsRead
CHECK_DEADLOCK FALSE
