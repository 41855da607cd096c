SPECIFICATION FairSpec
CONSTANTS
    Starts = {4573, 4575}
    Sizes = {2}
    FRAME_RETRY = 1
    Previous = {0,1}
    Misreads = {4574}
    Laps = {4574}
    AHEAD = 2
    BACK = 2
    MARGIN = 3
    FAR = 3
    SKIPS = 1
    C3_RETRY = 2
    KMP_RETRY = 2
    RING = 5
    Landings <- MCFewLandings
    STOPS = 1
    SWITCHES = 1
    END = 4576
INVARIANTS
    TypeOK
    RightSectors
    RingPlaced
    SeeksBounded
PROPERTIES
    UndecodedAfterRetry
    ReadEnds
CHECK_DEADLOCK FALSE
