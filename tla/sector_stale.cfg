SPECIFICATION Spec
CONSTANTS
    Starts = {10, 11}
    Sizes = {1, 2}
    FRAME_RETRY = 2
    Previous = {0}
    STOPS = 1
    Misreads = {11}
    Laps = {10}
    AHEAD = 2
    BACK = 2
    MARGIN = 4
    FAR = 3
    SKIPS = 1
    C3_RETRY = 2
    KMP_RETRY = 2
    RING = 6
    Landings <- MCLandings
    SWITCHES = 1
    END = 14
INVARIANT
    SectorsFromCD
CHECK_DEADLOCK FALSE
