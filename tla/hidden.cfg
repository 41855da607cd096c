SPECIFICATION Spec
CONSTANTS
    SectorSize <- MCSectorSize
    CardSizes = {8, 9}
    BOOT = 1
    UNIT = 2
    RETRIES = 2
    Offsets = {0, 1, 3}
    LEAKS = 1
INVARIANT
    AccessInArea
CHECK_DEADLOCK FALSE
