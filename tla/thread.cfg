SPECIFICATION FairSpec
CONSTANTS
    r1 = r1
    r2 = r2
    w = w
    NONE = NONE
    Reads <- MCReads
    Others <- MCOthers
    MAXSEGMENTS = 2
    COMMANDS = 2
INVARIANTS
    TypeOK
    NoLostWakeup
    EndedOnce
PROPERTIES
    EveryRequestEnds
    RemoveReturns
    EjectEndsRequests
    DeviceImplemented
CHECK_DEADLOCK FALSE
