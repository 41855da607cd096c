SPECIFICATION Spec
CONSTANTS
    r1 = r1
    r2 = r2
    w = w
    NONE = NONE
    Reads <- MCReads
    Others <- MCOthers
    MAXSEGMENTS = 1
    COMMANDS = 2
INVARIANT
    FlagsAgree
CHECK_DEADLOCK FALSE
