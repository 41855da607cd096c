SPECIFICATION Spec
CONSTANTS
    PROMPT = TRUE
    MAXSEEKS = 4
    MAXPID = 2
INVARIANTS
    TypeOK
    SuccessIsCurrent
PROPERTY
    ServiceImplemented
CHECK_DEADLOCK FALSE
