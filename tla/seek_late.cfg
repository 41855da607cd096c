SPECIFICATION Spec
CONSTANTS
    PROMPT = FALSE
    MAXSEEKS = 3
    MAXPID = 2
INVARIANT
    SuccessIsCurrent
CHECK_DEADLOCK FALSE
