SPECIFICATION FairSpec
CONSTANTS
    Buffers <- MCBuffers
    Patterns <- MCPatterns
    SRC_LEN = 8
    MOVE = 4
    MOVE_SIZE = 4
    SEEK_POSITION = 1
    KMP_RETRY = 1
    TABLE = 5
INVARIANTS
    TypeOK
    TableRight
    FirstHeader
    NothingMissed
    RingFollows
PROPERTY
    SearchEnds
CHECK_DEADLOCK FALSE
