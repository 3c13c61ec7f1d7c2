SPECIFICATION FairSpec
CONSTANTS
    Lengths <- SomeLengths
    DEFAULT_BLOCKSIZE = 65536
    MIN_BLOCK_COUNT = 8
    MAX_BLOCK_COUNT = 24
CHECK_DEADLOCK FALSE
INVARIANTS Inv BlocksInRange LongEnoughSucceeds
PROPERTY Terminates
