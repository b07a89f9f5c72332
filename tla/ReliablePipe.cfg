SPECIFICATION FairSpec
CONSTANTS
    Files <- AllFiles
    MAX_WORD_LENGTH = 2
    UINT8_MAX = 2
    PIPE_CAPACITY = 6
    MaxRestarts = 2
INVARIANTS BoundedAhead StaleZeroStrandsChild
PROPERTIES DeliversWords CleanRunEnds GivingUpStrandsParent
CHECK_DEADLOCK FALSE
