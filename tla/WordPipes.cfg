SPECIFICATION PipesSpec
CONSTANTS
    Files <- AllFiles
    MAX_WORD_LENGTH = 2
    UINT8_MAX = 2
    PIPE_CAPACITY = 3
    MaxPrinted = 10
    PERMISSIONS = 6
    MaxGarbage = 3
INVARIANT RepeatsLastWord
PROPERTIES DeliversWords RunEnds GivingUpStrandsParent
CHECK_DEADLOCK FALSE
