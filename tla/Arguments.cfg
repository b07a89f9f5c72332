SPECIFICATION Spec
CONSTANTS
    Argvs <- MCArgvs
    NoLimit = 100
    UINTMAX_MAX = 15
    UINT_MAX = 7
    UINT16_MAX = 3
    INTMAX_MAX = 7
    INT_MAX = 3
    BAUD_RATES = {0, 1, 2, 3}
INVARIANTS ParsedAsUsageSays NumbersMeanWhatTheySay
CHECK_DEADLOCK FALSE
