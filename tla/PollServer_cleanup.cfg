SPECIFICATION FairSpec
CONSTANTS
    Clients = {c1}
    FdTables = {{4, 5}}
    MaxWords = 1
    INITIAL_CAPACITY = 1
INVARIANT SigintCleansUp
CHECK_DEADLOCK FALSE
