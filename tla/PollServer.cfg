SPECIFICATION FairSpec
CONSTANTS
    Clients = {c1, c2, c3}
    FdTables = {{4, 5}}
    MaxWords = 1
    INITIAL_CAPACITY = 1
INVARIANTS ListsOpenFds LengthReadNeverBlocks
PROPERTY EverythingRead
CHECK_DEADLOCK FALSE
