SPECIFICATION FairSpec
CONSTANTS
    Clients = {c1, c2, c3}
    FdTables = {{4, 5}, {4, 6}}
    MaxWords = 1
    FIRST_CAPACITY = 1
    FD_SETSIZE = 6
INVARIANTS ListsOpenFds TurnServesAllReady
PROPERTIES DropsServedOnlyWhenFinished EverythingRead
CHECK_DEADLOCK FALSE
