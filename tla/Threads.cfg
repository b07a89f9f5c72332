SPECIFICATION ThreadsSpec
CONSTANTS
    Threads = {t1, t2, t3}
    ITERATIONS = 2
    Workers = {w1, w2, w3}
    Modes = {"lock", "none", "trylock"}
    TIME_T_MAX = 7
    MainSeconds <- AllMainSeconds
    ThreadSeconds = {0, 1, 2, 3}
    StartTime = 1
    MaxTime = 4
    Runs = {r1, r2, r3}
    TRY_COUNT = 2
INVARIANTS NoWaiterAfterLast NoLostUpdate TimeoutNotEarly UnlinksOwn
PROPERTIES GivesUpOnlyOnChild KilledRunBlocksOthers ProgramEnds
CHECK_DEADLOCK FALSE
