SPECIFICATION Spec
CONSTANTS
    c1 = c1
    c2 = c2
    Servers = {s1, s2}
    Clients = {c1, c2}
    Files <- MCFiles
    UINT8_MAX = 2
    MESSAGE_LEN = 2
    BACKLOG = 1
    MaxKills = 1
INVARIANTS StreamsArrive AloneIsReachable FailsOnlyBecause
PROPERTIES SigintStops EveryoneServed
CHECK_DEADLOCK FALSE
