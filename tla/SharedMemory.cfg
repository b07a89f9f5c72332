SPECIFICATION ShmFairSpec
CONSTANTS
    Servers = {s1, s2}
    Clients = {c1, c2}
    MaxWords = 2
INVARIANTS EndedServerCostsAnswer PairDelivers
PROPERTY OneIsStranded
CHECK_DEADLOCK FALSE
