SPECIFICATION Spec
CONSTANTS
    Procs = {r1, r2}
    MaxKills = 2
    MaxFaults = 2
SYMMETRY Symmetry
INVARIANTS UserFilesSurvive CleanupIsComplete
PROPERTY UndisturbedRun
CHECK_DEADLOCK FALSE
