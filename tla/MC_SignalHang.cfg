\* SIGINT delivered while a process waits in a loop that ignores it.
CONSTANTS
    NBenchRuns = 2
    NRepsThr = 2
    NRepsLat = 2
    LenBits = 4
    MinSizes <- MC_MinSizes
    MaxSizes <- MC_MaxSizes
    Stall = TRUE
SPECIFICATION Spec
PROPERTY SignalEnds
CHECK_DEADLOCK FALSE
