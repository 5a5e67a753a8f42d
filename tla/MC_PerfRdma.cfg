\* The benchmark protocol with SIGINT: stale counters and termination.
CONSTANTS
    NBenchRuns = 2
    NRepsThr = 2
    NRepsLat = 2
    LenBits = 4
    MinSizes <- MC_MinSizes
    MaxSizes <- MC_MaxSizes
    Stall = TRUE
SPECIFICATION Spec
INVARIANT TypeOK NoStaleDone PeerFilledFirst
PROPERTY BenchTerminates
