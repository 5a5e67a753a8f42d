CONSTANTS
  Threads = {t1}
  FaultThreads = {t1}
  Cpids = {c1}
  NPages = 3
  NBuckets = 2
  Hash <- MC_Hash
  MAX_N_MAP_PAGES = 2
  EnMem = TRUE
  CardAllocMayFail = FALSE
  Interruptible = FALSE
  ForcedMigrations = FALSE
  NULL = NULL

SPECIFICATION Spec

INVARIANT TypeOK
INVARIANT NoOverlap
INVARIANT TlbCoherent
INVARIANT DataIntegrity
INVARIANT CardSeesNewest
INVARIANT PinBalance


\* Every entry point of the driver returns: the waits end because the card
\* is fair; deadlock is checked as well.
PROPERTY EntryPointsReturn

\* A fault the handler blocked for ends with the faulting page mapped.
PROPERTY FaultResolved

\* The driver refines the abstract region table of RegionTable.tla.
PROPERTY RegionTableRefined
