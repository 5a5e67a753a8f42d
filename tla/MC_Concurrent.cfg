\* One context handles the card's faults and another enters the driver
\* through the user ioctls, as the spec's concurrency model allows; waits are
\* not interrupted.  A fault can map a region between a user migration's
\* unmap and its host flip.
CONSTANTS
  Threads = {t1, t2}
  FaultThreads = {t1}
  Cpids = {c1}
  NPages = 3
  NBuckets = 2
  Hash <- MC_Hash
  MAX_N_MAP_PAGES = 2
  EnMem = TRUE
  CardAllocMayFail = FALSE
  Interruptible = FALSE
  ForcedMigrations = FALSE
  NULL = NULL

SPECIFICATION Spec

INVARIANT TlbCoherent
