CONSTANTS
  Threads = {t1}
  FaultThreads = {t1}
  Cpids = {c1}
  NPages = 3
  NBuckets = 2
  Hash <- MC_Hash
  MAX_N_MAP_PAGES = 2
  EnMem = TRUE
  CardAllocMayFail = FALSE
  Interruptible = FALSE
  ForcedMigrations = FALSE
  NULL = NULL

SPECIFICATION Spec

INVARIANT MapArrayInBounds
