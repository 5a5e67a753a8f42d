CONSTANTS
  Psns <- MC_Psns
  RKey = RKey
  FillWords <- MC_FillWords
  MayFail = TRUE
  ShortReads = TRUE
  NULL = NULL

SPECIFICATION Spec

INVARIANT TypeOK
PROPERTY WriteAccepted
PROPERTY ServerEnds

\* The system really may stop: a receiver started before the server listens
\* is refused and exits, and the server then blocks in accept (line 290).
CHECK_DEADLOCK FALSE
