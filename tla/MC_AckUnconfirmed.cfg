CONSTANTS
  Psns <- MC_Psns
  RKey = RKey
  FillWords <- MC_FillWords
  MayFail = FALSE
  ShortReads = FALSE
  NULL = NULL

SPECIFICATION Spec

INVARIANT AckMeansDelivered

\* Both processes end; the run is about the order of poll and completion.
CHECK_DEADLOCK FALSE
