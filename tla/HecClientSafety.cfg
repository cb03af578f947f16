\* Both limits of the queue and compressed, retried flights: sizes 1 and 2
\* against a size limit of 2, one entry, two callers of flush() and shutdown().
SPECIFICATION Spec
CONSTANTS
  MaxPushes = 3
  Lengths = {1, 2}
  MaxQueueSize = 2
  MaxQueueEntries = 1
  Gzip = TRUE
  MaxRetries = Infinity
  Infinity = Infinity
  AttemptCap = 1
  Calls = {c1, c2}
SYMMETRY CallSymmetry
INVARIANTS
  TimerArmed
  NothingLostOrDoubled
  BodiesWithinSizeLimit
  EntriesWithinLimit
  FlushDelivers
  DrainedShutdownIsQuiet
PROPERTIES
  AbortStopsPosting
CHECK_DEADLOCK FALSE
