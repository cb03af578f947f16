\* config.ts: maxRetries limits the attempts.
SPECIFICATION Spec
CONSTANTS
  MaxPushes = 1
  Lengths = {1}
  MaxQueueSize = 1
  MaxQueueEntries <- NoEntryLimit
  Gzip = FALSE
  MaxRetries = 1
  Infinity = Infinity
  AttemptCap = 3
  Calls = {c1}
INVARIANT AttemptsWithinLimit
CHECK_DEADLOCK FALSE
