\* resource.ts: the resources are shut down within the given time.
SPECIFICATION Spec
CONSTANTS
  Count = 2
  MaxTime = 1
  TimeCap = 2
  NoLimit = NoLimit
  MaxPushes = 2
  Lengths = {1}
  MaxQueueSize = 1
  MaxQueueEntries <- NoEntryLimit
  Gzip = TRUE
  MaxRetries = Infinity
  Infinity = Infinity
  AttemptCap = 1
  ScrapeAttempts = 2
PROPERTY TimeLeftIsGranted
CHECK_DEADLOCK FALSE
