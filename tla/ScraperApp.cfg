\* Two scraped messages, each a batch of its own; one unit of shutdown time.
SPECIFICATION FairSpec
CONSTANTS
  Count = 2
  MaxTime = 1
  TimeCap = 2
  NoLimit = NoLimit
  MaxPushes = 2
  Lengths = {1}
  MaxQueueSize = 1
  MaxQueueEntries <- NoEntryLimit
  Gzip = TRUE
  MaxRetries = Infinity
  Infinity = Infinity
  AttemptCap = 1
  ScrapeAttempts = 2
INVARIANTS
  NoPushIsRefused
  CleanExitIsQuiet
PROPERTIES
  ScrapesDoNotOverlap
  ProcessExits
CHECK_DEADLOCK FALSE
