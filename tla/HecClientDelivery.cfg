\* Without gzip nothing but a shutdown makes the client give up a message.
\* What happens eventually, with HEC failing for ever or recovering for good.
SPECIFICATION FairSpec
CONSTANTS
  MaxPushes = 2
  Lengths = {1}
  MaxQueueSize = 1
  MaxQueueEntries <- NoEntryLimit
  Gzip = FALSE
  MaxRetries = 1
  Infinity = Infinity
  AttemptCap = 2
  Calls = {c1, c2}
PROPERTIES
  ImplementsDelivery
  AbortedFlightsSettle
  MessagesReachHec
  FlushReturns
CHECK_DEADLOCK FALSE
