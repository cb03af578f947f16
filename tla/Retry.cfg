\* Two loops under one handle, one limited by attempts, the other by time.
SPECIFICATION FairSpec
CONSTANTS
  ByAttempts = l1
  ByTime = l2
  Loops = {l1, l2}
  Racers = {l1, l2}
  Attempts <- AttemptsOf
  Timeout <- TimeoutOf
  Infinity = Infinity
  AttemptCap = 3
INVARIANTS
  EveryAwaitIsAbortable
  AttemptsDoNotOverlap
PROPERTIES
  AbortIsHeeded
  AbortSettles
  RetryEnds
CHECK_DEADLOCK FALSE
