\* Four tasks for two slots inside a race; tasks may abort the handle or throw.
SPECIFICATION FairRaceSpec
CONSTANTS
  Racers = {"all"}
  NumTasks = 4
  MaxConcurrent = 2
  MayThrow = TRUE
INVARIANTS
  ConcurrencyLimit
  NoIdleSlot
PROPERTIES
  StartsInOrderUntilAbort
  EveryTaskIsRun
  LosersStartNothing
  LosersSettle
CHECK_DEADLOCK FALSE
