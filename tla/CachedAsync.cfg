\* Three keys for a cache that is sure to keep two, three callers.
SPECIFICATION Spec
CONSTANTS
  Keys = {k1, k2, k3}
  Values <- MCValues
  None = None
  MaxSize = 2
  Callers = {c1, c2, c3}
  MaxFlights = 4
SYMMETRY KeysAndCallers
INVARIANTS
  KeepsRecentlyUsed
  FailureIsNotCached
  OneProducerPerKey
PROPERTIES
  ImplementsStore
CHECK_DEADLOCK FALSE
