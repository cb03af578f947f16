\* Two sources under two prefixes, three measurements.
SPECIFICATION FairSpec
CONSTANTS
  Sources = {s1, s2}
  Names = {n1, n2}
  MaxSources = 2
  Value <- MCValue
INVARIANTS
  OneTimer
  MeasuredOnce
  PercentilesInOrder
PROPERTIES
  EverythingIsReported
CHECK_DEADLOCK FALSE
