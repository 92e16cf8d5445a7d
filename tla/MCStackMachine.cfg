SPECIFICATION Spec
CONSTANTS
  Sources <- MCSources
  Stale <- MCStale
INVARIANTS
  Depths
  NoDangling
  BoundByName
  Balanced
  Means
PROPERTIES
  Terminates
CHECK_DEADLOCK FALSE
