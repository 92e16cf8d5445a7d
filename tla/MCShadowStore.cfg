SPECIFICATION Spec
CONSTANTS
  Metrics <- MCMetrics
  Composites <- Apart
  Values = {1, 2}
  MaxVariables = 3
  MaxBlocks = 5
INVARIANTS ReadsBack OneOwner
CHECK_DEADLOCK FALSE
