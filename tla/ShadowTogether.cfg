SPECIFICATION Spec
CONSTANTS
  Metrics <- MCMetrics
  Composites <- Together
  Values = {1, 2}
  MaxVariables = 3
  MaxBlocks = 5
INVARIANTS ReadsBack
CHECK_DEADLOCK FALSE
