SPECIFICATION Spec
CONSTANTS
  Programs <- MCGivenBoth
  Tr = 1
  Im = 2
  Other = 3
  Make = 4
  Result = 5
  G = 6
  p = 7
  q = 8
  a = 9
  pt = 10
  pv = 11
  x = 12
  y = 13
INVARIANTS
  Means
CHECK_DEADLOCK FALSE
