SPECIFICATION Spec
CONSTANTS
  x = x
  y = y
  z = z
  Depth = 3
  Globals <- MCGlobals
  Programs <- MemberPrograms
INVARIANT OwnContext
CHECK_DEADLOCK FALSE
