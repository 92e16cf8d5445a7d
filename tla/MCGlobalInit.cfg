SPECIFICATION Spec
CONSTANTS
  x = x
  y = y
  z = z
  Depth = 3
  Globals <- MCGlobals
  Programs <- MCPrograms
INVARIANTS TypeOK OwnContext RealCycle MeansItsDefinition StacksKept
PROPERTIES InitializedOnce Terminates
CHECK_DEADLOCK FALSE
