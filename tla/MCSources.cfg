SPECIFICATION Spec
CONSTANTS
  FileOf <- MCFileOf
  TextOf <- MCTextOf
  Edited <- MCEdited
  Resolve <- MCResolve
  PreludePath = "prelude"
  MainPath = "main"
  MaxSource = 15
  MaxErrors = 2
  MaxFindings = 3
  ContextBefore = 1
  ContextSize = 2
INVARIANTS Attributed OneTypePerFile
PROPERTY ShownWhereFound
CHECK_DEADLOCK FALSE
