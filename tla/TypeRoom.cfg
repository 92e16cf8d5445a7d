SPECIFICATION Spec
CONSTANTS
  Widths = {32}
  Sites = {1}
  NamesAt <- FiveNames
  Capacity = 4
  Lengths = {2}
  Muts = {FALSE}
  Sizes = {8}
  MaxHandles = 1
  MaxLoose = 1
  MaxTypes = 4
INVARIANT RoomMade
CHECK_DEADLOCK FALSE
