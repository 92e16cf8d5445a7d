SPECIFICATION Spec
CONSTANTS
  Widths = {32}
  Sites = {1}
  NamesAt <- ChosenNames
  Capacity = 4
  Lengths = {2}
  Muts = {FALSE}
  Sizes = {8}
  MaxHandles = 2
  MaxLoose = 1
  MaxTypes = 7
INVARIANT NamesTell
CHECK_DEADLOCK FALSE
