SPECIFICATION Spec
CONSTANTS
  Widths = {32}
  Sites = {1}
  NamesAt <- MCNamesAt
  Capacity = 2
  Lengths = {2}
  Muts = {FALSE}
  Sizes = {8}
  MaxHandles = 2
  MaxLoose = 1
  MaxTypes = 7
INVARIANTS TypeOK NeverConfused AlwaysFound
CHECK_DEADLOCK FALSE
