SPECIFICATION Spec
CONSTANTS
  MinSize = 4
  NumLists = 3
  ClassSize <- MCClassSize
  ReuseLimit = 5
  Reserve = 40
  CommitIncrement = 8
  Grain = 2
  Requests <- MCRequests
INVARIANTS TypeOK NoOverlap NothingLost HeaderFound LeakWhole
PROPERTY ContractSpec
CHECK_DEADLOCK FALSE
