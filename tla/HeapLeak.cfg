SPECIFICATION Spec
CONSTANTS
  MinSize = 4
  NumLists = 3
  ClassSize <- MCClassSize
  ReuseLimit = 5
  Reserve = 40
  CommitIncrement = 8
  Grain = 2
  Requests <- MCRequests
CHECK_DEADLOCK FALSE
INVARIANT LeakAcceptsContained
