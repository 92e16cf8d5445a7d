SPECIFICATION Spec
CONSTANTS
  ka = ka
  kb = kb
  kc = kc
  kd = kd
  ke = ke
  NoKey = NoKey
  Keys <- FullKeys
  Hash <- FullHash
  Shift = 32
  MaxPsl = 1
  FirstCommit = 2
  Capacity = 4
  Wrap = 32
INVARIANT Consistent
CHECK_DEADLOCK FALSE
