SPECIFICATION Spec
CONSTANTS
  ka = ka
  kb = kb
  kc = kc
  kd = kd
  ke = ke
  NoKey = NoKey
  Keys <- MCKeys
  Hash <- MCHash
  Shift = 32
  MaxPsl = 2
  FirstCommit = 8
  Capacity = 16
  Wrap = 128
INVARIANT Consistent
PROPERTY InternSpec
CHECK_DEADLOCK FALSE
