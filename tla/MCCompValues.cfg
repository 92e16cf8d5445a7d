SPECIFICATION Spec
CONSTANTS
  ByteBits = 3
  WordBytes = 4
  Types <- MCTypes
  Operands <- MCOperands
INVARIANTS ArithmeticExact OrderExact BitsKept
CHECK_DEADLOCK FALSE
