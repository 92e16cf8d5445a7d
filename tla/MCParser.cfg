\* Every construct over small operands and inside every other, trees on both
\* sides of the depth limit, and all token sequences of up to five tokens of
\* two alphabets.
SPECIFICATION Spec
CONSTANTS
  Names = {"a", "b", "x", "y", "z"}
  Literals = {"1"}
  MaxOperators = 64
  MaxOperands = 127
  MaxParams = 64
  MaxAstDepth = 11
  Alphabets = {{"a", "-", "*", "=", "(", ")", ".&", "eval"},
               {"a", "-", ".", "[", "]", "..", "{", "catch"}}
  MaxLength = 5
  Programs <- MCPrograms
  Strings <- MCStrings
INVARIANTS
  ParsesBack
  TokensKept
  Traversals
CHECK_DEADLOCK FALSE
