SPECIFICATION MCSpec
CONSTANTS
  Texts <- QuoteTexts
  Beyonds <- BeyondBuffer
  Keywords = {"if"}
  Builtins = {"_i"}
  MaxStringBytes = 2
  MaxLookahead = 2
INVARIANT WithinFile
CHECK_DEADLOCK FALSE
