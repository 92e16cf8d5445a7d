SPECIFICATION MCSpec
CONSTANTS
  Texts <- WholeTexts
  Beyonds <- BeyondBuffer
  Keywords = {"if"}
  Builtins = {"_i"}
  MaxStringBytes = 2
  MaxLookahead = 2
PROPERTY HandsOutLexemes
CHECK_DEADLOCK FALSE
