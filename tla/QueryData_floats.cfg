SPECIFICATION Spec
CONSTANTS
  I64Min <- MCI64Min
  I64Max <- MCI64Max
  NarrowMax = 7
  RawKeyLimit = 16
  KeyBits = 6
  Cases <- FloatCases
INVARIANTS
  AnswerRight
CHECK_DEADLOCK FALSE
