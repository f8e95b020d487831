SPECIFICATION Spec
CONSTANTS
  I64Min <- MCI64Min
  I64Max <- MCI64Max
  NarrowMax = 7
  RawKeyLimit = 16
  KeyBits = 6
  Cases <- MCCases
INVARIANTS
  TypeOK
  PartialRowsRight
  PartialGroupsRight
  AnswerRight
  FailsOnlyOnOverflow
CHECK_DEADLOCK FALSE
