CONSTANTS
  ByteBits = 2
  LengthMarker = 2
  U8Max = 3
  U16Max = 7
  U32Max = 15
  I64Min <- MCI64Min
  I64Max = 63
  Null <- N
  MaxRawGroups = 8
  Unbounded = 1000
  BatchSize = 4
  Cases <- MCCases
SPECIFICATION Spec
INVARIANTS TypeOK BatchesBounded AnswerRight FailsRightly ProducersFirst InPlaceLast OperandsAligned
