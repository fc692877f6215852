SPECIFICATION Spec
CONSTANTS
  Byte = {b0, b1}
  MaxSize = 5
  Null = Null
INVARIANTS
  OriginsAreLiterals
  WeightsAreDescendants
  AnswersAreClassSizes
CHECK_DEADLOCK FALSE
