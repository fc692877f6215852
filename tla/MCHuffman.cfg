SPECIFICATION MCSpec
CONSTANTS
  Tables <- MCTables
  TableSize = 4
  MaxLength = 3
  MaxTrees = 2
  IndexSize = 16
  LitLenCodes = {2, 3, 4}
  DistCodes = {1, 2}
  CodeLenFields <- MCFields
  Extras = {0, 1, 3}
  WordSize = 256
INVARIANTS
  TreesWellFormed
  CanonicalCode
  AcceptsWholeCodes
  LengthsInOrder
  TablesAreExpansion
CHECK_DEADLOCK FALSE
