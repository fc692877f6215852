SPECIFICATION Spec
CONSTANTS
  Sources <- MCSources
  Modes = {"raw", "rle", "fast", "greedy", "lazy"}
  DictSize = 6
  MinMatch = 3
  MaxMatch = 4
  FarDist = 5
  LongMatch = 4
  FastAhead = 5
  MaxCodes = 5
  BlockBytes = 4
  BlockSizes = {1, 3}
  Rooms = {2, 9}
  Pieces = {4}
  Stale = {1}
  MaxCalls = 3
  BufSize = 5
INVARIANTS
  CodesStandForInput
  DictionaryHoldsWindow
  StreamEndsComplete
  WholeStreamOrNull
PROPERTIES
  CallsReturn
CHECK_DEADLOCK FALSE
