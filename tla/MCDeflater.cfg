SPECIFICATION Spec
CONSTANTS
  WindowSize = 4
  InitialCapacity = 4
  WordSize = 32
  MaxOut = 8
  NoStat = NoStat
  Symbols = {65, 66, 256, 257, 258, 286}
  DistSymbols = {0, 3, 30}
  CodeBits = {1}
  TableBits = {17}
  RawLengths = {0, 2}
  MaxBits = 45
INVARIANTS
  BitsConserved
  ReturnsComplete
  ErrorsNeverReachCaller
PROPERTIES
  ImplementsLz77
CHECK_DEADLOCK FALSE
