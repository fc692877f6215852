SPECIFICATION Spec
CONSTANTS
  WindowSize = 4
  InitialCapacity = 2
  WordSize = 16
  MaxOut = 10
  Byte = {b0, b1}
  Distances <- MCDistances
  Lengths <- MCLengths
  BitSizes = {9}
  NoStat = NoStat
INVARIANTS
  WindowCoherent
  SourcesPrecede
PROPERTIES
  ImplementsLz77
CHECK_DEADLOCK FALSE
