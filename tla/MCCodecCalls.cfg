SPECIFICATION Spec
CONSTANTS
  Radix = 5
  FastBits = 2
  MaxCode = 15
  StaleFlags = 255
  MaxLengthSymbol = 287
  MaxDistanceSymbol = 31
  Counts <- MCCounts
  Limits = {3, 15}
  SizeLists <- MCSizeLists
  MaxItems = 10
  Items <- MCItems
INVARIANTS
  SymbolsAsInRFC
  CodesAreOptimal
  LookupsDecode
  PackedUnpacks
  CodesReadBack
CHECK_DEADLOCK FALSE
