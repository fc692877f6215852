SPECIFICATION FairSpec
CONSTANTS
  Inputs <- MCInputs
  Beyond <- MCBeyond
  Widths = {3, 13}
  WordSize = 256
  MaxBits = 144
INVARIANTS
  BufferHoldsStream
  AccountLagsBySkips
PROPERTIES
  ImplementsBitStream
  CallsReturn
CHECK_DEADLOCK FALSE
