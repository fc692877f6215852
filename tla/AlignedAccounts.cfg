SPECIFICATION Spec
CONSTANTS
  Inputs <- MCInputs
  Beyond <- MCBeyond
  Widths = {3, 13}
  WordSize = 256
  MaxBits = 144
INVARIANT
  AccountsForEveryBit
CHECK_DEADLOCK FALSE
