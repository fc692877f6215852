SPECIFICATION Spec
CONSTANTS
  Streams <- MCStreams
  Callers = {"inflate", "heap", "callback"}
  DictSize = 4
  Rooms = {1, 6}
  Pieces = {0, 1}
  FirstCapacity = 2
  Memory = 16
  MaxGarbage = 2
INVARIANTS
  OutputIsText
  EndIsWhole
  BufferFits
PROPERTIES
  CallsReturn
  KeepsComing
CHECK_DEADLOCK FALSE
