SPECIFICATION Spec
CONSTANTS
  Archives <- MCArchives
  Paths <- MCPaths
  Window = 8
  EndSize = 6
  RecordSize = 3
  LocalSize = 2
  MaxComment = 12
  NameBuf = 4
  Size64 = TRUE
INVARIANTS
  DirectoryInBounds
  SortKeepsFiles
  LastRecordUsed
  LocateFindsName
  EntriesAreFiles
PROPERTIES
  OpenReturns
CHECK_DEADLOCK FALSE
