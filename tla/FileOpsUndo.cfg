CONSTANTS
  v1 = v1
  v2 = v2
  a = a
  b = b
  c = c
  Volumes = {v1}
  Names = {a, b}
  CannotRename <- MCEveryMount
  CopyNames <- MCTwoCopyNames
  FolderNames <- MCTwoFolderNames
  InitialFiles <- MCFiles
  Depth = 2
  MaxItems = 2
  MaxRequests = 3
  Faults = {"copy"}
  MaxFaults = 1
SPECIFICATION Spec
INVARIANTS
  JournalExact
PROPERTIES
  UndoRestores
CHECK_DEADLOCK FALSE
