CONSTANTS
  v1 = v1
  v2 = v2
  a = a
  b = b
  c = c
  Volumes = {v1, v2}
  Names = {a, b, c}
  CannotRename <- MCOneMount
  CopyNames <- MCCopyNames
  FolderNames <- MCFolderNames
  InitialFiles <- MCFilesAndFifo
  Depth = 2
  MaxItems = 1
  MaxRequests = 2
  Faults = {"copy", "unlink", "chmod"}
  MaxFaults = 1
SPECIFICATION FairSpec
INVARIANTS
  CancelReachesItsTarget
PROPERTIES
  ContentKept
  OpEnds
CHECK_DEADLOCK FALSE
