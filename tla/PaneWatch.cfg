CONSTANTS
  f1 = f1
  f2 = f2
  home = home
  link = link
  other = other
  Folders = {f1, f2}
  Paths = {home, link, other}
  FolderOf <- MCFolderOf
  Start = home
  QueueLimit = 8
  BatchLimit = 2
  MaxChanges = 1
  MaxAsks = 3
  MaxFaults = 1
SPECIFICATION FairSpec
INVARIANTS
  OneWatch
  ChangedIsAboutItsPath
PROPERTIES
  CatchesUp
CHECK_DEADLOCK FALSE
