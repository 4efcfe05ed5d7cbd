CONSTANTS
  MaxStarts = 2
  Entries <- MCEntries
  Folders <- MCFolders
  Locked <- MCLocked
  Fleeting <- MCFleeting
  Orders <- MCOrders
  Size <- MCSize
  Mtime <- MCMtime
  Opens <- MCOpens
  Queries <- MCQueries
  HiddenFlags = {FALSE}
  Sorts <- MCSorts
  DirsPerTick = 1
  MaxAsks = 2
  MaxChanges = 1
SPECIFICATION FairSpec
INVARIANTS
  AnswersAreTheirRows
PROPERTIES
  AnswersInOrder
  WaitsEnd
CHECK_DEADLOCK FALSE
