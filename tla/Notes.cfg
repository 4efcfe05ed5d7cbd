CONSTANTS
  n1 = n1
  n2 = n2
  n3 = n3
  l1 = l1
  Files = {n1, n2, n3}
  Aliases <- MCAliases
  LinkOf <- MCLinkOf
  Initial <- MCInitial
  Texts = {"x", "y"}
  Limit = 2
  Careless = {}
  MaxSends = 3
  MaxDeaths = 1
  MaxOutside = 1
SPECIFICATION FairSpec
PROPERTIES
  EditsStand
  SavedIsWritten
  ReplacedIsBacked
  BusyEnds
CHECK_DEADLOCK FALSE
