CONSTANTS
  n1 = n1
  n2 = n2
  n3 = n3
  l1 = l1
  Files = {n1, n2, n3}
  Aliases <- MCAliases
  LinkOf <- MCLinkOf
  Initial <- MCInitial
  Texts = {"x", "y"}
  Limit = 2
  Careless = {"close"}
  MaxSends = 3
  MaxDeaths = 1
  MaxOutside = 1
SPECIFICATION Spec
PROPERTIES
  EditsStand
CHECK_DEADLOCK FALSE
