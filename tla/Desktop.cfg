CONSTANTS
  p1 = p1
  p2 = p2
  Commands = {p1, p2}
  Scenarios <- MCScenarios
  Edits <- MCEdits
  MaxRuns = 2
  MaxEdits = 1
SPECIFICATION Spec
INVARIANTS
  OthersStand
PROPERTIES
  ClaimTakes
  LeavesItLoading
  ReleasesAll
CHECK_DEADLOCK FALSE
