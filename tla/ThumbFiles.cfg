CONSTANTS
  p1 = p1
  p2 = p2
  w1 = w1
  w2 = w2
  Paths <- MCPaths
  MimeOf <- MCMimeOf
  Canonical <- MCCanonical
  Installs <- MCInstalls
  Runnable <- MCRunnable
  Procs = {p1, p2}
  WorkersOf <- MCWorkersOf
  Drawn <- MCDrawn
  MaxAsks = 2
  MaxFiles = 2
SPECIFICATION Spec
SYMMETRY MCSwap
INVARIANTS
  HitIsCurrent
  MarkIsOfItsBytes
  TempsAreHeld
  FirstServes
CHECK_DEADLOCK FALSE
