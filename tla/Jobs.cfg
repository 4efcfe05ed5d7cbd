CONSTANTS
  j1 = j1
  j2 = j2
  Threads = {j1, j2}
  Scenarios <- MCScenarios
  Leftovers <- MCLeftovers
  MaxAttempts = 2
  LineBudget = 4
  Chunk = 3
  ClosesEarly = {"list", "media"}
  MaxMeddles = 2
  NameCap = 1
SPECIFICATION FairSpec
INVARIANTS
  WorkIsPrivate
  AnswerIsTrue
  KillsItsOwn
PROPERTIES
  NothingIsReplaced
  MetaIsAnswered
CHECK_DEADLOCK FALSE
