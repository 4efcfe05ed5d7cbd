CONSTANTS
  m1 = m1
  m2 = m2
  dir = dir
  Media = {m1, m2}
  Plain = {dir}
  Workers = {w1, w2}
  NoJob = NoJob
  MaxQueue = 1
  Listings <- MCListings
  MaxListings = 2
SPECIFICATION FairSpec
INVARIANTS
  OutstandingExact
  AnswersNameTheirRow
PROPERTIES
  RowSettles
  Shutdown
  KeepsPromise
CHECK_DEADLOCK FALSE
