CONSTANTS
  w1 = w1
  w2 = w2
  s1 = s1
  s2 = s2
  d = d
  x = x
  Windows = {w1, w2}
  Cli = Cli
  Settings = {s1, s2}
  Newer = Newer
  Values = {d, x}
  Default = d
  Junk = Junk
  Absent = Absent
  Malformed = Malformed
  Unreadable = Unreadable
  Files <- MCFiles
  Commands <- MCCommands
  Legacy <- MCLegacy
  MaxChanges = 2
  MaxCommands = 2
  MaxFaults = 1
SPECIFICATION FairSpec
INVARIANTS
  ReadIsFresh
  NothingSentTwice
  NotOwedIsStored
PROPERTIES
  OthersStand
  OwedIsStored
CHECK_DEADLOCK FALSE
