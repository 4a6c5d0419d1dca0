SPECIFICATION FairSpec
CONSTANTS
  Contents = {a, b}
  Start = a
  Stamps = {v1, v2, v3, v4, v5}
  Ids = {i1, i2, i3}
  Tasks = {w1}
  Rescan = Rescan
  Calls = {c1}
  Stamped = TRUE
  None = None
  Unreadable = Unreadable
  Saves = 2
  Writes = 1
  Faults = 1
INVARIANTS TypeOK BaselineIsHonest NothingUnseenIsReplaced SilentRetriesWereReported
PROPERTIES SavesLand
\* An edit that has ended and has nothing under way may stop.
CHECK_DEADLOCK FALSE
