SPECIFICATION Spec
CONSTANTS
  Contents = {a, b}
  Start = a
  Stamps = {v1, v2, v3, v4, v5}
  Ids = {i1, i2}
  Tasks = {w1}
  Rescan = Rescan
  Calls = {c1}
  Stamped = FALSE
  None = None
  Unreadable = Unreadable
  Saves = 3
  Writes = 0
  Faults = 0
PROPERTIES CloseKeepsUnsynced
\* An edit that has ended and has nothing under way may stop.
CHECK_DEADLOCK FALSE
