SPECIFICATION Spec
CONSTANTS
  Servers = {s1, s2}
  Items = {i1, i2, i3}
  Cats = {c1, c2}
  NoServer = NoServer
  NoItem = NoItem
  NoCat = NoCat
  First = s1
  Home = c1
  MaxSaves = 0
  MaxRemote = 2
  MaxCategories = 1
  MaxFaults = 1
  MaxInAll = 3
INVARIANTS FiledSomewhere
\* Nobody has to sync, and the bounds end what happens around it.
CHECK_DEADLOCK FALSE
