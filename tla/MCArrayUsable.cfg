CONSTANTS
  a = a
  b = b
  c = c
  d = d
  Null = Null
  IsCache = FALSE
  AccessMode = "normal"
  OrgLists <- MCOrgLists
  Figures <- MCFigures
  LowEfficiency <- MCLowEfficiency
  Throughput = 12
  Latency = 3
  Temps = {300, 350}
  MaxFeedback = 1

SPECIFICATION Spec

INVARIANTS
  UsableAtEnd
