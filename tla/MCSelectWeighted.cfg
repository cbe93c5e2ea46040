CONSTANTS
  d1 = d1
  d2 = d2
  d3 = d3
  d4 = d4
  d5 = d5
  t1 = t1
  t2 = t2
  Null = Null
  DataIds <- MCDataIds
  TagIds <- MCTagIds
  Array <- MCArray
  Wt <- MCWt
  Dev <- MCDev
  InitialLists <- MCRamLists
  IsCache = FALSE
  AccessMode = "fast"
  Objectives = {0}

SPECIFICATION FairSpec

INVARIANTS
  LeastCost
