CONSTANTS
  d1 = d1
  d2 = d2
  d3 = d3
  d4 = d4
  d5 = d5
  t1 = t1
  t2 = t2
  Null = Null
  DataIds <- MCDataIds
  TagIds <- MCTagIds
  Array <- MCArray
  Wt <- MCWt
  Dev <- MCDev
  InitialLists <- MCLists
  IsCache = TRUE
  AccessMode = "normal"
  Objectives = {0, 2}

SPECIFICATION FairSpec

INVARIANTS
  OwnershipRight
  Filtered
  LeastOfExamined

PROPERTIES
  Termination
