CONSTANTS
  NThreads = 3
  NumIter = 4
  NumDsam = 2
  NspdMin <- MCNspdMin
  MaxSpd = 2
  WtMin = 0
  WtMax = 1
  IpWt = 1
  IsCache = TRUE
  ForceConfig <- ForceRow
  Valid <- MCValid
  Metrics <- MCMetrics
  Cost <- MCCost
  BigNum = 100
  Scratch = Scratch
  ArrayRequests <- MCArrayRequests
  ArrayPartitions <- MCArrayPartitions

SPECIFICATION FairSpec

INVARIANTS
  TypeOK
  TechConsistent
  OnlyFilled
  WorkSplit
  CapacityRight
  ShapesRight

PROPERTIES
  NeverRevisits
  MainStepsAlone
  ImplementsExhaustiveSearch
  Termination
