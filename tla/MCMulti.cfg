SPECIFICATION Spec
CONSTANTS
  MaxUnits = 2
  Area <- MCArea
  Peak <- MCPeak
  PerAccess <- MCPerAccess
  Clock <- MCClock
  TargetClock = 2
  PipeEnergy = 3
  LinkArea = 1
  LinkEnergy = 2
  Inputs <- MCInputs
  Cycles = {1, 2}
  Duties = {0, 1}
  Accesses = {0, 3}
  MaxCommands = 3
INVARIANTS
  TypeOK
  AsAsked
  WholeChip
  FileIsInitial
PROPERTIES
  RunEnds
