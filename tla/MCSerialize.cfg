SPECIFICATION Spec
CONSTANTS
  o1 = o1
  o2 = o2
  Objects <- MCObjects
  Processor = proc
  Tech = tech
  Null = null
  Slots = 2
INVARIANTS
  EachOnce
  SameGraph
PROPERTIES
  Termination
