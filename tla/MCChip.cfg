CONSTANTS
  Entries = 2
  UIntMax = 30
  Files <- SmallFiles
SPECIFICATION Spec
INVARIANTS FilesRight InputsRight NothingMissing ChargedOnce FiguresRight
PROPERTIES OwnComponent Ends
