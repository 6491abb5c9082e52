SPECIFICATION Spec
CONSTANTS
  o1 = o1
  o2 = o2
  a = a
  b = b
  dir = dir
  Ops <- MCOps
  Paths <- MCPaths
  Dirs = {dir}
  DirOf <- MCDirOf
  Kinds <- AllKinds
  None = none
  Hole = hole
  CanFail = TRUE
SYMMETRY OpSymmetry
INVARIANTS TypeOK UndisturbedIsWhole
PROPERTY UndisturbedIsExact
CHECK_DEADLOCK FALSE
