SPECIFICATION Spec
CONSTANTS
  c1 = c1
  c2 = c2
  c3 = c3
  reset = reset
  Stop = stop
  None = none
  Cells <- MCCells
  Controls <- MCControls
INVARIANTS TypeOK RequestsAccounted CellsInOrder BlamesRunningCell
PROPERTIES RefinesAsyncCall RequestsSettle
CHECK_DEADLOCK FALSE
